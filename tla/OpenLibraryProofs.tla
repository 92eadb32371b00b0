------------------------- MODULE OpenLibraryProofs -------------------------
(***************************************************************************)
(* What holds of the OpenLibrary workflows for any set of books, any       *)
(* target, any pages of a search or a shelf and any other workflows:       *)
(* types, what is collected, that a top-up never overshoots, and that one  *)
(* which passed has done what it says, as far as its counts were right.    *)
(***************************************************************************)
EXTENDS OpenLibrary, FiniteSetTheorems, TLAPS

Counting == {"counting", "paging", "counted"}
Adding   == {"opening", "shelved", "role", "dropdown", "css", "driver"}
Clearing == {"listing", "removing", "taking off"}

Done   == Len(results)
Failed == "failed" \in ToSet(results)
Bound  == IF listed > Target THEN listed ELSE Target
On(l)  == {b \in Books : shelf[b] = l}

\* Whoever is in an action is in the one of the step the run has come to.
Suits(place, does) ==
  /\ place \in Counting => does \in {"store", "ensure", "assert"}
  /\ place = "collecting" => does = "collect"
  /\ place \in Adding => does = "add"
  /\ place \in Clearing => does = "clear"

InStep == at # "next" => Done < Len(Steps) /\ Suits(at, Now.does)

\* What a page may still give fits in what is missing.
Collecting ==
  at = "collecting" =>
    /\ Cardinality(ToSet(acc)) = Len(acc) /\ ToSet(acc) \subseteq Old
    /\ Len(acc) + room <= Limit

Distinct == Cardinality(ToSet(ctx.collected)) = Len(ctx.collected)

\* Until books are added the list is as it was; nothing is stored out of order.
Order ==
  /\ Done <= 1 => ctx.gap = 0
  /\ Done <= 2 => ctx.collected = << >>
  /\ (Done <= 2 \/ (Done = 3 /\ at = "next")) => Cardinality(OnList) = listed
  /\ (at = "collecting" \/ at \in Adding \/ (at \in Counting /\ Done = 4)) => ctx.gap > 0
  /\ ctx.gap = 0 => ctx.collected = << >> /\ Cardinality(OnList) = listed

\* What is to be added fits in the gap, and the gap in the target, whatever was
\* counted.  A count that was not short, of a session that is still there, saw the
\* whole list; without a session nothing can be shelved any more.
Fits ==
  /\ ctx.gap <= Target
  /\ Len(ctx.collected) <= ctx.gap
  /\ Cardinality(OnList) <= listed + ctx.gap
  /\ at \in Adding => Cardinality(OnList \cup ToSet(todo)) <= listed + ctx.gap
  /\ <<"ensure", "short">> \notin misread =>
       /\ Cardinality(OnList) <= Bound
       /\ live => listed + ctx.gap <= Bound

\* The books on the shelves the count has come to.
Reached == IF side = "want" THEN Cardinality(On("want")) ELSE Cardinality(OnList)

\* What is counted and what is due are no more than there is unless rows were read
\* again, and no less, while the session lasts, unless the count was short.  Where
\* a list that was long enough is checked at all, nothing is shown any more.
CountTells ==
  at \in Counting =>
    /\ <<Now.does, "again">> \notin misread => counted + due <= Reached
    /\ (live /\ <<Now.does, "short">> \notin misread) => Reached <= counted + due
    /\ at = "counted" => side = "already" /\ due = 0
    /\ (Done = 4 /\ listed >= Target /\ <<"ensure", "short">> \notin misread) =>
         counted = 0 /\ ahead = 0

\* What a top-up that passed has made true.
Exact ==
  /\ misread \cap {<<"ensure", "short">>, <<"ensure", "again">>, <<"assert", "again">>} = {} =>
       Cardinality(OnList) = IF listed >= Target THEN listed ELSE Target
  /\ (ctx.gap > 0 /\ live /\ misread \cap ({"assert"} \X {"short", "again"}) = {}) =>
       Cardinality(OnList) = Target

\* What the steps that passed have made true.
Truth ==
  ~Failed =>
    /\ (Done >= 2 /\ listed < Target /\ <<"ensure", "again">> \notin misread) => ctx.gap > 0
    /\ Done = 5 => Exact

Typed     == TypeOK /\ InStep
Collected == Collecting /\ Distinct
Topping   == Order /\ Fits /\ CountTells /\ Truth
TopUpInv  == flow = TopUp => Topping

\* The inductive invariant.
IInv == Typed /\ Collected /\ TopUpInv

---------------------------------------------------------------------------
(* Facts about the operators. *)

Statuses == {"passed", "failed", "skipped"}
Contexts == [collected : Seq(Books), gap : Nat, before : Nat]
Places   == {"next"} \cup Counting \cup {"collecting"} \cup Adding \cup Clearing

\* A set of books is finite.
LEMMA FiniteBooks ==
  ASSUME NEW S \in SUBSET Books
  PROVE  IsFiniteSet(S) /\ Cardinality(S) \in Nat
BY BooksAssumption, FS_Subset, FS_CardinalityType

\* A larger set of books has no fewer members.
LEMMA MoreBooks ==
  ASSUME NEW S \in SUBSET Books, NEW R \in SUBSET S
  PROVE  Cardinality(R) <= Cardinality(S)
BY FiniteBooks, FS_Subset

\* The list is what is on the one shelf and what is on the other.
LEMMA TwoShelves ==
  ASSUME shelf \in [Books -> Labels \cup {None}]
  PROVE  /\ OnList \in SUBSET Books
         /\ \A l \in Labels : On(l) \in SUBSET Books
         /\ Cardinality(OnList) = Cardinality(On("want")) + Cardinality(On("already"))
<1>1. OnList \in SUBSET Books /\ \A l \in Labels : On(l) \in SUBSET Books
  BY DEF OnList, On
<1>2. OnList = On("want") \cup On("already") /\ On("want") \cap On("already") = {}
  BY DEF OnList, On, Labels, None
<1>3. On("want") \in SUBSET Books /\ On("already") \in SUBSET Books
  BY <1>1 DEF Labels
<1>4. Cardinality(On("want") \cup On("already")) =
        Cardinality(On("want")) + Cardinality(On("already")) - Cardinality(On("want") \cap On("already"))
  BY <1>3, FiniteBooks, FS_Union
<1>5. Cardinality(On("want")) \in Nat /\ Cardinality(On("already")) \in Nat
  BY <1>3, FiniteBooks
<1> QED
  BY <1>1, <1>2, <1>4, <1>5, FS_EmptySet

\* A shelf shows no more than it holds, and all of it while the session lasts.
LEMMA ShownOnShelf ==
  ASSUME shelf \in [Books -> Labels \cup {None}], live \in BOOLEAN, NEW l \in Labels
  PROVE  /\ Cardinality(Shown(l)) \in Nat /\ Cardinality(Shown(l)) <= Cardinality(On(l))
         /\ live => Cardinality(Shown(l)) = Cardinality(On(l))
         /\ ~live => Cardinality(Shown(l)) = 0
<1>1. On(l) \in SUBSET Books
  BY DEF On
<1>2. Cardinality(On(l)) \in Nat
  BY <1>1, FiniteBooks
<1>3. CASE live
  BY <1>2, <1>3 DEF Shown, On
<1>4. CASE ~live
  BY <1>2, <1>4, FS_EmptySet DEF Shown
<1> QED
  BY <1>3, <1>4

\* The members of a sequence of books that was appended to, or shortened.
LEMMA Members ==
  ASSUME NEW s \in Seq(Books)
  PROVE  /\ ToSet(s) \in SUBSET Books
         /\ \A b \in Books : ToSet(Append(s, b)) = ToSet(s) \cup {b}
         /\ s # << >> => /\ Head(s) \in Books /\ Head(s) \in ToSet(s)
                         /\ Tail(s) \in Seq(Books) /\ ToSet(Tail(s)) \subseteq ToSet(s)
                         /\ Len(s) > 1 => Tail(s) # << >>
<1>1. ToSet(s) \in SUBSET Books
  BY DEF ToSet
<1>2. ASSUME NEW b \in Books PROVE ToSet(Append(s, b)) = ToSet(s) \cup {b}
  <2>1. DOMAIN Append(s, b) = DOMAIN s \cup {Len(s) + 1}
    OBVIOUS
  <2>2. Append(s, b)[Len(s) + 1] = b /\ \A i \in DOMAIN s : Append(s, b)[i] = s[i]
    OBVIOUS
  <2> QED
    BY <2>1, <2>2 DEF ToSet
<1>3. ASSUME s # << >>
      PROVE  /\ Head(s) \in Books /\ Head(s) \in ToSet(s)
             /\ Tail(s) \in Seq(Books) /\ ToSet(Tail(s)) \subseteq ToSet(s)
             /\ Len(s) > 1 => Tail(s) # << >>
  <2>1. Head(s) = s[1] /\ 1 \in DOMAIN s
    BY <1>3
  <2>2. Tail(s) \in Seq(Books) /\ Len(Tail(s)) = Len(s) - 1
    BY <1>3
  <2>3. \A i \in DOMAIN Tail(s) : i + 1 \in DOMAIN s /\ Tail(s)[i] = s[i + 1]
    BY <1>3
  <2>4. Head(s) \in ToSet(s) /\ ToSet(Tail(s)) \subseteq ToSet(s)
    BY <2>1, <2>3 DEF ToSet
  <2>5. Head(s) \in Books
    BY <2>1
  <2>6. Len(s) > 1 => Tail(s) # << >>
    <3>1. Len(s) \in Nat /\ Len(<< >>) = 0
      OBVIOUS
    <3>2. ASSUME Tail(s) = << >> PROVE Len(Tail(s)) = 0
      BY <3>1, <3>2
    <3> QED
      BY <2>2, <3>1, <3>2
  <2> QED
    BY <2>2, <2>4, <2>5, <2>6
<1> QED
  BY <1>1, <1>2, <1>3

\* The step the run has come to is one of the workflow's.
LEMMA NowIsStep ==
  ASSUME TypeOK, Len(results) < Len(Steps)
  PROVE  Now \in WorkflowStep
<1>1. Steps \in Seq(WorkflowStep) /\ Len(results) \in Nat
  <2>1. flow \in DOMAIN Workflows /\ results \in Seq(Statuses)
    BY DEF TypeOK, Statuses
  <2> QED
    BY <2>1, WorkflowsAssumption DEF Steps
<1>2. Len(results) + 1 \in 1..Len(Steps)
  BY <1>1
<1> QED
  BY <1>1, <1>2 DEF Now

---------------------------------------------------------------------------
(* Types, and that whoever is in an action is in the one of its step. *)

SiteTyped == shelf \in [Books -> Labels \cup {None}] /\ live \in BOOLEAN
RunTyped  == flow \in DOMAIN Workflows /\ results \in Seq(Statuses) /\ ctx \in Contexts /\ listed \in Nat
PageTyped == /\ acc \in Seq(Books) /\ pageNo \in 1..(MaxPages + 1)
             /\ room \in Nat /\ examined \in 0..PageLen
BookTyped == todo \in Seq(Books) /\ label \in Labels /\ pass \in 1..2 /\ rendered \in BOOLEAN
CountTyped ==
  /\ counted \in Nat /\ side \in Labels /\ ahead \in Nat /\ pending \in BOOLEAN /\ turns \in 0..MaxTurns
  /\ due \in Nat /\ misread \in SUBSET ({"ensure", "assert"} \X {"short", "again"})
  /\ pending => ahead > ShelfPage
Placed    == /\ at \in Places /\ Len(results) <= Len(Steps)
             /\ at \notin {"next", "counting", "paging", "counted", "collecting", "listing"} => todo # << >>

\* A count that has not begun, or has been left.
LEMMA NoCount ==
  ASSUME counted = 0, side = "want", ahead = 0, pending = FALSE, turns = 0, due = 0,
         misread \in SUBSET ({"ensure", "assert"} \X {"short", "again"})
  PROVE  CountTyped
<1>1. turns \in 0..MaxTurns /\ side \in Labels
  BY BoundsAssumption DEF Labels
<1>2. pending \in BOOLEAN /\ ~pending
  BY Zenon
<1> QED
  BY <1>1, <1>2 DEF CountTyped

\* The type invariant, by the parts that the actions change together.
LEMMA TypeParts ==
  TypeOK <=> SiteTyped /\ RunTyped /\ CountTyped /\ PageTyped /\ BookTyped /\ Placed
BY DEF TypeOK, SiteTyped, RunTyped, CountTyped, PageTyped, BookTyped, Placed, Statuses, Contexts, Places,
       Counting, Adding, Clearing

LEMMA TypedInit == Init => Typed
<1> SUFFICES ASSUME Init PROVE Typed
  OBVIOUS
<1>1. RunTyped
  <2>1. listed \in Nat
    BY FiniteBooks DEF Init, OnList
  <2> QED
    BY <2>1 DEF Init, RunTyped, Contexts
<1>2. Len(results) <= Len(Steps)
  BY WorkflowsAssumption DEF Init, Steps
<1>3. Placed
  BY <1>2 DEF Init, Placed, Places
<1>8. CountTyped
  BY NoCount DEF Init
<1>4. PageTyped
  BY BoundsAssumption DEF Init, PageTyped
<1>5. BookTyped
  <2>1. rendered \in BOOLEAN
    BY Zenon DEF Init
  <2>2. todo \in Seq(Books) /\ label \in Labels /\ pass \in 1..2
    BY DEF Init, Labels
  <2> QED
    BY <2>1, <2>2 DEF BookTyped
<1>6. SiteTyped
  BY DEF Init, SiteTyped
<1>7. InStep
  BY DEF Init, InStep
<1> QED
  BY <1>1, <1>3, <1>4, <1>5, <1>6, <1>7, <1>8, TypeParts DEF Typed

\* A step that ends: the next one, or the end, is come to with a result more.
LEMMA EndsTyped ==
  ASSUME TypeOK, Len(results) < Len(Steps), flow' = flow, listed' = listed,
         NEW status \in Statuses, NEW c \in Contexts, Ends(status, c)
  PROVE  RunTyped' /\ Placed' /\ InStep'
<1>1. flow \in DOMAIN Workflows /\ results \in Seq(Statuses) /\ listed \in Nat
  BY TypeParts DEF RunTyped
<1>2. Len(Steps) \in Nat /\ Steps' = Steps
  BY <1>1, WorkflowsAssumption DEF Steps
<1>3. results' \in Seq(Statuses) /\ Len(results') = Len(results) + 1 /\ at' = "next" /\ ctx' = c
  BY <1>1 DEF Ends
<1>4. Len(results') <= Len(Steps')
  BY <1>1, <1>2, <1>3
<1> QED
  BY <1>1, <1>3, <1>4 DEF RunTyped, Placed, InStep, Places

\* A run that stays in its step is where that step's action takes it.
LEMMA MovesTyped ==
  ASSUME TypeOK, UNCHANGED runVars, at' \in Places, Len(results) < Len(Steps), Suits(at', Now.does),
         at' \notin {"next", "counting", "paging", "counted", "collecting", "listing"} => todo' # << >>
  PROVE  RunTyped' /\ Placed' /\ InStep'
<1>1. RunTyped /\ Placed /\ UNCHANGED <<flow, results, ctx, listed>>
  BY TypeParts DEF runVars
<1>2. Steps' = Steps /\ Now' = Now /\ Done' = Done
  BY <1>1 DEF Steps, Now, Done
<1>3. Placed'
  BY <1>1, <1>2 DEF Placed
<1>4. InStep'
  BY <1>1, <1>2 DEF InStep, Done
<1> QED
  BY <1>1, <1>3, <1>4 DEF RunTyped

\* A step that begins is there, and its action is one of those asked for.
LEMMA BeginsTyped ==
  ASSUME TypeOK, NEW does, Begins(does)
  PROVE  Len(results) < Len(Steps) /\ at = "next" /\ Now.does \in does
<1>1. Len(results) \in Nat /\ Len(Steps) \in Nat /\ Len(results) <= Len(Steps)
  BY TypeParts, WorkflowsAssumption DEF RunTyped, Placed, Steps
<1> QED
  BY <1>1 DEF Begins, Going, Ended

\* What a run has counted and what its step asks for are numbers.
LEMMA Numbers ==
  ASSUME TypeOK
  PROVE  /\ counted \in Nat /\ ctx \in Contexts
         /\ Len(results) < Len(Steps) => Now.n \in Nat /\ Limit \in Nat
<1>1. counted \in Nat
  BY TypeParts DEF CountTyped
<1>2. ctx \in Contexts /\ ctx.gap \in Nat
  BY TypeParts DEF RunTyped, Contexts
<1>3. Len(results) < Len(Steps) => Now.n \in Nat
  BY NowIsStep DEF WorkflowStep
<1> QED
  BY <1>1, <1>2, <1>3 DEF Limit

\* The rows of a page are a number of those ahead.
LEMMA RowsAhead ==
  ASSUME CountTyped
  PROVE  Rows \in Nat /\ Rows <= ahead
BY BoundsAssumption DEF CountTyped, Rows

\* While books are added, the run is in a step that adds and has a book open.
LEMMA AddingFacts ==
  ASSUME TypeOK, InStep, at \in Adding
  PROVE  /\ Len(results) < Len(Steps) /\ Now.does = "add"
         /\ todo \in Seq(Books) /\ todo # << >> /\ Book \in Books /\ label \in Labels
         /\ ctx \in Contexts
<1>1. at # "next" /\ todo # << >>
  BY TypeParts DEF Adding, Placed
<1>2. todo \in Seq(Books) /\ label \in Labels
  BY TypeParts DEF BookTyped
<1> QED
  BY <1>1, <1>2, Members, TypeParts DEF Book, InStep, Suits, Done, RunTyped

\* Any rung may be the next one.
LEMMA RungTyped ==
  ASSUME TypeOK, InStep, at \in Adding, UNCHANGED <<runVars, todo>>, at' \in Adding
  PROVE  RunTyped' /\ Placed' /\ InStep' /\ todo' \in Seq(Books)
<1>1. /\ Len(results) < Len(Steps) /\ Now.does = "add"
      /\ todo' \in Seq(Books) /\ todo' # << >>
  BY AddingFacts
<1>2. at' \in Places /\ Suits(at', Now.does)
  BY <1>1 DEF Places, Suits, Counting, Adding, Clearing
<1> QED
  BY <1>1, <1>2, MovesTyped DEF Adding

\* Done with a book: the next one, or the end of the step.
LEMMA BookDoneTyped ==
  ASSUME TypeOK, InStep, at \in Adding, BookDone
  PROVE  RunTyped' /\ Placed' /\ InStep' /\ todo' \in Seq(Books) /\ pass' \in 1..2
<1>1. /\ Len(results) < Len(Steps) /\ Now.does = "add" /\ ctx \in Contexts
      /\ todo \in Seq(Books) /\ todo # << >>
  BY AddingFacts
<1>2. todo' = Tail(todo) /\ todo' \in Seq(Books) /\ pass' = 1
  BY <1>1, Members DEF BookDone
<1>3. CASE Len(todo) > 1 /\ at' = "opening" /\ UNCHANGED runVars
  <2>1. todo' # << >>
    BY <1>1, <1>2, <1>3, Members
  <2>2. at' \in Places /\ Suits(at', Now.does)
    BY <1>1, <1>3 DEF Places, Suits, Counting, Adding, Clearing
  <2> QED
    BY <1>1, <1>2, <1>3, <2>1, <2>2, MovesTyped
<1>4. CASE Ends("passed", ctx) /\ UNCHANGED <<flow, listed>>
  BY <1>1, <1>2, <1>4, EndsTyped DEF Statuses
<1>5. CASE Ends("failed", ctx) /\ UNCHANGED <<flow, listed>>
  BY <1>1, <1>2, <1>5, EndsTyped DEF Statuses
<1> QED
  BY <1>3, <1>4, <1>5 DEF BookDone

\* What a click can do to the book that is open leaves it on a shelf or on none.
LEMMA ClicksTyped ==
  ASSUME TypeOK, InStep, at \in Adding,
         NEW effects \in {ButtonPressed(Book), EntryPressed(Book, label)},
         NEW v \in effects \cup {shelf[Book]}, shelf' = [shelf EXCEPT ![Book] = v], live' = live
  PROVE  SiteTyped'
<1>1. shelf \in [Books -> Labels \cup {None}] /\ live' \in BOOLEAN
  BY TypeParts DEF SiteTyped
<1>2. Book \in Books /\ label \in Labels
  BY AddingFacts
<1>3. shelf[Book] \in Labels \cup {None}
  BY <1>1, <1>2
<1>4. ButtonPressed(Book) \subseteq Labels \cup {None}
  BY <1>3 DEF ButtonPressed, Labels
<1>5. EntryPressed(Book, label) \subseteq Labels \cup {None}
  BY <1>2, <1>3 DEF EntryPressed
<1>6. v \in Labels \cup {None}
  BY <1>3, <1>4, <1>5
<1> QED
  BY <1>1, <1>2, <1>6 DEF SiteTyped

\* A rung that clicks, whatever comes of it.
LEMMA RungClicksTyped ==
  ASSUME TypeOK, InStep, at \in Adding, BookTyped,
         NEW effects \in {ButtonPressed(Book), EntryPressed(Book, label)}, NEW v \in effects \cup {shelf[Book]},
         shelf' = [shelf EXCEPT ![Book] = v], live' = live, UNCHANGED <<label, rendered>>,
         \/ BookDone
         \/ at' \in Adding /\ UNCHANGED <<runVars, todo>> /\ pass' \in 1..2
  PROVE  SiteTyped' /\ RunTyped' /\ Placed' /\ InStep' /\ BookTyped'
<1>1. SiteTyped'
  BY ClicksTyped
<1>2. RunTyped' /\ Placed' /\ InStep' /\ todo' \in Seq(Books) /\ pass' \in 1..2
  BY BookDoneTyped, RungTyped
<1> QED
  BY <1>1, <1>2 DEF BookTyped

\* The links of a shelf are to books.
LEMMA LinksTyped ==
  ASSUME NEW s, NEW q \in Links(s)
  PROVE  q \in Seq(Books)
<1> DEFINE linked == Shown(s) \ Unlinked
<1>1. linked \in SUBSET Books
  BY DEF Shown
<1>2. PICK m \in 0..MaxLinks : q \in [1..m -> linked]
  BY DEF Links, SeqOf
<1>3. m \in Nat
  BY BoundsAssumption
<1> HIDE DEF linked
<1> QED
  BY <1>1, <1>2, <1>3

\* Clearing goes on with the books that are left, or ends.
LEMMA ClearTyped ==
  ASSUME TypeOK, InStep, at \in Clearing, NEW left \in Seq(Books), ClearGoesOn(left)
  PROVE  RunTyped' /\ Placed' /\ InStep' /\ todo' \in Seq(Books)
<1>1. Len(results) < Len(Steps) /\ Now.does = "clear" /\ ctx \in Contexts
  BY TypeParts DEF Clearing, InStep, Suits, Done, RunTyped
<1>2. CASE left = << >>
  BY <1>1, <1>2, EndsTyped DEF ClearGoesOn, Statuses
<1>3. CASE left # << >>
  <2>1. Suits(at', Now.does) /\ at' \in Places /\ todo' # << >>
    BY <1>1, <1>3 DEF ClearGoesOn, Suits, Places, Counting, Adding, Clearing
  <2> QED
    BY <1>1, <1>3, <2>1, MovesTyped DEF ClearGoesOn
<1> QED
  BY <1>2, <1>3

\* Every action, and every step that is none, keeps the types.
LEMMA TypedStep == Typed /\ [Next]_vars => Typed'
<1> SUFFICES ASSUME Typed, [Next]_vars PROVE Typed'
  OBVIOUS
<1>0. /\ TypeOK /\ SiteTyped /\ RunTyped /\ CountTyped /\ PageTyped /\ BookTyped /\ Placed
      /\ InStep
  BY TypeParts DEF Typed
<1>a. Len(results) \in Nat /\ Len(Steps) \in Nat
  BY <1>0, WorkflowsAssumption DEF RunTyped, Steps
<1>b. ASSUME SiteTyped', RunTyped', CountTyped', PageTyped', BookTyped', Placed', InStep'
      PROVE  Typed'
  BY <1>b DEF Typed, TypeOK, SiteTyped, RunTyped, CountTyped, PageTyped, BookTyped, Placed, Statuses, Contexts,
             Places, Counting, Adding, Clearing
<1>c. ASSUME UNCHANGED pageVars PROVE PageTyped'
  BY <1>0, <1>c DEF PageTyped, pageVars
<1>d. ASSUME UNCHANGED siteVars PROVE SiteTyped'
  BY <1>0, <1>d DEF SiteTyped, siteVars
<1>e. ASSUME UNCHANGED bookVars PROVE BookTyped'
  BY <1>0, <1>e DEF BookTyped, bookVars
<1>f. ASSUME UNCHANGED <<runVars, at, todo>> PROVE RunTyped' /\ Placed' /\ InStep'
  BY <1>0, <1>f DEF RunTyped, Placed, InStep, runVars, Done, Now, Steps
<1>g. ASSUME UNCHANGED countVars PROVE CountTyped'
  BY <1>0, <1>g DEF CountTyped, countVars
<1>1. CASE SessionExpires
  <2>1. SiteTyped' /\ UNCHANGED <<pageVars, bookVars, countVars>> /\ UNCHANGED <<runVars, at, todo>>
    BY <1>0, <1>1 DEF SessionExpires, SiteTyped, pageVars, bookVars
  <2> QED
    BY <1>0, <2>1, <1>b, <1>g, <1>c, <1>e, <1>f
<1>2. CASE SkipStep
  <2>1. Len(results) < Len(Steps)
    BY <1>0, <1>2, <1>a DEF SkipStep, Going, Ended, Placed
  <2>2. RunTyped' /\ Placed' /\ InStep'
    BY <1>0, <1>2, <2>1, EndsTyped DEF SkipStep, Statuses, RunTyped
  <2> QED
    BY <1>0, <1>2, <2>2, <1>b, <1>c, <1>d, <1>e, <1>g DEF SkipStep, pageVars, siteVars, bookVars
<1>3. CASE EnsureLogin
  <2>1. /\ Len(results) < Len(Steps) /\ ctx \in Contexts
    BY <1>0, <1>3, BeginsTyped DEF EnsureLogin, RunTyped
  <2>2. \E status \in Statuses : Ends(status, ctx)
    BY <1>3 DEF EnsureLogin, Statuses
  <2>3. RunTyped' /\ Placed' /\ InStep'
    BY <1>0, <1>3, <2>1, <2>2, EndsTyped DEF EnsureLogin
  <2>4. shelf' = shelf /\ live' \in BOOLEAN
    BY <1>0, <1>3 DEF EnsureLogin, SiteTyped
  <2>5. SiteTyped'
    BY <1>0, <2>4 DEF SiteTyped
  <2> QED
    BY <1>0, <1>3, <2>3, <2>5, <1>b, <1>c, <1>e, <1>g DEF EnsureLogin, pageVars, bookVars
<1>h. ASSUME NEW s \in Labels, GoesTo(s)
      PROVE  side' \in Labels /\ ahead' \in Nat /\ pending' = FALSE /\ turns' \in 0..MaxTurns /\ due' \in Nat
  BY <1>0, <1>h, ShownOnShelf, BoundsAssumption DEF GoesTo, SiteTyped
<1>i. ASSUME NEW short \in BOOLEAN, NEW again \in BOOLEAN, Misreads(short, again)
      PROVE  misread' \in SUBSET ({"ensure", "assert"} \X {"short", "again"})
  BY <1>0, <1>i DEF Misreads, CountTyped
<1>j. ASSUME at \in Counting, at' \in Counting, UNCHANGED runVars PROVE RunTyped' /\ Placed' /\ InStep'
  <2>1. Len(results) < Len(Steps) /\ Suits(at', Now.does) /\ at' \in Places
    BY <1>0, <1>j DEF InStep, Done, Suits, Places, Counting, Adding, Clearing
  <2> QED
    BY <1>0, <1>j, <2>1, MovesTyped DEF Counting
<1>4. CASE CountBegins
  <2>1. /\ Len(results) < Len(Steps) /\ Now.does \in {"store", "ensure", "assert"} /\ ctx \in Contexts
    BY <1>0, <1>4, BeginsTyped DEF CountBegins, RunTyped
  <2>2. CASE at' = "counting" /\ counted' = 0 /\ GoesTo("want") /\ UNCHANGED <<runVars, misread>>
    <3>1. Suits(at', Now.does) /\ at' \in Places
      BY <2>1, <2>2 DEF Suits, Places, Counting, Adding, Clearing
    <3>2. RunTyped' /\ Placed' /\ InStep'
      BY <1>0, <2>1, <2>2, <3>1, MovesTyped
    <3>3. CountTyped'
      BY <1>0, <1>h, <2>2 DEF CountTyped, Labels
    <3> QED
      BY <1>0, <1>4, <3>2, <3>3, <1>b, <1>c, <1>d, <1>e DEF CountBegins
  <2>3. CASE Ends("failed", ctx) /\ UNCHANGED <<flow, listed, countVars>>
    <3>1. RunTyped' /\ Placed' /\ InStep'
      BY <1>0, <2>1, <2>3, EndsTyped DEF Statuses
    <3> QED
      BY <1>0, <1>4, <2>3, <3>1, <1>b, <1>c, <1>d, <1>e, <1>g DEF CountBegins
  <2> QED
    BY <1>4, <2>2, <2>3 DEF CountBegins
<1>29. ASSUME at \in Counting, at' \in Counting, UNCHANGED <<siteVars, runVars, pageVars, bookVars>>, CountTyped'
       PROVE  Typed'
  BY <1>29, <1>b, <1>c, <1>d, <1>e, <1>j
<1>30. CASE PageLands
  <2>1. CountTyped'
    <3>1. ahead \in Nat /\ ahead > ShelfPage /\ ShelfPage \in Nat /\ due \in Nat
      BY <1>0, <1>30, BoundsAssumption DEF PageLands, CountTyped
    <3>2. ahead' \in Nat /\ due' \in Nat
      BY <1>30, <3>1 DEF PageLands
    <3> QED
      BY <1>0, <1>30, <3>2 DEF PageLands, CountTyped
  <2> QED
    BY <1>29, <1>30, <2>1 DEF PageLands, Reading, Counting
<1>31. CASE CountRows
  <2>1. PICK read \in 0..Rows : counted' = counted + read /\ Misreads(read < Rows \/ ahead < due, ahead > due)
    BY <1>31 DEF CountRows
  <2>2. Rows \in Nat /\ Rows <= ahead /\ ahead \in Nat /\ due \in Nat /\ counted \in Nat
    BY <1>0, RowsAhead DEF CountTyped
  <2>3. counted' \in Nat /\ due' \in Nat
    BY <1>31, <2>1, <2>2 DEF CountRows
  <2>4. misread' \in SUBSET ({"ensure", "assert"} \X {"short", "again"})
    <3>1. (read < Rows \/ ahead < due) \in BOOLEAN /\ (ahead > due) \in BOOLEAN
      OBVIOUS
    <3> QED
      BY <1>i, <2>1, <3>1
  <2>5. CountTyped'
    BY <1>0, <1>31, <2>3, <2>4 DEF CountRows, CountTyped
  <2> QED
    BY <1>29, <1>31, <2>5 DEF CountRows, Counting
<1>32. CASE NextPage
  <2>1. turns' \in 0..MaxTurns
    BY <1>0, <1>32, BoundsAssumption DEF NextPage, CountTyped
  <2>2. CountTyped'
    BY <1>0, <1>32, <2>1 DEF NextPage, CountTyped
  <2> QED
    BY <1>29, <1>32, <2>2 DEF NextPage, Counting
<1>33. CASE LastPage
  <2>1. misread' \in SUBSET ({"ensure", "assert"} \X {"short", "again"})
    <3>1. (due > 0) \in BOOLEAN /\ FALSE \in BOOLEAN
      BY <1>0 DEF CountTyped
    <3> QED
      BY <1>i, <1>33, <3>1 DEF LastPage
  <2>2. CASE side = "want" /\ at' = "counting" /\ GoesTo("already")
    <3>1. CountTyped'
      BY <1>0, <1>33, <1>h, <2>1, <2>2 DEF LastPage, CountTyped, Labels
    <3> QED
      BY <1>29, <1>33, <2>2, <3>1 DEF LastPage, Counting
  <2>3. CASE side = "already" /\ at' = "counted" /\ due' = 0 /\ UNCHANGED <<side, ahead, pending, turns>>
    <3>1. CountTyped'
      BY <1>0, <1>33, <2>1, <2>3 DEF LastPage, CountTyped
    <3> QED
      BY <1>29, <1>33, <2>3, <3>1 DEF LastPage, Counting
  <2> QED
    BY <1>33, <2>2, <2>3 DEF LastPage
<1>5. ASSUME at \in Counting, NEW status \in Statuses, NEW c \in Contexts, Ends(status, c), CountLeft
      PROVE  Typed'
  <2>1. Len(results) < Len(Steps) /\ ctx \in Contexts
    BY <1>0, <1>5 DEF Counting, InStep, Done, RunTyped
  <2>2. RunTyped' /\ Placed' /\ InStep'
    BY <1>0, <1>5, <2>1, EndsTyped DEF CountLeft
  <2>3. CountTyped'
    <3>1. /\ counted' = 0 /\ side' = "want" /\ ahead' = 0 /\ pending' = FALSE /\ turns' = 0 /\ due' = 0
          /\ misread' = misread
      BY <1>5 DEF CountLeft
    <3>2. turns' \in 0..MaxTurns /\ side' \in Labels
      BY <3>1, BoundsAssumption DEF Labels
    <3>3. pending' \in BOOLEAN /\ ~pending'
      BY <3>1, Zenon
    <3> QED
      BY <1>0, <3>1, <3>2, <3>3 DEF CountTyped
  <2> QED
    BY <1>0, <1>5, <2>2, <2>3, <1>b, <1>c, <1>d, <1>e DEF CountLeft
<1>34. CASE CountFails
  BY <1>0, <1>5, <1>34 DEF CountFails, Reading, Counting, RunTyped, Statuses
<1>6. CASE StoreCount
  <2>1. [ctx EXCEPT !.before = counted] \in Contexts
    BY <1>0, Numbers DEF Contexts
  <2> QED
    BY <1>5, <1>6, <2>1 DEF StoreCount, CountEnds, Counting, Statuses
<1>7. CASE EnsureCount
  <2>1. Len(results) < Len(Steps)
    BY <1>0, <1>7 DEF EnsureCount, CountEnds, InStep, Done
  <2>2. Now.n \in Nat /\ counted \in Nat /\ ctx \in Contexts
    BY <1>0, <2>1, Numbers
  <2>3. (IF counted >= Now.n THEN ctx ELSE [ctx EXCEPT !.gap = Missing]) \in Contexts
    BY <2>2 DEF Missing, Contexts
  <2> QED
    BY <1>5, <1>7, <2>3 DEF EnsureCount, CountEnds, Counting, Statuses
<1>8. CASE AssertCount
  <2>1. ctx \in Contexts
    BY <1>0 DEF RunTyped
  <2> QED
    BY <1>5, <1>8, <2>1 DEF AssertCount, CountEnds, Counting, Statuses
<1>9. CASE CollectBegins
  <2>1. Len(results) < Len(Steps) /\ Now.does = "collect"
    BY <1>0, <1>9, BeginsTyped DEF CollectBegins
  <2>2. Suits(at', Now.does) /\ at' \in Places /\ at' = "collecting"
    BY <1>9, <2>1 DEF CollectBegins, Suits, Places, Counting, Adding, Clearing
  <2>3. RunTyped' /\ Placed' /\ InStep'
    BY <1>0, <1>9, <2>1, <2>2, MovesTyped DEF CollectBegins
  <2>4. Limit \in Nat
    BY <1>0, <2>1, Numbers
  <2>5. PageTyped'
    BY <1>9, <2>4, BoundsAssumption DEF CollectBegins, PageTyped
  <2> QED
    BY <1>0, <1>9, <2>3, <2>5, <1>b, <1>g, <1>d, <1>e DEF CollectBegins
<1>10. CASE ExamineEntry
  <2>1. RunTyped' /\ Placed' /\ InStep'
    BY <1>10, <1>f DEF ExamineEntry, bookVars
  <2>2. acc \in Seq(Books) /\ pageNo' = pageNo /\ pageNo \in 1..(MaxPages + 1)
    BY <1>0, <1>10 DEF ExamineEntry, PageTyped
  <2>3. room \in Nat /\ room > 0 /\ examined' = examined + 1 /\ examined' \in 0..PageLen
    BY <1>0, <1>10, BoundsAssumption DEF ExamineEntry, PageTyped
  <2>4. acc' \in Seq(Books) /\ room' \in Nat
    <3>1. ASSUME NEW b \in Old PROVE Taken(b) \in Seq(Books)
      BY <2>2, BooksAssumption DEF Taken
    <3> QED
      BY <1>10, <2>2, <2>3, <3>1 DEF ExamineEntry
  <2>5. PageTyped'
    BY <2>2, <2>3, <2>4 DEF PageTyped
  <2> QED
    BY <1>0, <1>10, <2>1, <2>5, <1>b, <1>g, <1>d, <1>e DEF ExamineEntry
<1>11. CASE TurnPage
  <2>1. RunTyped' /\ Placed' /\ InStep'
    BY <1>11, <1>f DEF TurnPage, bookVars
  <2>2. acc \in Seq(Books) /\ acc' = acc /\ pageNo \in 1..(MaxPages + 1) /\ pageNo <= MaxPages
    BY <1>0, <1>11 DEF TurnPage, Wanting, PageTyped
  <2>3. pageNo' \in 1..(MaxPages + 1)
    BY <1>11, <2>2, BoundsAssumption DEF TurnPage
  <2>4. Len(results) < Len(Steps)
    BY <1>0, <1>11 DEF TurnPage, InStep, Done
  <2>5. Limit \in Nat /\ Len(acc) < Limit /\ Len(acc) \in Nat
    BY <1>0, <1>11, <2>2, <2>4, Numbers DEF TurnPage, Wanting
  <2>6. room' \in Nat /\ examined' \in 0..PageLen
    BY <1>11, <2>5, BoundsAssumption DEF TurnPage
  <2>7. PageTyped'
    BY <2>2, <2>3, <2>6 DEF PageTyped
  <2> QED
    BY <1>0, <1>11, <2>1, <2>7, <1>b, <1>g, <1>d, <1>e DEF TurnPage
<1>12. CASE CollectEnds
  <2>1. Len(results) < Len(Steps)
    BY <1>0, <1>12 DEF CollectEnds, InStep, Done
  <2>2. ctx \in Contexts /\ [ctx EXCEPT !.collected = acc] \in Contexts
    BY <1>0 DEF RunTyped, PageTyped, Contexts
  <2>3. RunTyped' /\ Placed' /\ InStep'
    BY <1>0, <1>12, <2>1, <2>2, EndsTyped DEF CollectEnds, Statuses
  <2> QED
    BY <1>0, <1>12, <2>3, <1>b, <1>g, <1>c, <1>d, <1>e DEF CollectEnds, pageVars, siteVars, bookVars
<1>13. CASE AddBegins
  <2>1. Len(results) < Len(Steps) /\ Now.does = "add" /\ ctx \in Contexts /\ ctx.collected \in Seq(Books)
    BY <1>0, <1>13, BeginsTyped DEF AddBegins, RunTyped, Contexts
  <2>2. CASE Ends("skipped", ctx) /\ UNCHANGED <<flow, listed, todo, pass>>
    <3>1. RunTyped' /\ Placed' /\ InStep'
      BY <1>0, <2>1, <2>2, EndsTyped DEF Statuses
    <3> QED
      BY <1>0, <1>13, <2>2, <3>1, <1>b, <1>g, <1>c, <1>d, <1>e DEF AddBegins, bookVars
  <2>3. CASE ctx.collected # << >> /\ at' = "opening" /\ todo' = ctx.collected /\ pass' = 1 /\ UNCHANGED runVars
    <3>1. Suits(at', Now.does) /\ at' \in Places /\ todo' # << >>
      BY <2>1, <2>3 DEF Suits, Places, Counting, Adding, Clearing
    <3>2. RunTyped' /\ Placed' /\ InStep'
      BY <1>0, <2>1, <2>3, <3>1, MovesTyped
    <3>3. BookTyped'
      BY <1>0, <1>13, <2>1, <2>3 DEF AddBegins, BookTyped
    <3> QED
      BY <1>0, <1>13, <3>2, <3>3, <1>b, <1>g, <1>c, <1>d DEF AddBegins
  <2> QED
    BY <1>13, <2>2, <2>3 DEF AddBegins
<1>14. CASE OpenBook
  <2>1. /\ at \in Adding /\ Len(results) < Len(Steps) /\ ctx \in Contexts
        /\ todo' = todo /\ pass' = pass /\ UNCHANGED countVars
    BY <1>0, <1>14, AddingFacts DEF OpenBook, Adding
  <2>2. RunTyped' /\ Placed' /\ InStep'
    <3>1. CASE at' = "shelved" /\ UNCHANGED runVars
      BY <1>0, <2>1, <3>1, RungTyped DEF Adding
    <3>2. CASE Ends("failed", ctx) /\ UNCHANGED <<flow, listed>>
      BY <1>0, <2>1, <3>2, EndsTyped DEF Statuses
    <3> QED
      BY <1>14, <3>1, <3>2 DEF OpenBook
  <2>3. label' \in Labels
    BY <1>0, <1>14 DEF OpenBook, BookTyped
  <2>4. rendered' \in BOOLEAN
    BY <1>0, <1>14, Zenon DEF OpenBook, BookTyped
  <2>5. BookTyped'
    BY <1>0, <2>1, <2>3, <2>4 DEF BookTyped
  <2> QED
    BY <1>0, <1>14, <2>1, <2>2, <2>5, <1>b, <1>g, <1>c, <1>d DEF OpenBook
<1>15. CASE AlreadyShelved
  <2>1. at \in Adding /\ UNCHANGED <<siteVars, countVars, pageVars, label, rendered>>
    BY <1>15 DEF AlreadyShelved, Adding
  <2>2. RunTyped' /\ Placed' /\ InStep' /\ todo' \in Seq(Books) /\ pass' \in 1..2
    BY <1>0, <1>15, <2>1, BookDoneTyped, RungTyped DEF AlreadyShelved, TurnsTo, Adding, BookTyped
  <2>3. BookTyped'
    BY <1>0, <2>1, <2>2 DEF BookTyped
  <2> QED
    BY <1>0, <2>1, <2>2, <2>3, <1>b, <1>g, <1>c, <1>d
<1>16. ASSUME at \in Adding, UNCHANGED <<countVars, pageVars, live, label, rendered>>,
              NEW effects \in {ButtonPressed(Book), EntryPressed(Book, label)},
              NEW v \in effects \cup {shelf[Book]}, shelf' = [shelf EXCEPT ![Book] = v],
              \/ BookDone
              \/ at' \in Adding /\ UNCHANGED <<runVars, todo>> /\ pass' \in 1..2
       PROVE  Typed'
  <2>1. SiteTyped' /\ RunTyped' /\ Placed' /\ InStep' /\ BookTyped'
    BY <1>0, <1>16, RungClicksTyped
  <2> QED
    BY <1>0, <1>16, <2>1, <1>b, <1>g, <1>c
<1>17. CASE ResolverRole
  <2>1. CASE label = "want"
    <3>1. PICK v \in ButtonPressed(Book) \cup {shelf[Book]} :
            /\ shelf' = [shelf EXCEPT ![Book] = v]
            /\ BookDone \/ TurnsTo("dropdown")
      BY <1>17, <2>1 DEF ResolverRole, Clicks
    <3>2. at \in Adding /\ UNCHANGED <<countVars, pageVars, live, label, rendered>>
      BY <1>17, <2>1 DEF ResolverRole, Clicks, Adding
    <3> QED
      BY <1>0, <1>16, <3>1, <3>2 DEF TurnsTo, Adding, BookTyped
  <2>2. CASE label # "want"
    <3>1. /\ at \in Adding /\ TurnsTo("dropdown") /\ UNCHANGED <<siteVars, countVars, pageVars, label, rendered>>
      BY <1>17, <2>2 DEF ResolverRole, Adding
    <3>2. RunTyped' /\ Placed' /\ InStep' /\ BookTyped'
      BY <1>0, <3>1, RungTyped DEF TurnsTo, Adding, BookTyped
    <3> QED
      BY <1>0, <3>1, <3>2, <1>b, <1>g, <1>c, <1>d
  <2> QED
    BY <2>1, <2>2
<1>18. CASE DropdownShelf
  <2>1. PICK v \in EntryPressed(Book, label) \cup {shelf[Book]} :
          /\ shelf' = [shelf EXCEPT ![Book] = v]
          /\ BookDone \/ TurnsTo("css")
    BY <1>18 DEF DropdownShelf, Clicks
  <2>2. at \in Adding /\ UNCHANGED <<countVars, pageVars, live, label, rendered>>
    BY <1>18 DEF DropdownShelf, Clicks, Adding
  <2> QED
    BY <1>0, <1>16, <2>1, <2>2 DEF TurnsTo, Adding, BookTyped
<1>19. CASE ResolverCss
  <2>1. PICK v \in ButtonPressed(Book) \cup {shelf[Book]} :
          /\ shelf' = [shelf EXCEPT ![Book] = v]
          /\ BookDone \/ TurnsTo("driver")
    BY <1>19 DEF ResolverCss, Clicks
  <2>2. at \in Adding /\ UNCHANGED <<countVars, pageVars, live, label, rendered>>
    BY <1>19 DEF ResolverCss, Clicks, Adding
  <2> QED
    BY <1>0, <1>16, <2>1, <2>2 DEF TurnsTo, Adding, BookTyped
<1>20. CASE DriverFallback
  <2>1. PICK v \in ButtonPressed(Book) \cup {shelf[Book]} :
          /\ shelf' = [shelf EXCEPT ![Book] = v]
          /\ BookDone \/ LastRung
    BY <1>20 DEF DriverFallback, Clicks
  <2>2. at \in Adding /\ UNCHANGED <<countVars, pageVars, live, label, rendered>>
    BY <1>20 DEF DriverFallback, Clicks, Adding
  <2>3. BookDone \/ (at' \in Adding /\ UNCHANGED <<runVars, todo>> /\ pass' \in 1..2)
    BY <2>1 DEF LastRung, Adding
  <2> QED
    BY <1>0, <1>16, <2>1, <2>2, <2>3
<1>21. ASSUME RunTyped', Placed', InStep', todo' \in Seq(Books),
              UNCHANGED <<countVars, pageVars, label, pass>>, SiteTyped', rendered' \in BOOLEAN
       PROVE  Typed'
  <2>1. BookTyped'
    BY <1>0, <1>21 DEF BookTyped
  <2> QED
    BY <1>0, <1>21, <2>1, <1>b, <1>g, <1>c
<1>22. rendered \in BOOLEAN /\ todo \in Seq(Books)
  BY <1>0 DEF BookTyped
<1>23. CASE ClearBegins
  <2>1. Len(results) < Len(Steps) /\ Now.does = "clear" /\ ctx \in Contexts
    BY <1>0, <1>23, BeginsTyped DEF ClearBegins, RunTyped
  <2>2. RunTyped' /\ Placed' /\ InStep' /\ todo' \in Seq(Books)
    <3>1. CASE at' = "listing" /\ todo' \in Links("want") /\ UNCHANGED runVars
      <4>1. Suits(at', Now.does) /\ at' \in Places
        BY <2>1, <3>1 DEF Suits, Places, Counting, Adding, Clearing
      <4> QED
        BY <1>0, <2>1, <3>1, <4>1, MovesTyped, LinksTyped
    <3>2. CASE Ends("failed", ctx) /\ UNCHANGED <<flow, listed, todo>>
      BY <1>0, <1>22, <2>1, <3>2, EndsTyped DEF Statuses
    <3> QED
      BY <1>23, <3>1, <3>2 DEF ClearBegins
  <2> QED
    BY <1>21, <1>22, <1>23, <1>d, <2>2 DEF ClearBegins
<1>24. ASSUME at \in Clearing
       PROVE  /\ Len(results) < Len(Steps) /\ ctx \in Contexts
              /\ at # "listing" => todo # << >> /\ Tail(todo) \in Seq(Books) /\ Book \in Books
  <2>1. at # "listing" => todo # << >>
    BY <1>0, <1>24 DEF Placed, Clearing
  <2> QED
    BY <1>0, <1>22, <1>24, <2>1, Members DEF InStep, Done, RunTyped, Clearing, Book
<1>25. CASE ClearLists
  <2>1. at \in Clearing
    BY <1>25 DEF ClearLists, Clearing
  <2>2. RunTyped' /\ Placed' /\ InStep' /\ todo' \in Seq(Books)
    <3>1. ASSUME NEW more \in Links("already"), ClearGoesOn(todo \o more)
          PROVE  RunTyped' /\ Placed' /\ InStep' /\ todo' \in Seq(Books)
      <4>1. more \in Seq(Books)
        BY LinksTyped
      <4>2. todo \o more \in Seq(Books)
        BY <1>22, <4>1
      <4> QED
        BY <1>0, <2>1, <3>1, <4>2, ClearTyped
    <3>2. CASE Ends("failed", ctx) /\ UNCHANGED <<flow, listed, todo>>
      BY <1>0, <1>22, <1>24, <2>1, <3>2, EndsTyped DEF Statuses
    <3> QED
      BY <1>25, <3>1, <3>2 DEF ClearLists
  <2> QED
    BY <1>21, <1>22, <1>25, <1>d, <2>2 DEF ClearLists
<1>26. CASE RemoveLooks
  <2>1. at \in Clearing /\ at # "listing" /\ at # "next" /\ Now.does = "clear"
    BY <1>0, <1>26 DEF RemoveLooks, Clearing, InStep, Suits
  <2>2. RunTyped' /\ Placed' /\ InStep' /\ todo' \in Seq(Books)
    <3>1. CASE at' = "taking off" /\ UNCHANGED <<runVars, todo>>
      <4>1. Suits(at', Now.does) /\ at' \in Places
        BY <2>1, <3>1 DEF Suits, Places, Counting, Adding, Clearing
      <4> QED
        BY <1>0, <1>22, <1>24, <2>1, <3>1, <4>1, MovesTyped
    <3>2. CASE ClearGoesOn(Tail(todo))
      BY <1>0, <1>24, <2>1, <3>2, ClearTyped
    <3>3. CASE Ends("failed", ctx) /\ UNCHANGED <<flow, listed, todo>>
      BY <1>0, <1>22, <1>24, <2>1, <3>3, EndsTyped DEF Statuses
    <3> QED
      BY <1>26, <3>1, <3>2, <3>3 DEF RemoveLooks
  <2> QED
    BY <1>21, <1>26, <1>d, <2>2 DEF RemoveLooks
<1>27. CASE RemoveClicks
  <2>1. at \in Clearing /\ at # "listing"
    BY <1>27 DEF RemoveClicks, Clearing
  <2>2. RunTyped' /\ Placed' /\ InStep' /\ todo' \in Seq(Books)
    BY <1>0, <1>24, <1>27, <2>1, ClearTyped DEF RemoveClicks
  <2>3. SiteTyped'
    <3>1. shelf \in [Books -> Labels \cup {None}] /\ Book \in Books
      BY <1>0, <1>24, <2>1 DEF SiteTyped
    <3>2. PICK v \in {None, shelf[Book]} : shelf' = [shelf EXCEPT ![Book] = v]
      BY <1>27 DEF RemoveClicks
    <3>3. live' \in BOOLEAN
      BY <1>0, <1>27 DEF RemoveClicks, SiteTyped
    <3> QED
      BY <3>1, <3>2, <3>3 DEF SiteTyped
  <2> QED
    BY <1>21, <1>22, <1>27, <2>2, <2>3 DEF RemoveClicks
<1>28. CASE UNCHANGED vars
  <2>1. UNCHANGED <<siteVars, countVars, pageVars, bookVars>> /\ UNCHANGED <<runVars, at, todo>>
    BY <1>28 DEF vars, bookVars
  <2> QED
    BY <1>0, <2>1, <1>b, <1>g, <1>c, <1>d, <1>e, <1>f
<1> QED
  BY <1>1, <1>2, <1>3, <1>4, <1>6, <1>7, <1>8, <1>9, <1>10, <1>11, <1>12, <1>13, <1>14, <1>15, <1>17, <1>18,
     <1>19, <1>20, <1>23, <1>25, <1>26, <1>27, <1>28, <1>30, <1>31,
     <1>32, <1>33, <1>34 DEF Next

\* Every value is of its type, for any books, pages and workflows: what collecting
\* and the shelves' links give are books, and a run never has more results than steps.
THEOREM TypeCorrect == Spec => []TypeOK
<1>1. Typed => TypeOK
  BY DEF Typed
<1> QED
  BY <1>1, TypedInit, TypedStep, PTL DEF Spec

---------------------------------------------------------------------------
(* What is collected. *)

LEMMA CollectedInit == Init => Collected
<1> SUFFICES ASSUME Init PROVE Collected
  OBVIOUS
<1>1. ctx.collected = << >> /\ at = "next"
  BY DEF Init
<1>2. ToSet(<< >>) = {} /\ Len(<< >>) = 0
  BY DEF ToSet
<1> QED
  BY <1>1, <1>2, FS_EmptySet DEF Collected, Collecting, Distinct

\* A sequence of books without repetition stays one when a new book is added.
LEMMA OneMore ==
  ASSUME NEW s \in Seq(Books), Cardinality(ToSet(s)) = Len(s), NEW b \in Books, b \notin ToSet(s)
  PROVE  Cardinality(ToSet(Append(s, b))) = Len(Append(s, b))
<1>1. ToSet(s) \in SUBSET Books /\ ToSet(Append(s, b)) = ToSet(s) \cup {b}
  BY Members
<1>2. Cardinality(ToSet(s) \cup {b}) = Cardinality(ToSet(s)) + 1
  BY <1>1, FiniteBooks, FS_AddElement
<1>3. Len(Append(s, b)) = Len(s) + 1
  OBVIOUS
<1> QED
  BY <1>1, <1>2, <1>3

\* No other action collects, or changes what was.
LEMMA NotCollecting ==
  ASSUME Typed, [Next]_vars, ~CollectBegins, ~ExamineEntry, ~TurnPage, ~CollectEnds
  PROVE  /\ ctx'.collected = ctx.collected
         /\ at' = "collecting" => at = "collecting" /\ UNCHANGED <<acc, room, runVars>>
<1>1. ctx \in Contexts
  BY TypeParts DEF Typed, RunTyped
<1>2. ASSUME NEW status, Ends(status, ctx)
      PROVE  ctx'.collected = ctx.collected /\ at' # "collecting"
  BY <1>2 DEF Ends
<1>3. CASE PageLands \/ CountRows \/ NextPage \/ LastPage \/ CountFails
  BY <1>2, <1>3 DEF PageLands, CountRows, NextPage, LastPage, CountFails, Reading, runVars
<1>4. ASSUME BookDone PROVE ctx'.collected = ctx.collected /\ at' # "collecting"
  BY <1>2, <1>4 DEF BookDone, runVars
<1>5. ASSUME NEW left, ClearGoesOn(left) PROVE ctx'.collected = ctx.collected /\ at' # "collecting"
  BY <1>2, <1>5 DEF ClearGoesOn, runVars
<1>6. CASE SessionExpires \/ UNCHANGED vars
  BY <1>6 DEF SessionExpires, vars, runVars, pageVars
<1>7. CASE SkipStep \/ EnsureLogin \/ CountBegins
  BY <1>2, <1>7 DEF SkipStep, EnsureLogin, CountBegins, runVars
<1>8. CASE StoreCount
  <2>1. [ctx EXCEPT !.before = counted].collected = ctx.collected
    BY <1>1 DEF Contexts
  <2> QED
    BY <1>8, <2>1 DEF StoreCount, CountEnds, Ends
<1>9. CASE EnsureCount
  <2>1. \A n : [ctx EXCEPT !.gap = n].collected = ctx.collected
    BY <1>1 DEF Contexts
  <2> QED
    BY <1>9, <2>1 DEF EnsureCount, CountEnds, Ends
<1>10. CASE AssertCount
  BY <1>10 DEF AssertCount, CountEnds, Ends
<1>11. CASE AddBegins \/ OpenBook
  BY <1>2, <1>11 DEF AddBegins, OpenBook, runVars
<1>12. CASE AlreadyShelved \/ ResolverRole \/ DropdownShelf \/ ResolverCss \/ DriverFallback
  BY <1>4, <1>12 DEF AlreadyShelved, ResolverRole, DropdownShelf, ResolverCss, DriverFallback, Clicks,
                     TurnsTo, LastRung, runVars
<1>13. CASE ClearBegins \/ ClearLists \/ RemoveLooks \/ RemoveClicks
  BY <1>2, <1>5, <1>13 DEF ClearBegins, ClearLists, RemoveLooks, RemoveClicks, runVars
<1> QED
  BY <1>3, <1>6, <1>7, <1>8, <1>9, <1>10, <1>11, <1>12, <1>13 DEF Next

LEMMA CollectedStep == Typed /\ Collected /\ [Next]_vars => Collected'
<1> SUFFICES ASSUME Typed, Collected, [Next]_vars PROVE Collected'
  OBVIOUS
<1>0. acc \in Seq(Books) /\ Len(acc) \in Nat /\ room \in Nat
  BY TypeParts DEF Typed, PageTyped
<1>1. CASE CollectBegins
  <2>1. Len(results) < Len(Steps)
    BY <1>1, BeginsTyped DEF CollectBegins, Typed
  <2>2. Limit \in Nat /\ Limit' = Limit
    BY <1>1, <2>1, Numbers DEF CollectBegins, Typed, runVars, Limit, Now, Steps
  <2>3. acc' = << >> /\ room' = Limit /\ ToSet(<< >>) = {} /\ Len(<< >>) = 0
    BY <1>1 DEF CollectBegins, ToSet
  <2>4. Cardinality(ToSet(acc')) = Len(acc') /\ ToSet(acc') \subseteq Old /\ Len(acc') + room' <= Limit'
    BY <2>2, <2>3, FS_EmptySet
  <2>5. ctx' = ctx
    BY <1>1 DEF CollectBegins, runVars
  <2> QED
    BY <2>4, <2>5 DEF Collected, Collecting, Distinct
<1>2. CASE ExamineEntry
  <2>1. at = "collecting" /\ UNCHANGED <<flow, results, ctx>> /\ room > 0
    BY <1>2 DEF ExamineEntry, runVars
  <2>2. Limit' = Limit /\ Limit \in Nat
    BY <2>1, Numbers DEF Limit, Now, Steps, Typed, InStep, Done
  <2>3. Cardinality(ToSet(acc)) = Len(acc) /\ ToSet(acc) \subseteq Old /\ Len(acc) + room <= Limit
    BY <2>1 DEF Collected, Collecting
  <2>4. ASSUME NEW b \in Old, acc' = Taken(b), room' = room - 1
        PROVE  Cardinality(ToSet(acc')) = Len(acc') /\ ToSet(acc') \subseteq Old /\ Len(acc') + room' <= Limit
    <3>1. CASE b \in ToSet(acc)
      BY <1>0, <2>2, <2>3, <2>4, <3>1 DEF Taken
    <3>2. CASE b \notin ToSet(acc)
      <4>1. acc' = Append(acc, b) /\ b \in Books
        BY <2>4, <3>2, BooksAssumption DEF Taken
      <4>2. Cardinality(ToSet(acc')) = Len(acc') /\ ToSet(acc') = ToSet(acc) \cup {b}
        BY <1>0, <2>3, <3>2, <4>1, OneMore, Members
      <4>3. Len(acc') = Len(acc) + 1
        BY <1>0, <4>1
      <4> QED
        BY <1>0, <2>1, <2>2, <2>3, <2>4, <4>2, <4>3
    <3> QED
      BY <3>1, <3>2
  <2>5. Cardinality(ToSet(acc')) = Len(acc') /\ ToSet(acc') \subseteq Old /\ Len(acc') + room' <= Limit
    BY <1>2, <2>3, <2>4 DEF ExamineEntry
  <2> QED
    BY <2>1, <2>2, <2>5 DEF Collected, Collecting, Distinct
<1>3. CASE TurnPage
  <2>1. at = "collecting" /\ UNCHANGED <<flow, results, ctx, acc>> /\ room' = Limit - Len(acc)
    BY <1>3 DEF TurnPage, runVars
  <2>2. Limit' = Limit /\ Limit \in Nat
    BY <2>1, Numbers DEF Limit, Now, Steps, Typed, InStep, Done
  <2> QED
    BY <1>0, <2>1, <2>2 DEF Collected, Collecting, Distinct
<1>4. CASE CollectEnds
  <2>1. at = "collecting" /\ at' = "next" /\ ctx \in Contexts
    BY <1>4, TypeParts DEF CollectEnds, Ends, Typed, RunTyped
  <2>2. ctx'.collected \in {acc, ctx.collected}
    BY <1>4, <2>1 DEF CollectEnds, Ends, Contexts
  <2> QED
    BY <2>1, <2>2 DEF Collected, Collecting, Distinct
<1>5. CASE ~CollectBegins /\ ~ExamineEntry /\ ~TurnPage /\ ~CollectEnds
  <2>1. ctx'.collected = ctx.collected
    BY <1>5, NotCollecting
  <2>2. ASSUME at' = "collecting" PROVE at = "collecting" /\ UNCHANGED <<acc, room>> /\ Limit' = Limit
    BY <1>5, <2>2, NotCollecting DEF runVars, Limit, Now, Steps
  <2> QED
    BY <2>1, <2>2 DEF Collected, Collecting, Distinct
<1> QED
  BY <1>1, <1>2, <1>3, <1>4, <1>5

---------------------------------------------------------------------------
(* Topping up. *)

\* Where a run of the top-up is tells what it does there.
LEMMA TopUpSteps ==
  ASSUME Typed, flow = TopUp
  PROVE  /\ Done \in 0..5 /\ Len(Steps) = 5
         /\ Done < 5 => /\ Now.does = "login" => Done = 0
                        /\ Now.does = "ensure" => Done = 1
                        /\ Now.does = "collect" => Done = 2
                        /\ Now.does = "add" => Done = 3
                        /\ Now.does = "assert" => Done = 4
                        /\ Now.does \notin {"store", "clear"}
         /\ Done <= 1 => Now.when = "always"
         /\ Done = 1 => Now.n = Target
         /\ Done = 2 => Now.when = "gap" /\ Limit = ctx.gap
         /\ Done = 3 => Now.when = "collected"
         /\ Done = 4 => Now.when = "gap" /\ Expected = Target
         /\ at \in Counting => \/ Done = 1 /\ Now.does = "ensure"
                               \/ Done = 4 /\ Now.does = "assert"
         /\ at = "collecting" => Done = 2
         /\ at \in Adding => Done = 3
         /\ at \notin Clearing
<1>1. Steps = << [does |-> "login",   when |-> "always",    of |-> "number", n |-> 0],
                 [does |-> "ensure",  when |-> "always",    of |-> "number", n |-> Target],
                 [does |-> "collect", when |-> "gap",       of |-> "gap",    n |-> 0],
                 [does |-> "add",     when |-> "collected", of |-> "number", n |-> 0],
                 [does |-> "assert",  when |-> "gap",       of |-> "number", n |-> Target] >>
  BY TopUpAssumption DEF Steps
<1>2. Len(Steps) = 5
  BY <1>1
<1>3. results \in Seq(Statuses) /\ Len(results) <= Len(Steps)
  BY TypeParts DEF Typed, RunTyped, Placed
<1>4. Done \in 0..5
  <2>1. Done \in Nat /\ Done <= Len(Steps)
    BY <1>3 DEF Done
  <2> QED
    BY <1>2, <2>1
<1>5. /\ Done = 0 => Now = [does |-> "login", when |-> "always", of |-> "number", n |-> 0]
      /\ Done = 1 => Now = [does |-> "ensure", when |-> "always", of |-> "number", n |-> Target]
      /\ Done = 2 => Now = [does |-> "collect", when |-> "gap", of |-> "gap", n |-> 0]
      /\ Done = 3 => Now = [does |-> "add", when |-> "collected", of |-> "number", n |-> 0]
      /\ Done = 4 => Now = [does |-> "assert", when |-> "gap", of |-> "number", n |-> Target]
  <2>1. Now = Steps[Done + 1]
    BY DEF Now, Done
  <2>2. /\ Steps[1] = [does |-> "login", when |-> "always", of |-> "number", n |-> 0]
        /\ Steps[2] = [does |-> "ensure", when |-> "always", of |-> "number", n |-> Target]
        /\ Steps[3] = [does |-> "collect", when |-> "gap", of |-> "gap", n |-> 0]
        /\ Steps[4] = [does |-> "add", when |-> "collected", of |-> "number", n |-> 0]
        /\ Steps[5] = [does |-> "assert", when |-> "gap", of |-> "number", n |-> Target]
    BY <1>1
  <2>3. 0 + 1 = 1 /\ 1 + 1 = 2 /\ 2 + 1 = 3 /\ 3 + 1 = 4 /\ 4 + 1 = 5
    OBVIOUS
  <2> QED
    BY <2>1, <2>2, <2>3, Zenon
<1>6. /\ Done < 5 => /\ Now.does = "login" => Done = 0
                     /\ Now.does = "ensure" => Done = 1
                     /\ Now.does = "collect" => Done = 2
                     /\ Now.does = "add" => Done = 3
                     /\ Now.does = "assert" => Done = 4
                     /\ Now.does \notin {"store", "clear"}
  BY <1>4, <1>5
<1>7. /\ Done <= 1 => Now.when = "always"
      /\ Done = 1 => Now.n = Target
      /\ Done = 2 => Now.when = "gap" /\ Limit = ctx.gap
      /\ Done = 3 => Now.when = "collected"
      /\ Done = 4 => Now.when = "gap" /\ Expected = Target
  BY <1>4, <1>5 DEF Limit, Expected
<1>8. /\ at # "next" => Done < 5 /\ Suits(at, Now.does)
      /\ at \in Places
  BY <1>2, TypeParts DEF Typed, InStep, Placed
<1>9. at \in Counting => \/ Done = 1 /\ Now.does = "ensure"
                         \/ Done = 4 /\ Now.does = "assert"
  BY <1>6, <1>8 DEF Suits, Counting
<1>10. at = "collecting" => Done = 2
  BY <1>6, <1>8 DEF Suits
<1>11. at \in Adding => Done = 3
  BY <1>6, <1>8 DEF Suits, Adding
<1>12. at \notin Clearing
  BY <1>6, <1>8 DEF Suits, Clearing
<1> QED
  BY <1>2, <1>4, <1>6, <1>7, <1>9, <1>10, <1>11, <1>12

\* The numbers of the list.
LEMMA ListNumbers ==
  ASSUME Typed
  PROVE  /\ OnList \in SUBSET Books /\ Cardinality(OnList) \in Nat /\ IsFiniteSet(OnList)
         /\ Cardinality(On("want")) \in Nat /\ Cardinality(On("already")) \in Nat
         /\ Cardinality(OnList) = Cardinality(On("want")) + Cardinality(On("already"))
         /\ Bound \in Nat /\ listed <= Bound /\ Target <= Bound /\ (listed >= Target => Bound = listed)
         /\ (listed < Target => Bound = Target)
         /\ listed \in Nat /\ Target \in Nat /\ ctx.gap \in Nat /\ counted \in Nat
         /\ ctx.collected \in Seq(Books) /\ Len(ctx.collected) \in Nat /\ live \in BOOLEAN
<1>1. SiteTyped /\ RunTyped /\ counted \in Nat
  BY TypeParts DEF Typed, CountTyped
<1>2. OnList \in SUBSET Books /\ On("want") \in SUBSET Books /\ On("already") \in SUBSET Books
  BY DEF OnList, On
<1>7. Cardinality(OnList) = Cardinality(On("want")) + Cardinality(On("already"))
  BY <1>1, TwoShelves DEF SiteTyped
<1>3. listed \in Nat /\ Target \in Nat
  BY <1>1, BoundsAssumption DEF RunTyped
<1>4. /\ Bound \in Nat /\ listed <= Bound /\ Target <= Bound /\ (listed >= Target => Bound = listed)
      /\ (listed < Target => Bound = Target)
  BY <1>3 DEF Bound
<1>5. ctx.gap \in Nat /\ ctx.collected \in Seq(Books)
  BY <1>1 DEF RunTyped, Contexts
<1>6. live \in BOOLEAN
  BY <1>1 DEF SiteTyped
<1> QED
  BY <1>1, <1>2, <1>3, <1>4, <1>5, <1>6, <1>7, FiniteBooks

\* A result more, and what it says of the run.
LEMMA OneResultMore ==
  ASSUME Typed, NEW status \in Statuses, NEW c, Ends(status, c)
  PROVE  /\ Done' = Done + 1 /\ at' = "next" /\ ctx' = c
         /\ Failed' <=> Failed \/ status = "failed"
<1>1. results \in Seq(Statuses) /\ results' = Append(results, status)
  BY TypeParts DEF Typed, RunTyped, Ends
<1>2. Len(results') = Len(results) + 1
  BY <1>1
<1>3. DOMAIN results' = DOMAIN results \cup {Len(results) + 1}
  BY <1>1
<1>4. results'[Len(results) + 1] = status /\ \A i \in DOMAIN results : results'[i] = results[i]
  BY <1>1
<1>5. ToSet(results') = ToSet(results) \cup {status}
  BY <1>3, <1>4 DEF ToSet
<1> QED
  BY <1>2, <1>5 DEF Ends, Done, Failed

LEMMA ToppingInit == Init => TopUpInv
<1> SUFFICES ASSUME Init, flow = TopUp PROVE Topping
  BY DEF TopUpInv
<1>1. Typed
  BY TypedInit
<1>2. /\ ctx = [collected |-> << >>, gap |-> 0, before |-> 0] /\ listed = Cardinality(OnList) /\ at = "next"
      /\ Done = 0
  BY DEF Init, Done
<1>3. Cardinality(OnList) \in Nat /\ Target \in Nat /\ listed <= Bound /\ Len(<< >>) = 0
  BY <1>1, ListNumbers
<1>4. Order /\ CountTells /\ Truth
  BY <1>2 DEF Order, CountTells, Truth, Adding, Counting
<1>5. Fits
  BY <1>2, <1>3 DEF Fits, Adding
<1> QED
  BY <1>4, <1>5 DEF Topping

\* Shelves that stay as they are hold the books they held.
LEMMA SameShelves ==
  ASSUME shelf' = shelf, listed' = listed
  PROVE  OnList' = OnList /\ On("want")' = On("want") /\ Bound' = Bound
BY DEF OnList, On, Bound

\* A step that is skipped, or fails before it did anything to the list.
LEMMA ToppingSkips ==
  ASSUME Typed, flow = TopUp, Topping, SkipStep
  PROVE  Topping'
<1>1. /\ Done' = Done + 1 /\ at' = "next" /\ ctx' = ctx /\ (Failed' <=> Failed)
  BY OneResultMore DEF SkipStep, Statuses
<1>2. OnList' = OnList /\ Bound' = Bound /\ listed' = listed /\ live' = live /\ misread' = misread
  BY SameShelves DEF SkipStep, siteVars, countVars
<1>3. Done < 5 /\ at = "next" /\ ~Holds(Now.when)
  <2>1. Done \in 0..5 /\ Len(Steps) = 5
    BY TopUpSteps
  <2>2. Done # Len(Steps) /\ at = "next" /\ ~Holds(Now.when)
    BY DEF SkipStep, Going, Ended, Done
  <2> QED
    BY <2>1, <2>2
<1>a. Holds("always") /\ (Holds("gap") <=> ctx.gap > 0) /\ (Holds("collected") <=> ctx.collected # << >>)
  BY DEF Holds
<1>4. Done \in 2..4
  <2>1. Done \in 0..5 /\ (Done <= 1 => Now.when = "always")
    BY TopUpSteps
  <2>2. ~(Done <= 1)
    BY <1>3, <1>a, <2>1
  <2> QED
    BY <1>3, <2>1, <2>2
<1>5. /\ Done = 2 => ctx.gap = 0 
      /\ Done = 3 => ctx.collected = << >>
      /\ Done = 4 => ctx.gap = 0
  <2>1. /\ Done = 2 => Now.when = "gap"
        /\ Done = 3 => Now.when = "collected"
        /\ Done = 4 => Now.when = "gap"
    BY TopUpSteps
  <2>2. ctx.gap \in Nat
    BY ListNumbers
  <2> QED
    BY <1>3, <1>a, <2>1, <2>2
<1>6. Order'
  BY <1>1, <1>2, <1>4, <1>5 DEF Topping, Order, Adding, Counting
<1>7. Fits'
  BY <1>1, <1>2 DEF Topping, Fits, Adding
<1>8. Truth'
  <2>1. ~Failed' => ((Done' >= 2 /\ listed' < Target /\ <<"ensure", "again">> \notin misread') => ctx'.gap > 0)
    BY <1>1, <1>2, <1>4 DEF Topping, Truth
  <2>2. (~Failed' /\ Done' = 5) => Exact'
    <3> SUFFICES ASSUME ~Failed', Done' = 5 PROVE Exact'
      OBVIOUS
    <3>1. Done = 4 /\ ctx.gap = 0 /\ Cardinality(OnList) = listed
      BY <1>1, <1>4, <1>5 DEF Topping, Order
    <3>2. listed < Target => <<"ensure", "again">> \in misread
      BY <1>1, <1>2, <2>1, <3>1
    <3>3. listed \in Nat /\ Target \in Nat
      BY ListNumbers
    <3> QED
      BY <1>1, <1>2, <3>1, <3>2, <3>3 DEF Exact
  <2> QED
    BY <2>1, <2>2 DEF Truth
<1>9. CountTells'
  BY <1>1 DEF CountTells, Counting
<1> QED
  BY <1>6, <1>7, <1>8, <1>9 DEF Topping

\* The login is the only step after which a session may be there that was not.
LEMMA ToppingLogsIn ==
  ASSUME Typed, flow = TopUp, Topping, EnsureLogin
  PROVE  Topping'
<1>1. PICK status \in Statuses : Ends(status, ctx)
  BY DEF EnsureLogin, Statuses
<1>2. /\ Done' = Done + 1 /\ at' = "next" /\ ctx' = ctx
  BY <1>1, OneResultMore
<1>3. OnList' = OnList /\ Bound' = Bound /\ listed' = listed /\ misread' = misread
  BY SameShelves DEF EnsureLogin, countVars
<1>4. Done = 0
  <2>1. Len(results) < Len(Steps) /\ Now.does = "login"
    BY BeginsTyped DEF EnsureLogin, Typed
  <2> QED
    BY <2>1, TopUpSteps DEF Done
<1>5. Order'
  BY <1>2, <1>3, <1>4 DEF Topping, Order, Adding, Counting
<1>6. ctx.gap = 0 /\ ctx.collected = << >> /\ Len(<< >>) = 0
  BY <1>4 DEF Topping, Order
<1>7. Fits'
  BY <1>2, <1>3, <1>6, ListNumbers DEF Topping, Fits, Adding
<1>8. Truth'
  BY <1>2, <1>3, <1>4 DEF Truth
<1>9. CountTells'
  BY <1>2 DEF CountTells, Counting
<1> QED
  BY <1>5, <1>7, <1>8, <1>9 DEF Topping

\* A step that fails without having touched the list.
LEMMA ToppingFails ==
  ASSUME Typed, flow = TopUp, Topping, Ends("failed", ctx), UNCHANGED <<shelf, live, listed, misread>>, Done \in 1..4
  PROVE  Topping'
<1>1. /\ Done' = Done + 1 /\ at' = "next" /\ ctx' = ctx /\ Failed'
  BY OneResultMore DEF Statuses
<1>2. OnList' = OnList /\ Bound' = Bound /\ listed' = listed /\ live' = live
  BY SameShelves
<1>3. (Done \in {1, 2} => Cardinality(OnList) = listed) /\ (Done = 1 => ctx.collected = << >>)
  BY DEF Topping, Order
<1>4. Order'
  BY <1>1, <1>2, <1>3 DEF Topping, Order, Adding, Counting
<1>5. Fits'
  BY <1>1, <1>2 DEF Topping, Fits, Adding
<1>6. Truth' /\ CountTells'
  BY <1>1 DEF Truth, CountTells, Counting
<1> QED
  BY <1>4, <1>5, <1>6 DEF Topping

\* While a count goes on nothing changes but what it has read.
LEMMA ToppingCountsOn ==
  ASSUME Typed, flow = TopUp, Topping, at' \in Counting, UNCHANGED <<siteVars, runVars>>,
         misread \subseteq misread', Done = 4 => ctx.gap > 0, Done \in {1, 4}, CountTells'
  PROVE  Topping'
<1>1. /\ OnList' = OnList /\ Bound' = Bound /\ listed' = listed /\ live' = live
      /\ Done' = Done /\ ctx' = ctx /\ (Failed' <=> Failed)
  BY SameShelves DEF siteVars, runVars, Done, Failed
<1>2. at' \notin Adding /\ at' # "next" /\ at' # "collecting"
  BY DEF Counting, Adding
<1>3. Order'
  BY <1>1, <1>2 DEF Topping, Order
<1>4. Truth'
  BY <1>1 DEF Topping, Truth
<1>5. Fits'
  BY <1>1, <1>2 DEF Topping, Fits
<1> QED
  BY <1>3, <1>4, <1>5 DEF Topping

\* A list that was long enough is checked only when the deciding count was short,
\* or else when the session has gone since.
LEMMA CheckedInVain ==
  ASSUME Typed, Topping, ctx.gap > 0, listed >= Target, <<"ensure", "short">> \notin misread
  PROVE  ~live
BY ListNumbers DEF Topping, Fits

\* What a count that goes wrong leaves in the history.
LEMMA MisreadsKept ==
  ASSUME Now.does \in {"ensure", "assert"}, NEW short, NEW again, Misreads(short, again)
  PROVE  /\ misread \subseteq misread'
         /\ short => <<Now.does, "short">> \in misread'
         /\ again => <<Now.does, "again">> \in misread'
BY DEF Misreads

\* A shelf is gone to: what it shows is due.
LEMMA ToppingGoesTo ==
  ASSUME Typed, flow = TopUp, Topping, UNCHANGED <<siteVars, runVars>>, misread \subseteq misread',
         Done = 4 => ctx.gap > 0,
         \/ Done = 1 /\ Now.does = "ensure"
         \/ Done = 4 /\ Now.does = "assert",
         at' = "counting", NEW s \in Labels, GoesTo(s), counted' \in Nat,
         s = "want" => counted' = 0,
         s = "already" =>
           /\ <<Now.does, "again">> \notin misread' => counted' <= Cardinality(On("want"))
           /\ (live /\ <<Now.does, "short">> \notin misread') => Cardinality(On("want")) <= counted'
           /\ (Done = 4 /\ listed >= Target /\ <<"ensure", "short">> \notin misread') => counted' = 0
  PROVE  Topping'
<1>1. /\ OnList' = OnList /\ On("want")' = On("want") /\ listed' = listed /\ live' = live /\ Done' = Done
      /\ Now' = Now
  BY SameShelves DEF siteVars, runVars, Done, Now, Steps
<1>2. side' = s /\ ahead' = Cardinality(Shown(s)) /\ due' = ahead'
  BY DEF GoesTo
<1>3. /\ Cardinality(Shown(s)) \in Nat /\ Cardinality(Shown(s)) <= Cardinality(On(s))
      /\ live => Cardinality(Shown(s)) = Cardinality(On(s))
      /\ ~live => Cardinality(Shown(s)) = 0
  BY ShownOnShelf, TypeParts DEF Typed, SiteTyped
<1>4. Reached' = IF s = "want" THEN Cardinality(On("want")) ELSE Cardinality(OnList)
  BY <1>1, <1>2 DEF Reached
<1>5. /\ <<Now.does, "again">> \notin misread' => counted' + due' <= Reached'
      /\ (live /\ <<Now.does, "short">> \notin misread') => Reached' <= counted' + due'
  <2>1. CASE s = "want"
    BY <1>2, <1>3, <1>4, <2>1, ListNumbers
  <2>2. CASE s = "already"
    BY <1>2, <1>3, <1>4, <2>2, ListNumbers
  <2> QED
    BY <2>1, <2>2 DEF Labels
<1>6. (Done = 4 /\ listed >= Target /\ <<"ensure", "short">> \notin misread') => counted' = 0 /\ ahead' = 0
  BY <1>2, <1>3, CheckedInVain DEF Labels
<1>7. CountTells'
  BY <1>1, <1>5, <1>6 DEF CountTells
<1> QED
  BY <1>7, ToppingCountsOn DEF Counting

\* A count begins at the first shelf.
LEMMA ToppingCounts ==
  ASSUME Typed, flow = TopUp, Topping, CountBegins
  PROVE  Topping'
<1>1. /\ at = "next" /\ Holds(Now.when)
      /\ \/ Done = 1 /\ Now.does = "ensure"
         \/ Done = 4 /\ Now.does = "assert"
  <2>1. Done < Len(Steps) /\ Now.does \in {"store", "ensure", "assert"} /\ at = "next" /\ Holds(Now.when)
    BY BeginsTyped DEF CountBegins, Begins, Typed, Done
  <2> QED
    BY <2>1, TopUpSteps
<1>2. CASE at' = "counting" /\ counted' = 0 /\ GoesTo("want") /\ UNCHANGED <<runVars, misread>>
  <2>1. Done = 4 => ctx.gap > 0
    BY <1>1, TopUpSteps DEF Holds
  <2> QED
    BY <1>1, <1>2, <2>1, ToppingGoesTo DEF CountBegins, Labels
<1>3. CASE Ends("failed", ctx) /\ UNCHANGED <<flow, listed, countVars>>
  BY <1>1, <1>3, ToppingFails DEF CountBegins, siteVars, countVars
<1> QED
  BY <1>2, <1>3 DEF CountBegins

\* Whatever is read, clicked or come to in a count.
LEMMA ToppingReads ==
  ASSUME Typed, flow = TopUp, Topping, PageLands \/ CountRows \/ NextPage \/ LastPage \/ CountFails
  PROVE  Topping'
<1>1. /\ at \in Counting /\ at # "next"
      /\ \/ Done = 1 /\ Now.does = "ensure"
         \/ Done = 4 /\ Now.does = "assert"
  <2>1. at \in Counting /\ at # "next"
    BY DEF PageLands, CountRows, NextPage, LastPage, CountFails, Reading, Counting
  <2> QED
    BY <2>1, TopUpSteps
<1>2. Done = 4 => ctx.gap > 0
  BY <1>1 DEF Topping, Order
<1>3. /\ counted \in Nat /\ ahead \in Nat /\ due \in Nat /\ Rows \in Nat /\ Rows <= ahead
      /\ ShelfPage \in Nat /\ Reached \in Nat /\ side \in Labels
  <2>1. CountTyped
    BY TypeParts DEF Typed
  <2> QED
    BY <2>1, RowsAhead, ListNumbers, BoundsAssumption DEF CountTyped, Reached
<1>4. /\ <<Now.does, "again">> \notin misread => counted + due <= Reached
      /\ (live /\ <<Now.does, "short">> \notin misread) => Reached <= counted + due
      /\ (Done = 4 /\ listed >= Target /\ <<"ensure", "short">> \notin misread) => counted = 0 /\ ahead = 0
  BY <1>1 DEF Topping, CountTells
<1>5. (Done = 4 /\ listed >= Target /\ <<"ensure", "short">> \notin misread) => ~live
  BY <1>2, CheckedInVain
<1>6. ASSUME UNCHANGED <<siteVars, runVars, side>>
      PROVE  Reached' = Reached /\ Now' = Now /\ Done' = Done /\ listed' = listed /\ live' = live
  BY <1>6, SameShelves DEF Reached, Now, Steps, Done, siteVars, runVars
<1>7. CASE PageLands
  <2>1. Reached' = Reached /\ Now' = Now /\ Done' = Done /\ listed' = listed /\ live' = live
    BY <1>6, <1>7 DEF PageLands
  <2>2. /\ counted' = counted /\ misread' = misread /\ at' = at /\ at # "counted"
        /\ live => due' = due
        /\ ~live => due' = 0 /\ ahead' = 0
    BY <1>7 DEF PageLands, Reading
  <2>3. /\ <<Now.does, "again">> \notin misread => counted + due' <= Reached
        /\ (live /\ <<Now.does, "short">> \notin misread) => Reached <= counted + due'
    <3>1. CASE live
      BY <1>4, <2>2, <3>1
    <3>2. CASE ~live
      <4>1. counted + due' = counted /\ counted <= counted + due
        BY <1>3, <2>2, <3>2
      <4> QED
        BY <1>3, <1>4, <3>2, <4>1
    <3> QED
      BY <3>1, <3>2
  <2>4. (Done = 4 /\ listed >= Target /\ <<"ensure", "short">> \notin misread) => counted = 0 /\ ahead' = 0
    BY <1>4, <1>5, <2>2
  <2>5. CountTells'
    BY <2>1, <2>2, <2>3, <2>4 DEF CountTells
  <2> QED
    BY <1>1, <1>2, <1>7, <2>2, <2>5, ToppingCountsOn DEF PageLands
<1>8. CASE CountRows
  <2>1. PICK read \in 0..Rows : counted' = counted + read /\ Misreads(read < Rows \/ ahead < due, ahead > due)
    BY <1>8 DEF CountRows
  <2>2. /\ misread \subseteq misread'
        /\ (read < Rows \/ ahead < due) => <<Now.does, "short">> \in misread'
        /\ ahead > due => <<Now.does, "again">> \in misread'
    BY <1>1, <2>1, MisreadsKept
  <2>3. Reached' = Reached /\ Now' = Now /\ Done' = Done /\ listed' = listed /\ live' = live
    BY <1>6, <1>8 DEF CountRows
  <2>4. read \in Nat /\ read <= Rows /\ due' = (IF ahead <= due THEN due - Rows ELSE due)
        /\ ahead' = ahead /\ at' = "paging"
    BY <1>3, <1>8, <2>1 DEF CountRows
  <2>5. <<Now.does, "again">> \notin misread' => counted' + due' <= Reached'
    BY <1>3, <1>4, <2>1, <2>2, <2>3, <2>4
  <2>6. (live /\ <<Now.does, "short">> \notin misread') => Reached' <= counted' + due'
    BY <1>3, <1>4, <2>1, <2>2, <2>3, <2>4
  <2>7. (Done = 4 /\ listed >= Target /\ <<"ensure", "short">> \notin misread') => counted' = 0 /\ ahead' = 0
    BY <1>3, <1>4, <2>1, <2>2, <2>4
  <2>8. CountTells'
    BY <2>3, <2>4, <2>5, <2>6, <2>7 DEF CountTells
  <2> QED
    BY <1>1, <1>2, <1>8, <2>2, <2>4, <2>8, ToppingCountsOn DEF CountRows, Counting
<1>9. CASE NextPage
  <2>1. Reached' = Reached /\ Now' = Now /\ Done' = Done /\ listed' = listed /\ live' = live
    BY <1>6, <1>9 DEF NextPage
  <2>2. UNCHANGED <<counted, due, ahead, misread>> /\ at' = "counting"
    BY <1>9 DEF NextPage
  <2>3. CountTells'
    BY <1>4, <2>1, <2>2 DEF CountTells
  <2> QED
    BY <1>1, <1>2, <1>9, <2>2, <2>3, ToppingCountsOn DEF NextPage, Counting
<1>10. CASE LastPage
  <2>1. /\ misread \subseteq misread' /\ counted' = counted
        /\ due > 0 => <<Now.does, "short">> \in misread'
    BY <1>1, <1>10, MisreadsKept DEF LastPage
  <2>2. /\ <<Now.does, "again">> \notin misread' => counted + due <= Reached
        /\ (live /\ <<Now.does, "short">> \notin misread') => Reached <= counted + due /\ ~(due > 0)
        /\ (Done = 4 /\ listed >= Target /\ <<"ensure", "short">> \notin misread') => counted = 0 /\ ahead = 0
    BY <1>4, <2>1
  <2>3. /\ <<Now.does, "again">> \notin misread' => counted <= Reached
        /\ (live /\ <<Now.does, "short">> \notin misread') => Reached <= counted
    BY <1>3, <2>2
  <2>4. CASE side = "want" /\ at' = "counting" /\ GoesTo("already")
    <3>1. Reached = Cardinality(On("want"))
      BY <2>4 DEF Reached
    <3>2. UNCHANGED <<siteVars, runVars>> /\ "already" \in Labels /\ counted' \in Nat /\ "already" # "want"
      BY <1>3, <1>10, <2>1 DEF LastPage, Labels
    <3>3. /\ <<Now.does, "again">> \notin misread' => counted' <= Cardinality(On("want"))
          /\ (live /\ <<Now.does, "short">> \notin misread') => Cardinality(On("want")) <= counted'
          /\ (Done = 4 /\ listed >= Target /\ <<"ensure", "short">> \notin misread') => counted' = 0
      BY <2>1, <2>2, <2>3, <3>1
    <3> QED
      BY <1>1, <1>2, <2>1, <2>4, <3>2, <3>3, ToppingGoesTo
  <2>5. CASE side = "already" /\ at' = "counted" /\ due' = 0 /\ UNCHANGED <<side, ahead, pending, turns>>
    <3>1. Reached' = Reached /\ Now' = Now /\ Done' = Done /\ listed' = listed /\ live' = live
      BY <1>6, <1>10, <2>5 DEF LastPage
    <3>2. counted' + due' = counted /\ ahead' = ahead /\ side' = "already"
      BY <1>3, <2>1, <2>5
    <3>3. CountTells'
      BY <2>1, <2>2, <2>5, <2>3, <3>1, <3>2 DEF CountTells
    <3>4. UNCHANGED <<siteVars, runVars>> /\ at' \in Counting
      BY <1>10, <2>5 DEF LastPage, Counting
    <3> QED
      BY <1>1, <1>2, <2>1, <3>3, <3>4, ToppingCountsOn
  <2> QED
    BY <1>10, <2>4, <2>5 DEF LastPage
<1>11. CASE CountFails
  BY <1>1, <1>11, ToppingFails DEF CountFails, CountLeft, siteVars
<1> QED
  BY <1>7, <1>8, <1>9, <1>10, <1>11

\* What a count that is done is worth.
LEMMA CountedTells ==
  ASSUME Typed, Topping, at = "counted"
  PROVE  /\ <<Now.does, "again">> \notin misread => counted <= Cardinality(OnList)
         /\ (live /\ <<Now.does, "short">> \notin misread) => Cardinality(OnList) <= counted
         /\ (Done = 4 /\ listed >= Target /\ <<"ensure", "short">> \notin misread) => counted = 0
<1>1. Reached = Cardinality(OnList) /\ due = 0 /\ counted \in Nat
  BY ListNumbers DEF Topping, CountTells, Counting, Reached
<1> QED
  BY <1>1 DEF Topping, CountTells, Counting

\* The gap is what the list is short of, or less, if the session lasted and nothing
\* was missed; it is there when the list was short, unless rows were read again.
LEMMA ToppingFindsGap ==
  ASSUME Typed, flow = TopUp, Topping, EnsureCount
  PROVE  Topping'
<1>1. /\ at = "counted" /\ Done = 1 /\ Now.n = Target /\ Now.does = "ensure"
      /\ UNCHANGED <<shelf, live, listed, misread>>
  <2>1. at = "counted" /\ Now.does = "ensure" /\ UNCHANGED <<shelf, live, listed, misread>>
    BY DEF EnsureCount, CountEnds, CountLeft, siteVars
  <2>2. Done = 1
    BY <2>1, TopUpSteps DEF Counting
  <2> QED
    BY <2>1, <2>2, TopUpSteps
<1>2. /\ Done' = 2 /\ at' = "next" /\ (Failed' <=> Failed)
      /\ ctx' = IF counted >= Target THEN ctx ELSE [ctx EXCEPT !.gap = Target - counted]
  BY <1>1, OneResultMore DEF EnsureCount, CountEnds, Statuses, Missing
<1>3. OnList' = OnList /\ Bound' = Bound /\ listed' = listed /\ live' = live /\ misread' = misread
  BY <1>1, SameShelves
<1>4. Cardinality(OnList) = listed /\ ctx.gap = 0 /\ ctx.collected = << >>
  BY <1>1 DEF Topping, Order
<1>5. /\ ctx'.collected = << >> /\ Len(<< >>) = 0
      /\ ctx'.gap = IF counted >= Target THEN 0 ELSE Target - counted
  <2>1. ctx \in Contexts
    BY TypeParts DEF Typed, RunTyped
  <2> QED
    BY <1>2, <1>4, <2>1 DEF Contexts
<1>6. /\ <<"ensure", "again">> \notin misread => counted <= listed
      /\ (live /\ <<"ensure", "short">> \notin misread) => listed <= counted
  BY <1>1, <1>4, CountedTells
<1>7. ctx'.gap \in Nat /\ ctx'.gap <= Target
  BY <1>5, ListNumbers
<1>8. (live /\ <<"ensure", "short">> \notin misread) => listed + ctx'.gap <= Bound
  BY <1>5, <1>6, ListNumbers
<1>9. Order'
  BY <1>2, <1>3, <1>4, <1>5 DEF Order, Adding, Counting
<1>10. Fits'
  <2>1. Cardinality(OnList) <= listed + ctx'.gap /\ Cardinality(OnList) <= Bound
    BY <1>4, <1>7, ListNumbers
  <2> QED
    BY <1>2, <1>3, <1>5, <1>7, <1>8, <2>1 DEF Fits, Adding
<1>11. Truth'
  <2>1. (listed < Target /\ <<"ensure", "again">> \notin misread) => ctx'.gap > 0
    BY <1>5, <1>6, ListNumbers
  <2> QED
    BY <1>2, <1>3, <2>1 DEF Truth
<1>12. CountTells'
  BY <1>2 DEF CountTells, Counting
<1> QED
  BY <1>9, <1>10, <1>11, <1>12 DEF Topping

\* A count that is the target's tells of a list that has them all: one that was
\* longer before is counted only when the session is gone, which shows nothing.
LEMMA ToppingAsserts ==
  ASSUME Typed, flow = TopUp, Topping, AssertCount
  PROVE  Topping'
<1>1. /\ at = "counted" /\ Done = 4 /\ Expected = Target /\ Now.does = "assert"
      /\ UNCHANGED <<shelf, live, listed, misread>>
  <2>1. at = "counted" /\ Now.does = "assert" /\ UNCHANGED <<shelf, live, listed, misread>>
    BY DEF AssertCount, CountEnds, CountLeft, siteVars
  <2>2. Done = 4
    BY <2>1, TopUpSteps DEF Counting
  <2> QED
    BY <2>1, <2>2, TopUpSteps
<1>2. CASE counted # Target
  BY <1>1, <1>2, ToppingFails DEF AssertCount, CountEnds
<1>3. CASE counted = Target
  <2>1. /\ Done' = 5 /\ at' = "next" /\ ctx' = ctx /\ (Failed' <=> Failed)
    BY <1>1, <1>3, OneResultMore DEF AssertCount, CountEnds, Statuses
  <2>2. OnList' = OnList /\ Bound' = Bound /\ listed' = listed /\ live' = live /\ misread' = misread
    BY <1>1, SameShelves
  <2>3. ctx.gap > 0 /\ ctx.gap <= Target
    BY <1>1 DEF Topping, Order, Fits, Counting
  <2>4. /\ <<"assert", "again">> \notin misread => Target <= Cardinality(OnList)
        /\ (live /\ <<"assert", "short">> \notin misread) => Cardinality(OnList) <= Target
        /\ (listed >= Target /\ <<"ensure", "short">> \notin misread) => Target = 0
    BY <1>1, <1>3, CountedTells
  <2>5. (<<"ensure", "short">> \notin misread /\ <<"assert", "again">> \notin misread) =>
          listed < Target /\ Cardinality(OnList) = Target
    <3>1. <<"ensure", "short">> \notin misread => Cardinality(OnList) <= Bound
      BY DEF Topping, Fits
    <3> QED
      BY <2>3, <2>4, <3>1, ListNumbers
  <2>6. (live /\ <<"assert", "again">> \notin misread /\ <<"assert", "short">> \notin misread) =>
          Cardinality(OnList) = Target
    BY <2>4, ListNumbers
  <2>7. Exact'
    <3>1. misread \cap {<<"ensure", "short">>, <<"ensure", "again">>, <<"assert", "again">>} = {} =>
            Cardinality(OnList) = IF listed >= Target THEN listed ELSE Target
      BY <2>5, ListNumbers
    <3>2. (ctx.gap > 0 /\ live /\ misread \cap ({"assert"} \X {"short", "again"}) = {}) =>
            Cardinality(OnList) = Target
      BY <2>6
    <3> QED
      BY <2>1, <2>2, <3>1, <3>2 DEF Exact
  <2>8. Truth'
    BY <2>1, <2>2, <2>3, <2>7 DEF Truth
  <2>9. Order'
    BY <2>1, <2>2, <2>3, ListNumbers DEF Order, Adding, Counting
  <2>10. Fits'
    BY <2>1, <2>2 DEF Topping, Fits, Adding
  <2>11. CountTells'
    BY <2>1 DEF CountTells, Counting
  <2> QED
    BY <2>8, <2>9, <2>10, <2>11 DEF Topping
<1> QED
  BY <1>2, <1>3

\* Collecting leaves the list alone, and what it stores fits the gap.
LEMMA ToppingCollects ==
  ASSUME Typed, Collected, flow = TopUp, Topping, CollectBegins \/ ExamineEntry \/ TurnPage \/ CollectEnds
  PROVE  Topping'
<1>1. Done = 2 /\ UNCHANGED <<shelf, live, listed, misread>>
  <2>1. CASE CollectBegins
    <3>1. Done < Len(Steps) /\ Now.does = "collect"
      BY <2>1, BeginsTyped DEF CollectBegins, Typed, Done
    <3> QED
      BY <2>1, <3>1, TopUpSteps DEF CollectBegins, siteVars, runVars, countVars
  <2>2. CASE ExamineEntry \/ TurnPage \/ CollectEnds
    BY <2>2, TopUpSteps DEF ExamineEntry, TurnPage, CollectEnds, siteVars, runVars, countVars
  <2> QED
    BY <2>1, <2>2
<1>2. OnList' = OnList /\ Bound' = Bound /\ listed' = listed /\ live' = live /\ misread' = misread
  BY <1>1, SameShelves
<1>3. ctx.gap > 0
  <2>1. CASE CollectBegins
    <3>1. Holds("gap")
      BY <1>1, <2>1, TopUpSteps DEF CollectBegins, Begins
    <3> QED
      BY <3>1 DEF Holds
  <2>2. CASE ExamineEntry \/ TurnPage \/ CollectEnds
    BY <2>2 DEF ExamineEntry, TurnPage, CollectEnds, Topping, Order
  <2> QED
    BY <2>1, <2>2
<1>4. CASE CollectBegins \/ ExamineEntry \/ TurnPage
  <2>1. Done' = Done /\ ctx' = ctx /\ (Failed' <=> Failed) /\ at' = "collecting"
    BY <1>4 DEF CollectBegins, ExamineEntry, TurnPage, runVars, Done, Failed
  <2>2. Order' /\ Truth'
    BY <1>1, <1>2, <1>3, <2>1 DEF Topping, Order, Truth, Adding, Counting
  <2>3. Fits'
    BY <1>2, <2>1 DEF Topping, Fits, Adding
  <2>4. CountTells'
    BY <2>1 DEF CountTells, Counting
  <2> QED
    BY <2>2, <2>3, <2>4 DEF Topping
<1>5. CASE CollectEnds /\ Ends("failed", ctx)
  BY <1>1, <1>5, ToppingFails
<1>6. CASE CollectEnds /\ Ends("passed", [ctx EXCEPT !.collected = acc])
  <2>1. Done' = 3 /\ at' = "next" /\ ctx' = [ctx EXCEPT !.collected = acc] /\ (Failed' <=> Failed)
    BY <1>1, <1>6, OneResultMore DEF Statuses
  <2>2. ctx'.gap = ctx.gap /\ ctx'.collected = acc
    <3>1. ctx \in Contexts
      BY TypeParts DEF Typed, RunTyped
    <3> QED
      BY <2>1, <3>1 DEF Contexts
  <2>3. Len(acc) <= ctx.gap
    <3>1. Len(acc) + room <= Limit /\ Limit = ctx.gap
      BY <1>1, <1>6, TopUpSteps DEF CollectEnds, Collected, Collecting
    <3>2. Len(acc) \in Nat /\ room \in Nat
      BY TypeParts DEF Typed, PageTyped
    <3> QED
      BY <3>1, <3>2, ListNumbers
  <2>4. Order' /\ Truth'
    BY <1>1, <1>2, <1>3, <2>1, <2>2, ListNumbers DEF Topping, Order, Truth, Adding, Counting
  <2>5. Fits'
    BY <1>2, <2>1, <2>2, <2>3 DEF Topping, Fits, Adding
  <2>6. CountTells'
    BY <2>1 DEF CountTells, Counting
  <2> QED
    BY <2>4, <2>5, <2>6 DEF Topping
<1> QED
  BY <1>4, <1>5, <1>6 DEF CollectEnds

\* The books to add fit when the session has seen the list.
LEMMA ToppingAdds ==
  ASSUME Typed, Collected, flow = TopUp, Topping, AddBegins
  PROVE  Topping'
<1>1. Done = 3 /\ at = "next" /\ Holds("collected") /\ UNCHANGED <<shelf, live, listed, misread>>
  <2>1. Done < Len(Steps) /\ Now.does = "add" /\ at = "next"
    BY BeginsTyped DEF AddBegins, Typed, Done
  <2> QED
    BY <2>1, TopUpSteps DEF AddBegins, Begins, siteVars, runVars, countVars
<1>2. ctx.collected # << >> /\ Cardinality(OnList) = listed
  BY <1>1 DEF Holds, Topping, Order
<1>3. ctx.gap > 0
  BY <1>2, ListNumbers DEF Topping, Order
<1>4. at' = "opening" /\ todo' = ctx.collected /\ UNCHANGED runVars
  BY <1>2 DEF AddBegins
<1>5. /\ OnList' = OnList /\ Bound' = Bound /\ listed' = listed /\ live' = live /\ misread' = misread
      /\ Done' = Done /\ ctx' = ctx /\ (Failed' <=> Failed)
  BY <1>1, <1>4, SameShelves DEF runVars, Done, Failed
<1>6. Cardinality(OnList \cup ToSet(ctx.collected)) <= listed + ctx.gap
  <2>1. ToSet(ctx.collected) \in SUBSET Books /\ OnList \in SUBSET Books
    BY ListNumbers, Members
  <2>2. /\ IsFiniteSet(ToSet(ctx.collected)) /\ Cardinality(ToSet(ctx.collected)) \in Nat
        /\ IsFiniteSet(OnList) /\ Cardinality(OnList) \in Nat
        /\ Cardinality(OnList \cap ToSet(ctx.collected)) \in Nat
    BY <2>1, FiniteBooks
  <2>3. Cardinality(OnList \cup ToSet(ctx.collected)) =
          Cardinality(OnList) + Cardinality(ToSet(ctx.collected)) - Cardinality(OnList \cap ToSet(ctx.collected))
    BY <2>2, FS_Union
  <2>4. Cardinality(ToSet(ctx.collected)) = Len(ctx.collected)
    BY DEF Collected, Distinct
  <2>5. Len(ctx.collected) <= ctx.gap
    BY DEF Topping, Fits
  <2> QED
    BY <1>2, <2>2, <2>3, <2>4, <2>5, ListNumbers
<1>7. Order' /\ Truth'
  BY <1>1, <1>2, <1>3, <1>4, <1>5 DEF Topping, Order, Truth, Adding, Counting
<1>8. Fits'
  BY <1>4, <1>5, <1>6 DEF Topping, Fits
<1>9. CountTells'
  BY <1>4 DEF CountTells, Counting
<1> QED
  BY <1>7, <1>8, <1>9 DEF Topping

\* Whatever a rung of the adding does, it puts no book on the list but the one
\* that is open, and nothing at all without a session.
LEMMA ToppingGoesOn ==
  ASSUME Typed, Typed', flow = TopUp, Topping, at \in Adding, UNCHANGED <<live, listed, misread>>,
         live => OnList' \subseteq OnList \cup {Book}, ~live => shelf' = shelf,
         ToSet(todo') \subseteq ToSet(todo),
         \/ at' \in Adding /\ UNCHANGED runVars
         \/ \E status \in Statuses : Ends(status, ctx)
  PROVE  Topping'
<1>1. Done = 3 /\ ctx.gap > 0 /\ at # "next" /\ at # "collecting"
  BY TopUpSteps DEF Topping, Order, Adding
<1>2. ctx' = ctx /\ Bound' = Bound /\ (Failed => Failed')
  BY OneResultMore DEF runVars, Bound, Failed
<1>3. \/ at' \in Adding /\ Done' = 3
      \/ at' = "next" /\ Done' = 4
  BY <1>1, OneResultMore DEF runVars, Done
<1>4. OnList \in SUBSET Books /\ ToSet(todo) \in SUBSET Books /\ Book \in ToSet(todo)
  <2>1. todo \in Seq(Books) /\ todo # << >>
    BY AddingFacts DEF Typed
  <2> QED
    BY <2>1, Members, ListNumbers DEF Book
<1>5. ToSet(todo') \in SUBSET Books /\ OnList' \in SUBSET Books
  BY <1>4 DEF OnList
<1>6. OnList' \cup ToSet(todo') \in SUBSET (OnList \cup ToSet(todo))
  BY <1>4, SameShelves
<1>7. Cardinality(OnList') <= listed + ctx.gap /\ Cardinality(OnList' \cup ToSet(todo')) <= listed + ctx.gap
  <2>1. OnList \cup ToSet(todo) \in SUBSET Books /\ OnList' \cup ToSet(todo') \in SUBSET Books
    BY <1>4, <1>5
  <2>2. OnList' \in SUBSET (OnList' \cup ToSet(todo'))
    OBVIOUS
  <2>3. /\ Cardinality(OnList' \cup ToSet(todo')) <= Cardinality(OnList \cup ToSet(todo))
        /\ Cardinality(OnList') <= Cardinality(OnList' \cup ToSet(todo'))
    BY <1>6, <2>1, <2>2, MoreBooks
  <2>4. /\ Cardinality(OnList \cup ToSet(todo)) \in Nat /\ Cardinality(OnList' \cup ToSet(todo')) \in Nat
        /\ Cardinality(OnList') \in Nat
    BY <1>5, <2>1, FiniteBooks
  <2>5. Cardinality(OnList \cup ToSet(todo)) <= listed + ctx.gap
    BY DEF Topping, Fits
  <2> QED
    BY <2>3, <2>4, <2>5, ListNumbers
<1>8. <<"ensure", "short">> \notin misread => Cardinality(OnList') <= Bound
  <2>1. CASE live
    <3>1. <<"ensure", "short">> \notin misread => listed + ctx.gap <= Bound
      BY <2>1 DEF Topping, Fits
    <3>2. Cardinality(OnList') \in Nat
      BY <1>5, FiniteBooks
    <3> QED
      BY <1>7, <3>1, <3>2, ListNumbers
  <2>2. CASE ~live
    <3>1. OnList' = OnList
      BY <2>2, SameShelves
    <3> QED
      BY <3>1 DEF Topping, Fits
  <2> QED
    BY <2>1, <2>2
<1>9. Fits'
  BY <1>2, <1>7, <1>8 DEF Topping, Fits
<1>10. Order'
  BY <1>1, <1>2, <1>3 DEF Topping, Order, Adding, Counting
<1>11. Truth'
  BY <1>1, <1>2, <1>3 DEF Topping, Truth
<1>12. CountTells'
  BY <1>3 DEF CountTells, Adding, Counting
<1> QED
  BY <1>9, <1>10, <1>11, <1>12 DEF Topping

\* What a click can do to the list.
LEMMA ClickListsOne ==
  ASSUME Typed, at \in Adding,
         NEW effects \in {ButtonPressed(Book), EntryPressed(Book, label)},
         NEW v \in effects \cup {shelf[Book]}, shelf' = [shelf EXCEPT ![Book] = v]
  PROVE  OnList' \subseteq OnList \cup {Book} /\ (~live => shelf' = shelf)
<1>1. shelf \in [Books -> Labels \cup {None}]
  BY TypeParts DEF Typed, SiteTyped
<1>2. OnList' \subseteq OnList \cup {Book}
  BY <1>1 DEF OnList
<1>3. ASSUME ~live PROVE v = shelf[Book]
  BY <1>3 DEF ButtonPressed, EntryPressed
<1> QED
  BY <1>1, <1>2, <1>3

\* A book is done with: the list of those to open gets shorter.
LEMMA BookDoneGoesOn ==
  ASSUME Typed, at \in Adding, BookDone
  PROVE  /\ UNCHANGED listed /\ ToSet(todo') \subseteq ToSet(todo)
         /\ \/ at' \in Adding /\ UNCHANGED runVars
            \/ \E status \in Statuses : Ends(status, ctx)
<1>1. todo \in Seq(Books) /\ todo # << >> /\ todo' = Tail(todo)
  BY AddingFacts DEF Typed, BookDone
<1>2. ToSet(todo') \subseteq ToSet(todo)
  BY <1>1, Members
<1> QED
  BY <1>2 DEF BookDone, runVars, Adding, Statuses

\* A rung that clicks, whatever comes of it.
LEMMA ToppingClicks ==
  ASSUME Typed, Typed', flow = TopUp, Topping, at \in Adding, UNCHANGED <<live, misread>>,
         NEW effects \in {ButtonPressed(Book), EntryPressed(Book, label)},
         NEW v \in effects \cup {shelf[Book]}, shelf' = [shelf EXCEPT ![Book] = v],
         \/ BookDone
         \/ at' \in Adding /\ UNCHANGED <<runVars, todo>>
  PROVE  Topping'
<1>1. OnList' \subseteq OnList \cup {Book} /\ (~live => shelf' = shelf)
  BY ClickListsOne
<1>2. /\ UNCHANGED listed /\ ToSet(todo') \subseteq ToSet(todo)
      /\ \/ at' \in Adding /\ UNCHANGED runVars
         \/ \E status \in Statuses : Ends(status, ctx)
  <2>1. CASE BookDone
    BY <2>1, BookDoneGoesOn
  <2>2. CASE at' \in Adding /\ UNCHANGED <<runVars, todo>>
    BY <2>2 DEF runVars
  <2> QED
    BY <2>1, <2>2
<1> QED
  BY <1>1, <1>2, ToppingGoesOn

LEMMA ToppingStep == IInv /\ [Next]_vars => TopUpInv'
<1> SUFFICES ASSUME Typed, Collected, [Next]_vars, flow = TopUp => Topping, flow' = TopUp PROVE Topping'
  BY DEF IInv, TopUpInv
<1>0. Typed'
  BY TypedStep
<1>1. flow = TopUp
  <2>1. flow' = flow
    BY DEF Next, SessionExpires, SkipStep, EnsureLogin, CountBegins, PageLands, CountRows, NextPage, LastPage,
           CountFails, CountLeft, StoreCount, EnsureCount, AssertCount, CountEnds, CollectBegins, ExamineEntry, TurnPage, CollectEnds, AddBegins, OpenBook, AlreadyShelved,
           ResolverRole, DropdownShelf, ResolverCss, DriverFallback, Clicks, TurnsTo, LastRung, BookDone,
           ClearBegins, ClearLists, ClearGoesOn, RemoveLooks, RemoveClicks, runVars, vars
  <2> QED
    BY <2>1
<1>2. Topping
  BY <1>1
<1>3. ASSUME UNCHANGED <<shelf, runVars, at, todo, countVars>>, live' \in BOOLEAN, live' => live
      PROVE  Topping'
  <2>1. /\ OnList' = OnList /\ On("want")' = On("want") /\ Bound' = Bound /\ listed' = listed
        /\ Done' = Done /\ ctx' = ctx /\ (Failed' <=> Failed) /\ UNCHANGED <<counted, side, ahead, due, misread>>
        /\ Now' = Now
    BY <1>3, SameShelves DEF runVars, countVars, Done, Failed, Now, Steps
  <2>2. Order'
    BY <1>2, <1>3, <2>1 DEF Topping, Order
  <2>5. Truth'
    BY <1>2, <1>3, <2>1 DEF Topping, Truth, Exact
  <2>3. Fits'
    BY <1>2, <1>3, <2>1 DEF Topping, Fits
  <2>4. CountTells'
    BY <1>2, <1>3, <2>1 DEF Topping, CountTells, Reached
  <2> QED
    BY <2>2, <2>3, <2>4, <2>5 DEF Topping
<1>4. CASE SessionExpires
  BY <1>3, <1>4 DEF SessionExpires, bookVars
<1>5. CASE UNCHANGED vars
  BY <1>3, <1>5, TypeParts DEF vars, siteVars, bookVars, Typed, SiteTyped
<1>6. CASE OpenBook
  <2>1. at \in Adding /\ UNCHANGED <<shelf, live, listed, todo, misread>>
    BY <1>6 DEF OpenBook, siteVars, runVars, countVars, Adding
  <2>2. \/ at' \in Adding /\ UNCHANGED runVars
        \/ \E status \in Statuses : Ends(status, ctx)
    BY <1>6 DEF OpenBook, Adding, Statuses
  <2>3. OnList' = OnList
    BY <2>1, SameShelves
  <2> QED
    BY <1>0, <1>1, <1>2, <2>1, <2>2, <2>3, ToppingGoesOn
<1>7. CASE AlreadyShelved
  <2>1. at \in Adding /\ UNCHANGED <<shelf, live, misread>>
    BY <1>7 DEF AlreadyShelved, siteVars, countVars, Adding
  <2>2. /\ UNCHANGED listed /\ ToSet(todo') \subseteq ToSet(todo)
        /\ \/ at' \in Adding /\ UNCHANGED runVars
           \/ \E status \in Statuses : Ends(status, ctx)
    <3>1. CASE BookDone
      BY <2>1, <3>1, BookDoneGoesOn
    <3>2. CASE TurnsTo("role")
      BY <3>2 DEF TurnsTo, Adding, runVars
    <3> QED
      BY <1>7, <3>1, <3>2 DEF AlreadyShelved
  <2>3. OnList' = OnList
    BY <2>1, <2>2, SameShelves
  <2> QED
    BY <1>0, <1>1, <1>2, <2>1, <2>2, <2>3, ToppingGoesOn
<1>8. CASE ResolverRole
  <2>1. CASE label = "want"
    <3>1. PICK v \in ButtonPressed(Book) \cup {shelf[Book]} :
            /\ shelf' = [shelf EXCEPT ![Book] = v]
            /\ BookDone \/ TurnsTo("dropdown")
      BY <1>8, <2>1 DEF ResolverRole, Clicks
    <3>2. at \in Adding /\ UNCHANGED <<live, misread>>
      BY <1>8, <2>1 DEF ResolverRole, Clicks, countVars, Adding
    <3> QED
      BY <1>0, <1>1, <1>2, <3>1, <3>2, ToppingClicks DEF TurnsTo, Adding
  <2>2. CASE label # "want"
    <3>1. at \in Adding /\ UNCHANGED <<shelf, live, misread>> /\ TurnsTo("dropdown")
      BY <1>8, <2>2 DEF ResolverRole, siteVars, countVars, Adding
    <3>2. at' \in Adding /\ UNCHANGED <<runVars, todo, listed>>
      BY <3>1 DEF TurnsTo, Adding, runVars
    <3>3. OnList' = OnList
      BY <3>1, <3>2, SameShelves
    <3> QED
      BY <1>0, <1>1, <1>2, <3>1, <3>2, <3>3, ToppingGoesOn
  <2> QED
    BY <2>1, <2>2
<1>9. CASE DropdownShelf
  <2>1. PICK v \in EntryPressed(Book, label) \cup {shelf[Book]} :
          /\ shelf' = [shelf EXCEPT ![Book] = v]
          /\ BookDone \/ TurnsTo("css")
    BY <1>9 DEF DropdownShelf, Clicks
  <2>2. at \in Adding /\ UNCHANGED <<live, misread>>
    BY <1>9 DEF DropdownShelf, Clicks, countVars, Adding
  <2> QED
    BY <1>0, <1>1, <1>2, <2>1, <2>2, ToppingClicks DEF TurnsTo, Adding
<1>10. CASE ResolverCss
  <2>1. PICK v \in ButtonPressed(Book) \cup {shelf[Book]} :
          /\ shelf' = [shelf EXCEPT ![Book] = v]
          /\ BookDone \/ TurnsTo("driver")
    BY <1>10 DEF ResolverCss, Clicks
  <2>2. at \in Adding /\ UNCHANGED <<live, misread>>
    BY <1>10 DEF ResolverCss, Clicks, countVars, Adding
  <2> QED
    BY <1>0, <1>1, <1>2, <2>1, <2>2, ToppingClicks DEF TurnsTo, Adding
<1>11. CASE DriverFallback
  <2>1. PICK v \in ButtonPressed(Book) \cup {shelf[Book]} :
          /\ shelf' = [shelf EXCEPT ![Book] = v]
          /\ BookDone \/ LastRung
    BY <1>11 DEF DriverFallback, Clicks
  <2>2. at \in Adding /\ UNCHANGED <<live, misread>>
    BY <1>11 DEF DriverFallback, Clicks, countVars, Adding
  <2>3. BookDone \/ (at' \in Adding /\ UNCHANGED <<runVars, todo>>)
    BY <2>1 DEF LastRung, Adding
  <2> QED
    BY <1>0, <1>1, <1>2, <2>1, <2>2, <2>3, ToppingClicks
<1>12. ~StoreCount /\ ~ClearBegins /\ ~ClearLists /\ ~RemoveLooks /\ ~RemoveClicks
  <2>1. ~StoreCount
    <3>1. ASSUME StoreCount PROVE at = "counted" /\ Now.does = "store"
      BY <3>1 DEF StoreCount, CountEnds
    <3> QED
      BY <1>1, <3>1, TopUpSteps DEF Counting
  <2>2. ~ClearBegins
    <3>1. ASSUME ClearBegins PROVE Done < Len(Steps) /\ Now.does = "clear"
      BY <3>1, BeginsTyped DEF ClearBegins, Typed, Done
    <3> QED
      BY <1>1, <3>1, TopUpSteps
  <2>3. at \notin Clearing
    BY <1>1, TopUpSteps
  <2> QED
    BY <2>1, <2>2, <2>3 DEF ClearLists, RemoveLooks, RemoveClicks, Clearing
<1> QED
  BY <1>1, <1>2, <1>4, <1>5, <1>6, <1>7, <1>8, <1>9, <1>10, <1>11, <1>12, ToppingSkips, ToppingLogsIn,
     ToppingCounts, ToppingReads, ToppingFindsGap, ToppingAsserts, ToppingCollects, ToppingAdds DEF Next

\* The invariant under which a top-up adds what was missing and no more.
LEMMA ToppingInvariant == Spec => []IInv
<1>1. Init => IInv
  BY TypedInit, CollectedInit, ToppingInit DEF IInv
<1>2. IInv /\ [Next]_vars => IInv'
  BY TypedStep, CollectedStep, ToppingStep DEF IInv
<1> QED
  BY <1>1, <1>2, PTL DEF Spec

\* However a step of a top-up goes wrong, the list grows by no more than the gap and
\* the gap is no more than the target; unless the count that decided read the list
\* short, the list is never longer than the target, or than it was: for any books,
\* shelves, target and pages, and whatever the counts read.
THEOREM NeverOvershoots == Spec => []TopUpNeverOvershoots
<1>1. Typed /\ Collected => CollectionIsSound
  <2> SUFFICES ASSUME Typed, Collected, at = "collecting"
               PROVE  /\ Cardinality(ToSet(acc)) = Len(acc) /\ Len(acc) <= Limit
                      /\ ToSet(acc) \subseteq Old
    BY DEF CollectionIsSound
  <2>1. /\ Cardinality(ToSet(acc)) = Len(acc) /\ ToSet(acc) \subseteq Old
        /\ Len(acc) + room <= Limit
    BY DEF Collected, Collecting
  <2>2. Len(acc) \in Nat /\ room \in Nat
    BY TypeParts DEF Typed, PageTyped
  <2>3. Limit \in Nat
    BY Numbers DEF Typed, InStep, Done
  <2> QED
    BY <2>1, <2>2, <2>3
<1>2. IInv => TopUpNeverOvershoots
  BY <1>1 DEF IInv, TopUpInv, TopUpNeverOvershoots, Topping, Fits, Bound
<1> QED
  BY <1>2, ToppingInvariant, PTL

\* A top-up all of whose steps passed or were skipped tells the truth: unless the
\* deciding count was wrong or the check read rows again, a list that was short has
\* the target's number of books and one that was long enough is as it was; and a
\* check that read what is there vouches for the target whatever was decided.
THEOREM PassedIsExact == Spec => []PassedTopUpIsExact
<1>1. IInv => PassedTopUpIsExact
  <2> SUFFICES ASSUME Typed, Topping, ToppedUp PROVE Exact
    BY DEF IInv, TopUpInv, PassedTopUpIsExact, ToppedUp, Exact
  <2>1. Done = 5 /\ ~Failed
    BY TopUpSteps DEF ToppedUp, Ended, Done, Failed
  <2> QED
    BY <2>1 DEF Topping, Truth
<1> QED
  BY <1>1, ToppingInvariant, PTL
==============================================================================
