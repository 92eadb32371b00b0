---------------------------- MODULE MCPlannedRun ----------------------------
(* The instances of PlannedRun that TLC checks. *)
EXTENDS PlannedRun

Registered(domain, does) == [domain |-> domain, does |-> does]

MCActions ==
  [click |-> Registered("web", "page"), store |-> Registered("web", "store"),
   db_execute |-> Registered("db", "execute"), db_query |-> Registered("db", "query"),
   db_assert_count |-> Registered("db", "check"), noop_echo |-> Registered("noop", "page"),
   for_each_item |-> Registered("web", "each"), run_workflow |-> Registered("none", "subflow"),
   stray_action |-> Registered("unregistered", "page")]

MCDomains == {"web", "db", "noop"}

Plain == Str(<<Lit("plain")>>)
Whole(name) == Str(<<Ref(name)>>)
Within(name) == Str(<<Lit("on "), Ref(name)>>)

MCItems == <<Str(<<Lit("url1")>>), Str(<<Lit("url2")>>)>>
MCCounts == {Num("1")}
MCScraped == {Str(<<Lit("Dune")>>), Num("2"), Str(<<Ref("n")>>)}

\* A step alone, and one over the steps of its body.
One(node) == [a \in {<< >>} |-> node]

Over(node, steps) ==
  [a \in {<< >>} \cup UNION {{<<i>> \o b : b \in DOMAIN steps[i]} : i \in DOMAIN steps} |->
     IF a = << >> THEN node ELSE steps[Head(a)][Tail(a)]]

Do(action) ==
  One([include |-> "", vars |-> << >>, action |-> action, described |-> TRUE, shape |-> "extra",
       param |-> Plain, when |-> NoGuard, cont |-> "unset", key |-> "", path |-> ""])

With(action, value) == [Do(action) EXCEPT ![<< >>].param = value]
Keeping(action, name) == [Do(action) EXCEPT ![<< >>].key = name]
If(step, cond) == [step EXCEPT ![<< >>].when = cond]
Loop(body) == Over(Own(Do("for_each_item")), body)
As(step, shape) == [step EXCEPT ![<< >>].shape = shape]
IncludeOf(path, sets) == [Do("") EXCEPT ![<< >>].include = path, ![<< >>].vars = sets]
Sub(path, sets) == [Do("run_workflow") EXCEPT ![<< >>].path = path, ![<< >>].vars = sets]
Untold(step) == [step EXCEPT ![<< >>].described = FALSE]
OnFail(step) == [step EXCEPT ![<< >>].cont = "yes"]

File(steps) == [bare |-> FALSE, variables |-> << >>, overrides |-> << >>, settings |-> "unset", steps |-> steps]
Having(file, variables) == [file EXCEPT !.variables = variables]

Only(steps) == [main |-> File(steps)]

\* A condition of one node, and one that holds others.
Of(keys) == [a \in {<< >>} |-> keys]

Holds(keys, key, conds) ==
  [a \in {<< >>} \cup UNION {{<< <<key, i>> >> \o b : b \in DOMAIN conds[i]} : i \in DOMAIN conds} |->
     IF a = << >> THEN [k \in DOMAIN keys \cup {key} |-> IF k = key THEN Len(conds) ELSE keys[k]]
     ELSE conds[Head(a)[2]][Tail(a)]]

Not(cond) == Holds(<< >>, "not", <<cond>>)

HasRow   == Of([db_row_exists |-> [value |-> Whole("item")]])
HasItem  == Of([context_key_exists |-> "item"])
OnUrl    == Of([url_contains |-> [value |-> Plain]])
MoreThan == Of([context_greater_than |-> [key |-> "n", value |-> Num("1")]])
Typo     == Of([url_contain |-> [value |-> Plain]])

Conditions ==
  {MoreThan, Not(MoreThan), Holds(<< >>, "any", <<MoreThan, HasItem, OnUrl>>),
   Holds(<< >>, "all", <<OnUrl, HasRow>>), Holds(Own(OnUrl), "not", <<OnUrl>>), Not(Typo),
   Holds(<< >>, "all", <<HasItem, Typo>>),
   Of([context_less_than |-> [key |-> "n", value |-> Num("2")], element_exists |-> [value |-> Plain]]),
   Holds(<< >>, "all", <<Of([element_exists |-> [value |-> Plain]]),
              Of([context_between |-> [key |-> "n", value |-> Num("1"), max |-> Num("2")]])>>),
   Of([context_equals |-> [key |-> "n", value |-> Whole("n")]])}

\* Steps a workflow may put in any order: a value is read off a page or out of
\* the database, written, checked, and guarded by.
Pool ==
  {Keeping("store", "item"), Keeping("db_query", "n"), OnFail(With("db_execute", Within("n"))),
   With("db_execute", Whole("item")), With("db_assert_count", Whole("item")),
   If(Do("click"), HasRow)}

Bodies ==
  {Do("click"), With("db_execute", Plain), With("db_execute", Within("item")), Do("clikc"),
   Untold(Do("noop_echo")), If(Do("noop_echo"), HasItem), If(Do("click"), Typo),
   If(Do("click"), OnUrl), Keeping("store", "item"),
   As(Loop(<<Do("clikc")>>), "flat"), As(Loop(<<Do("clikc")>>), "stray"),
   As(Loop(<<With("db_query", Plain), With("db_assert_count", Whole("item"))>>), "flat")}

Mixed == {Only(<<a, b, c>>) : a, b, c \in Pool}

Guarded == {Only(<<Keeping("db_query", "n"), If(With("db_execute", Whole("n")), c)>>) : c \in Conditions}

Looped ==
  {Only(<<Loop(<<a, b>>)>>) : a, b \in Bodies}
  \cup {Only(<<Keeping("store", "item"), Loop(<<a>>)>>) : a \in Bodies}

MCSub == File(<<With("db_execute", Within("item")), OnFail(Do("clikc")), If(Do("click"), HasItem)>>)

Nested ==
  {[main |-> Having(File(<<IncludeOf("a", << <<"v", Whole("w")>> >>), With("db_execute", Whole("v"))>>),
                    << <<"w", Num("1")>>, <<"v", Within("w")>> >>),
    a |-> Having(File(<<With("db_execute", Within("v")), IncludeOf("b", << >>)>>), << <<"v", Plain>> >>),
    b |-> File(tail)] : tail \in {<<Do("click")>>, <<IncludeOf("a", << >>)>>, <<IncludeOf("b", << >>)>>,
                                  <<IncludeOf("main", << >>)>>, <<With("db_execute", Within("w"))>>}}
  \cup {[main |-> [File(<<Sub("a", << <<"item", Within("x")>> >>), OnFail(Do("click"))>>) EXCEPT !.settings = "yes"],
         a |-> MCSub],
        [main |-> File(<<Sub("a", << <<"item", Plain>> >>), Do("click")>>), a |-> MCSub],
        [main |-> File(<<Loop(<<Sub("a", << >>), Do("click")>>)>>), a |-> MCSub],
        [main |-> File(<<Loop(<<Sub("a", << <<"item", Plain>> >>), Do("click")>>)>>),
         a |-> File(<<Loop(<<Do("clikc"), Do("click")>>)>>)],
        [main |-> File(<<Sub("a", << >>)>>), a |-> File(<<Sub("a", << >>)>>)],
        [main |-> File(<<Sub("a", << >>)>>), a |-> File(<<Do("stray_action")>>)],
        [main |-> [File(<<Do("click")>>) EXCEPT !.bare = TRUE]]}

MCWorkspaces ==
  Mixed \cup Guarded \cup Looped \cup Nested
  \cup {Only(<<Do("click"), Do("clikc")>>), Only(<<Do("stray_action")>>),
        Only(<<As(Loop(<<With("db_execute", Plain)>>), "stray")>>)}

\* The body the docstring of ForEachItemAction describes.
MCLoopWorkspaces == {Only(<<Loop(<<With("db_execute", Whole("item_url"))>>)>>)}
=============================================================================
