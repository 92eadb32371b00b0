--------------------------- MODULE MCBrightSkyRun ---------------------------
(* The versions, pages and replies on which TLC checks BrightSkyRun. *)
EXTENDS BrightSkyRun

Shop  == <<"shop", "test">>
Admin == <<"admin", "shop", "test">>
Other == <<"other", "test">>

\* An element has a role and a name, and what its attributes give.
MCMarks ==
  [box    |-> {<<"role", <<"textbox", "Find">>>>, <<"id", <<"q">>>>, <<"css", <<".q">>>>},
   search |-> {<<"role", <<"combobox", "Search">>>>, <<"placeholder", <<"Search">>>>},
   go     |-> {<<"role", <<"button", "Go">>>>, <<"text", <<"Go">>>>},
   menu   |-> {<<"text", <<"Menu">>>>, <<"css", <<".menu">>>>, <<"css", <<"[x='{{']">>>>}]

Page(host, path, shows) == [url |-> <<host, path>>, shows |-> shows]

Start   == Page(Shop, <<>>, {"box", "menu"})
Changed == Page(Shop, <<>>, {"search", "go"})
Found   == Page(Shop, <<"found">>, {"box", "go"})
Away    == Page(Other, <<"found">>, {"search"})

MCPages == {Start, Changed, Found, Away}

Tgt(role, name, selectors) ==
  {[malformed |-> FALSE, role |-> role, name |-> name, selectors |-> selectors]}

Plain ==
  [malformed |-> FALSE, repeats |-> FALSE, title |-> "do it", quoted |-> [title |-> "", explanation |-> ""],
   domain |-> {}, url |-> {}, mode |-> {}, target |-> Tgt("button", "Go", <<>>), outcome |-> {}]

UrlChange(contains) == {[kind |-> "url_change", target |-> {}, contains |-> contains]}
About(kind, target) == {[kind |-> kind, target |-> target, contains |-> {}]}

\* A search that the site is to answer on another page.
Searching ==
  [Plain EXCEPT !.quoted.title = "tea", !.target = Tgt("textbox", "Find", <<>>),
                !.outcome = UrlChange({<<"found">>})]

\* A click on the menu, whose page is not looked at.
Opening ==
  [Plain EXCEPT !.target = Tgt("", "Menu", <<[by |-> "css", of |-> ".menu"]>>),
                !.outcome = About("element_gone", Tgt("", "Menu", <<>>))]

Leaving == [Plain EXCEPT !.outcome = UrlChange({})]

\* Typed into whatever has the selector, and read back.
Typing ==
  [Plain EXCEPT !.quoted.explanation = "tea", !.domain = {Admin},
                !.target = Tgt(" ", "", <<[by |-> "css", of |-> ""], [by |-> "id", of |-> "q"]>>),
                !.outcome = About("value_set", Tgt("textbox", "Find", <<>>))]

Going ==
  [Plain EXCEPT !.domain = {Shop}, !.url = {<<"fo+">>}, !.mode = {"regex"},
                !.outcome = About("element_appears", Tgt("textbox", "Find", <<>>))]

V(site, one, others) == [site |-> site, steps |-> <<one>> \o others]

MCVersions ==
  { V(Shop, Searching, <<Going>>),
    V(Shop, Opening, <<[Going EXCEPT !.url = {<<"found">>}, !.mode = {"includes"}]>>),
    V(Shop, Leaving, <<>>),
    V(Shop, [Typing EXCEPT !.url = {<<"found">>}], <<Leaving>>),
    \* Not to be mapped, each for a reason of its own.
    V(Shop, [Searching EXCEPT !.domain = {Other}], <<>>),
    V(<<"shop", "127">>, Searching, <<>>),
    V(Shop, Searching, <<[Going EXCEPT !.domain = {<<>>}]>>),
    V(Shop, [Searching EXCEPT !.quoted.title = "ENV:TOKEN"], <<>>),
    V(Shop, [Searching EXCEPT !.title = "{{name}}"], <<>>),
    V(Shop, [Searching EXCEPT !.target = Tgt("combobox", "Find", <<>>)], <<>>),
    V(Shop, [Leaving EXCEPT !.outcome = {[kind |-> "looks_right", target |-> {}, contains |-> {}]}], <<>>) }

Answer(action, cfg) == <<[action |-> action, cfg |-> cfg, url |-> <<Other, <<"found">>>>]>>

RoleLess == "placeholder" :> <<"Search">>

\* No reference for the runner, and still not to be mapped.
Unclosed == Answer("click", "css" :> <<"[x='{{']">>)

MCReplies ==
  { Answer("fill", RoleLess),
    Answer("click", "text" :> <<"Go">>),
    Answer("fill", "css" :> <<"{{field}}">>),
    Unclosed,
    Answer("fill", "role" :> <<"combobox", "Search">>),
    Answer("click", ("role" :> <<"button", "Go">>) @@ ("id" :> <<"1st">>)),
    Answer("navigate", << >>),
    Answer("navigate", "css" :> <<".q">>),
    Answer("click", "css" :> <<".menu">>) \o Answer("click", "css" :> <<".q">>) }

MCMappable == MCReplies \ {Unclosed}

MCRegexes == <<"fo+">> :> {<<"found">>, <<"foo">>}
=============================================================================
