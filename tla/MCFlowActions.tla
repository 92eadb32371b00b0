---------------------------- MODULE MCFlowActions ----------------------------
(* The instances of FlowActions that TLC checks. *)
EXTENDS FlowActions

MCSources == {"step", "tab"}

Extract(key, limit) == [selector |-> TRUE, key |-> key, limit |-> limit]

Does(known, guarded, does) == [known |-> known, guarded |-> guarded, does |-> does]

Flow(kind, subs) ==
  [kind |-> kind, subs |-> subs, check_url |-> TRUE, turns |-> "none", max_pages |-> 0,
   max_items |-> 0, extract |-> Extract("collected_items", 2)]

Pages(turns, extract, pages, items) ==
  [Flow("paginate", << >>) EXCEPT !.turns = turns, !.extract = extract,
                                  !.max_pages = pages, !.max_items = items]

OnePage == Pages("button", Extract("extracted_data", 1), 1, 1)

TwoSubs == <<Does(TRUE, FALSE, "page"), Does(TRUE, TRUE, "extract_data")>>

MCFlowSteps ==
  {Flow("for_each_item", TwoSubs),
   Flow("for_each_item", <<Does(TRUE, TRUE, "page"), Does(FALSE, FALSE, "page")>>),
   Flow("for_each_item", <<Does(TRUE, FALSE, "load_test_data")>>),
   Flow("ensure_login", <<Does(TRUE, FALSE, "page"), Does(TRUE, TRUE, "page")>>),
   Flow("ensure_login", << >>),
   Flow("run_workflow", TwoSubs),
   Pages("url", Extract("extracted_data", 2), 2, 3),
   Pages("button", Extract("extracted_data", 1), 2, 5),
   OnePage, Pages("none", Extract("extracted_data", 1), 2, 5)}

MCBatches == {<< >>, <<"extracts", "reads">>, <<"agnostic", "writes">>, <<"reads", "foreign">>, <<"unknown">>}

\* Every flow step after a parallel step that is refused, and a short one after
\* tabs that may still be at work.
MCPlans == ({<< >>} \X MCFlowSteps) \cup (MCBatches \X {OnePage})
==============================================================================
