---------------------------- MODULE MCMacDomain ----------------------------
(* The steps and windows on which TLC checks MacDomain. *)
EXTENDS MacDomain

Is(label, at, drawn) == [label |-> label, at |-> at, drawn |-> drawn]

\* Nothing; a label hidden from pick and one it settles for; the element, once
\* in sight and once scrolled out of it.
MCContents ==
  { << >>, <<Is("exact", 0, FALSE), Is("contains", 1, TRUE)>>, <<Is("contains", 0, TRUE), Is("exact", 2, TRUE)>> }

Click ==
  [kind |-> "mac_click", valid |-> TRUE, confirm |-> FALSE, aim |-> "element", at |-> 1,
   match |-> "contains", app |-> TRUE, raise |-> TRUE, wait |-> 1, expect |-> {},
   patience |-> 1, odd |-> {}, tries |-> 1]

MCMacSteps ==
  { [Click EXCEPT !.tries = 2],
    [Click EXCEPT !.match = "exact", !.app = FALSE, !.expect = {"title"}],
    [Click EXCEPT !.match = "neither", !.raise = FALSE],
    [Click EXCEPT !.odd = {"wait_s"}],
    [Click EXCEPT !.aim = "window", !.expect = {"front_app", "element"}],
    [Click EXCEPT !.kind = "mac_drag", !.aim = "window", !.raise = FALSE],
    [Click EXCEPT !.kind = "mac_type", !.aim = "screen", !.expect = {"front_app"}, !.odd = {"timeout_s"}, !.tries = 2],
    [Click EXCEPT !.kind = "mac_keypress", !.aim = "screen", !.valid = FALSE],
    [Click EXCEPT !.kind = "mac_run_script", !.aim = "screen", !.expect = {"element"}],
    [Click EXCEPT !.kind = "mac_run_script", !.aim = "screen", !.confirm = TRUE, !.expect = {"element"}],
    [Click EXCEPT !.kind = "mac_screenshot", !.aim = "screen", !.expect = {"title"}],
    [Click EXCEPT !.aim = "screen", !.expect = {"title", "element"}] }
=============================================================================
