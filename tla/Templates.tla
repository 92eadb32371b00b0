----------------------------- MODULE Templates -----------------------------
(***************************************************************************)
(* `{{name}}' in a workflow, and the passes that replace it: the planner's *)
(* (engine/planner/planner.py), and the shared one of                      *)
(* engine/runner/interpolation.py that the runner, the sub-steps and the   *)
(* db domain use.  A string is a sequence of pieces, each a literal or a   *)
(* reference; a number is a value of its own type.                         *)
(***************************************************************************)
EXTENDS Naturals, Sequences, SequencesExt

Lit(t) == <<"lit", t>>
Ref(n) == <<"ref", n>>

\* What a text is made of, and what a templated field may hold.
Pieces == {"lit", "ref"} \X STRING
Values == [type : {"str", "int"}, text : Seq(Pieces)]

Str(pieces) == [type |-> "str", text |-> pieces]
Num(n)      == [type |-> "int", text |-> <<Lit(n)>>]

\* has_reference, on one string.
HasReference(value) == \E i \in DOMAIN value.text : value.text[i][1] = "ref"

\* A string that is one reference and nothing else keeps the type of what it
\* names; a reference inside a sentence becomes part of the sentence.
IsPure(value) == Len(value.text) = 1 /\ HasReference(value)

Named(value) == value.text[1][2]

Names(value) == {value.text[i][2] : i \in {j \in DOMAIN value.text : value.text[j][1] = "ref"}}

\* What replacing every reference that `known' answers makes of a text.
Replaced(text, known) ==
  FlattenSeq([i \in DOMAIN text |->
    IF text[i][1] = "ref" /\ text[i][2] \in DOMAIN known THEN known[text[i][2]].text
                                                         ELSE <<text[i]>>])

(***************************************************************************)
(* interpolation.resolve: one walk.  What a value brings in is not walked  *)
(* again, and every name that is not answered is reported.                 *)
(***************************************************************************)

Resolve(value, known) ==
  IF IsPure(value)
  THEN IF Named(value) \in DOMAIN known THEN known[Named(value)] ELSE value
  ELSE [value EXCEPT !.text = Replaced(@, known)]

\* Only a reference that is the whole string is reported.
MissingWhole(value, known) ==
  IF IsPure(value) THEN Names(value) \ DOMAIN known ELSE {}

Missing(value, known) == Names(value) \ DOMAIN known

(***************************************************************************)
(* planner._substitute: the variables are replaced one after another, in   *)
(* the order of their dict, so a value that holds a reference to a later   *)
(* one has it replaced too.  Names without a variable are left as they     *)
(* are.  `vars' is a sequence of <<name, value>>, no name twice.           *)
(***************************************************************************)

Bindings == Seq(STRING \X Values)

NamesOf(vars) == {vars[i][1] : i \in DOMAIN vars}

ValueIn(vars, name) == vars[CHOOSE i \in DOMAIN vars : vars[i][1] = name][2]

Alone(var) == [name \in {var[1]} |-> var[2]]

\* The text after each of the variables.
InTurn(text, vars) ==
  LET after[n \in 0..Len(vars)] ==
        IF n = 0 THEN text ELSE Replaced(after[n - 1], Alone(vars[n]))
  IN after[Len(vars)]

Substitute(value, vars) ==
  IF IsPure(value) /\ Named(value) \in NamesOf(vars)
  THEN ValueIn(vars, Named(value))
  ELSE [value EXCEPT !.text = InTurn(@, vars)]

\* A dict keeps the first place of a name and takes its last value.
Put(vars, var) ==
  IF var[1] \in NamesOf(vars)
  THEN [i \in DOMAIN vars |-> IF vars[i][1] = var[1] THEN var ELSE vars[i]]
  ELSE Append(vars, var)

\* {**defaults, **overrides}
Merged(defaults, overrides) ==
  LET merged[n \in 0..Len(overrides)] ==
        IF n = 0 THEN defaults ELSE Put(merged[n - 1], overrides[n])
  IN merged[Len(overrides)]
=============================================================================
