--------------------------- MODULE MCOpenLibrary ---------------------------
(***************************************************************************)
(* Four books, two of them too new, on two shelves whose pages show one    *)
(* book each and are turned twice at most; search pages of two entries,    *)
(* two pages at most.  The workflows ol_ensure_count.json and              *)
(* ol_search_and_add.json with smaller numbers: a list that is short of    *)
(* three books still has pages to turn.                                    *)
(***************************************************************************)
EXTENDS OpenLibrary

CONSTANTS b1, b2, b3, b4

MCBooks    == {b1, b2, b3, b4}
MCOld      == {b1, b2}
MCUnlinked == {b3, b4}
MCTarget   == 3

\* The two old books are linked, the others are not: nothing else tells the books
\* of a pair apart.
MCSymmetry == Permutations({b1, b2}) \cup Permutations({b3, b4})

Step(does, when, of, n) == [does |-> does, when |-> when, of |-> of, n |-> n]

\* The smoke test goes on after a failed step, but not after its login, and is here
\* from there on; steps that touch neither the shelves nor the context are left out.
MCWorkflows ==
  [ensure_count |->
     << Step("login", "always", "number", 0), Step("ensure", "always", "number", MCTarget),
        Step("collect", "gap", "gap", 0), Step("add", "collected", "number", 0),
        Step("assert", "gap", "number", MCTarget) >>,
   smoke_test |->
     << Step("store", "always", "number", 0), Step("collect", "always", "number", 1),
        Step("assert", "always", "delta", 0) >>,
   idempotency_test |->
     << Step("login", "always", "number", 0), Step("clear", "always", "number", 0),
        Step("collect", "always", "number", 1), Step("add", "always", "number", 0),
        Step("assert", "always", "number", 1),
        Step("collect", "always", "number", 1), Step("add", "always", "number", 0),
        Step("assert", "always", "number", 1) >>]
=============================================================================
