------------------------------- MODULE Guards -------------------------------
(***************************************************************************)
(* The `when' conditions of steps: the registry, its combinators and the   *)
(* core predicates (engine/runner/when_eval.py), the browser's             *)
(* (engine/browser/conditions.py) and the database's                       *)
(* (sites/db/conditions.py).                                               *)
(*                                                                         *)
(* A condition is a dict, which may hold others: here a tree, a function   *)
(* from addresses to nodes.  A node maps the names of predicates to their  *)
(* operands, and a combinator to how many conditions it holds; the i-th    *)
(* that `key' holds is one <<key, i>> further down.  An absent or empty    *)
(* condition is NoGuard.                                                   *)
(***************************************************************************)
EXTENDS Templates, FiniteSets

NoGuard == [a \in {<< >>} |-> << >>]

Combinators == {"not", "all", "any"}

\* A condition a domain registers, and the session it is asked of.
Entry(name, domain) == [name |-> name, domain |-> domain]

CoreConditions ==
  << Entry("context_equals", "none"), Entry("context_key_exists", "none"),
     Entry("context_greater_than", "none"), Entry("context_less_than", "none"),
     Entry("context_between", "none") >>

\* What each domain's registry adds to the core.
OwnConditions ==
  [web |-> << Entry("url_contains", "web"), Entry("element_exists", "web") >>,
   db  |-> << Entry("db_row_exists", "db") >>]

OwnOf(domain, domains) == IF domain \in domains THEN OwnConditions[domain] ELSE << >>

\* ConditionRegistry.extend, for each domain in the order of their names; a
\* domain without conditions of its own starts from the core.
ConditionsOf(domains) == CoreConditions \o OwnOf("db", domains) \o OwnOf("web", domains)

IsRegistered(key, registry) == \E i \in DOMAIN registry : registry[i].name = key

KeysOf(cond) == UNION {DOMAIN cond[a] : a \in DOMAIN cond}

\* unknown_keys: every key of the tree that nothing claims.
UnknownKeys(cond, registry) ==
  {key \in KeysOf(cond) \ Combinators : ~ IsRegistered(key, registry)}

\* The text fields of a condition, which the passes of Templates walk.
HasOperand(key) == key \notin Combinators \cup {"context_key_exists"}

Operands(cond) ==
  UNION {{cond[a][key].value : key \in {k \in DOMAIN cond[a] : HasOperand(k)}} : a \in DOMAIN cond}

\* The same tree with every operand replaced by what is `made' of it.
Rewritten(cond, made) ==
  [a \in DOMAIN cond |->
    [key \in DOMAIN cond[a] |->
      IF HasOperand(key) THEN [cond[a][key] EXCEPT !.value = made[@]] ELSE cond[a][key]]]

(***************************************************************************)
(* evaluate.  `read' is what the context answers; `answers' what the       *)
(* session of a domain condition says.  The result says "yes", "no" or     *)
(* "raises", and asks for the sessions of the domains it comes to.         *)
(***************************************************************************)

YesNo(b) == IF b THEN "yes" ELSE "no"

\* bool(context.get(name)): zero and the empty string do not count.
Truthy(value) == value # Num("0") /\ value # Str(<< >>)

\* The numbers the instances use, by their numeral.
NumeralValue == ("0" :> 0 @@ "1" :> 1 @@ "2" :> 2)

NumberOf(value) == NumeralValue[value.text[1][2]]

\* The numeric predicates: a missing value counts as 0, and a string cannot be
\* compared with a number.  The bound is `value', for a range its lower one.
Compares(name, spec, read) ==
  LET actual == IF spec.key \in DOMAIN read THEN read[spec.key] ELSE Num("0")
  IN IF "str" \in {actual.type, spec.value.type} THEN "raises"
     ELSE YesNo(CASE name = "context_greater_than" -> NumberOf(actual) > NumberOf(spec.value)
                  [] name = "context_less_than"    -> NumberOf(actual) < NumberOf(spec.value)
                  [] name = "context_between"      -> /\ NumberOf(spec.value) <= NumberOf(actual)
                                                      /\ NumberOf(actual) <= NumberOf(spec.max))

Core(name, spec, read) ==
  CASE name = "context_equals" -> YesNo(spec.key \in DOMAIN read /\ read[spec.key] = spec.value)
    [] name = "context_key_exists" -> YesNo(spec \in DOMAIN read /\ Truthy(read[spec]))
    [] OTHER -> Compares(name, spec, read)

\* The two of a page: an error skips the step in one, and escapes the other.
OfPage(name, answer) == IF name = "url_contains" THEN answer ELSE YesNo(answer = "yes")

\* An unresolved parameter answers no, and so does an error.
RowExists(spec, read, answer) == YesNo(Missing(spec.value, read) = {} /\ answer = "yes")

Leaf(entry, node, read, answers) ==
  LET spec == node[entry.name] IN
  CASE entry.domain = "none" -> Core(entry.name, spec, read)
    [] entry.domain = "web"  -> OfPage(entry.name, answers[entry.name])
    [] entry.domain = "db"   -> RowExists(spec, read, answers[entry.name])

\* The first registered key, in the order of the registry, decides alone.
Decides(i, node, registry) ==
  /\ registry[i].name \in DOMAIN node
  /\ \A j \in 1..(i - 1) : registry[j].name \notin DOMAIN node

Deciding(node, registry) == {i \in DOMAIN registry : Decides(i, node, registry)}

\* Then not, all, any; all and any stop at the first answer that settles them,
\* or at an error.
Combinator(node) ==
  IF "not" \in DOMAIN node THEN "not" ELSE IF "all" \in DOMAIN node THEN "all" ELSE "any"

Unsettled(key) == CASE key = "all" -> {"yes"} [] key = "any" -> {"no"} [] key = "not" -> {}

Opposite(says) == CASE says = "yes" -> "no" [] says = "no" -> "yes" [] says = "raises" -> "raises"

\* What every condition of the tree says.  A dict with no key it knows is an
\* error.
Says(cond, registry, read, answers) ==
  LET says[a \in DOMAIN cond] ==
        LET node     == cond[a]
            Sub(i)   == says[Append(a, <<Combinator(node), i>>)]
            Settling(key) == {i \in 1..node[key] : Sub(i) \notin Unsettled(key)}
            Result(key, otherwise) ==
              IF Settling(key) = {} THEN otherwise
              ELSE Sub(CHOOSE i \in Settling(key) : \A j \in Settling(key) : i <= j)
        IN IF DOMAIN node = {} THEN "yes"
           ELSE IF Deciding(node, registry) # {}
           THEN Leaf(registry[CHOOSE i \in Deciding(node, registry) : TRUE], node, read, answers)
           ELSE IF "not" \in DOMAIN node THEN Opposite(Sub(1))
           ELSE IF "all" \in DOMAIN node THEN Result("all", "yes")
           ELSE IF "any" \in DOMAIN node THEN Result("any", "no")
           ELSE "raises"
  IN says

\* The conditions the evaluation comes to: no registered key above decides
\* instead, and none before it on the way settled what holds it.
ComesTo(a, cond, registry, says) ==
  \A n \in 1..Len(a) :
    LET above == SubSeq(a, 1, n - 1)
        key   == a[n][1]
    IN /\ Deciding(cond[above], registry) = {} /\ key = Combinator(cond[above])
       /\ \A i \in 1..(a[n][2] - 1) : says[Append(above, <<key, i>>)] \in Unsettled(key)

\* The entries it consults on the way, and the sessions those ask for.
Consulted(cond, registry, says) ==
  UNION {Deciding(cond[a], registry) : a \in {b \in DOMAIN cond : ComesTo(b, cond, registry, says)}}

Asked(cond, registry, says) ==
  {registry[i].domain : i \in Consulted(cond, registry, says)} \ {"none"}

Evaluate(cond, registry, read, answers) ==
  LET says == Says(cond, registry, read, answers)
  IN [says |-> says[<< >>], asks |-> Asked(cond, registry, says)]
=============================================================================
