-------------------------- MODULE PlannedRunProofs --------------------------
(***************************************************************************)
(* Proofs about the planned run.  The lemmas come first: what the passes   *)
(* over a text make of it, what is done to lists, and what a step that     *)
(* holds steps looks like, before and after its references are resolved.   *)
(***************************************************************************)
EXTENDS PlannedRun, SequenceTheorems, FiniteSetTheorems, WellFoundedInduction, TLAPS

(***************************************************************************)
(* Functions defined step by step over an interval of numbers.             *)
(***************************************************************************)

\* A set of numbers that is not empty has a least one.
LEMMA LeastNumber ==
  ASSUME NEW T, T \subseteq Nat, NEW t \in T
  PROVE  \E least \in T : \A other \in T : least <= other
<1>1. \A x, y \in Nat : x < y => <<x, y>> \in OpToRel(<, Nat)
  BY Zenon DEF OpToRel
<1>2. PICK x \in T : \A y \in T : ~ (<<y, x>> \in OpToRel(<, Nat))
  BY NatLessThanWellFounded, WFMin, Zenon
<1>3. \A y \in T : ~ (y < x)
  BY <1>1, <1>2, Zenon
<1> QED
  BY <1>3

\* A function of the numbers from `first' on that is where it should be to
\* begin with, and stays there at every step, never leaves.
LEMMA StaysWithin ==
  ASSUME NEW first \in Nat, NEW last \in Nat, NEW S, NEW f,
         f[first] \in S,
         \A i \in (first + 1)..last : f[i - 1] \in S => f[i] \in S
  PROVE  \A i \in first..last : f[i] \in S
<1> DEFINE T == {i \in first..last : f[i] \notin S}
<1> SUFFICES ASSUME NEW i \in T PROVE FALSE
  OBVIOUS
<1>a. T \subseteq Nat
  OBVIOUS
<1>1. PICK least \in T : \A other \in T : least <= other
  <2> HIDE DEF T
  <2> QED
    BY <1>a, LeastNumber
<1>2. least # first /\ least \in (first + 1)..last /\ least - 1 \in first..last
  BY <1>1
<1>3. least - 1 \notin T
  BY <1>1, <1>2
<1> QED
  BY <1>1, <1>2, <1>3

\* A function of the numbers from `first' to `last' that starts at `start'
\* and goes on as the functions `step' say.
Follows(f, first, last, S, start, step) ==
  /\ f \in [first..last -> S] /\ f[first] = start
  /\ \A i \in (first + 1)..last : f[i] = step[i][f[i - 1]]

\* A function can be defined by its first value and its steps.
LEMMA StepByStep ==
  ASSUME NEW first \in Nat, NEW last \in Nat, first <= last,
         NEW S, NEW start \in S, NEW step,
         \A i \in (first + 1)..last : step[i] \in [S -> S]
  PROVE  \E f : Follows(f, first, last, S, start, step)
<1> USE DEF Follows
<1> DEFINE Upto(n, f) == Follows(f, first, n, S, start, step)
           T == {n \in first..last : ~ \E f : Upto(n, f)}
<1>1. SUFFICES ASSUME NEW n \in T PROVE FALSE
  OBVIOUS
<1>a. T \subseteq Nat
  OBVIOUS
<1>2. PICK least \in T : \A other \in T : least <= other
  <2> HIDE DEF T
  <2> QED
    BY <1>a, LeastNumber
<1>3. least # first
  <2> SUFFICES ASSUME least = first PROVE FALSE
    OBVIOUS
  <2>1. Upto(first, [i \in first..first |-> start])
    <3>1. (first + 1)..first = {} /\ first \in first..first
      OBVIOUS
    <3> QED
      BY <3>1
  <2> QED
    BY <2>1
<1>4. least - 1 \in first..last /\ least - 1 \notin T
  <2>1. least - 1 \in first..last
    BY <1>2, <1>3
  <2>2. least - 1 \in T => least <= least - 1
    <3> HIDE DEF T
    <3> QED
      BY <1>2
  <2>3. least \in first..last
    OBVIOUS
  <2> QED
    BY <2>1, <2>2, <2>3
<1>5. PICK f : Upto(least - 1, f)
  BY <1>4
<1> DEFINE g == [i \in first..least |-> IF i = least THEN step[least][f[least - 1]] ELSE f[i]]
<1>b. least \in first..last /\ least - 1 \in first..(least - 1)
  BY <1>2, <1>3
<1> HIDE DEF T
<1>6. \A i \in first..(least - 1) : g[i] = f[i] /\ g[i] \in S
  BY <1>b, <1>5
<1>7. g[least] = step[least][g[least - 1]] /\ g[least] \in S
  <2>1. f[least - 1] \in S /\ f[least - 1] = g[least - 1]
    BY <1>b, <1>5, <1>6
  <2>2. least \in (first + 1)..last
    BY <1>b, <1>3
  <2>3. step[least] \in [S -> S]
    BY <2>2
  <2>4. g[least] = step[least][f[least - 1]]
    BY <1>b
  <2> QED
    BY <2>1, <2>3, <2>4, Zenon
<1>8. g \in [first..least -> S]
  <2>1. \A i \in first..least : g[i] \in S
    <3> HIDE DEF g
    <3>1. \A i \in first..least : i = least \/ i \in first..(least - 1)
      BY <1>b
    <3> QED
      BY <3>1, <1>6, <1>7
  <2> QED
    BY <2>1
<1>9. g[first] = start /\ \A i \in (first + 1)..least : g[i] = step[i][g[i - 1]]
  <2> HIDE DEF g
  <2>1. g[first] = start
    BY <1>3, <1>5, <1>6, <1>b
  <2>2. ASSUME NEW i \in (first + 1)..least PROVE g[i] = step[i][g[i - 1]]
    <3>1. CASE i = least
      BY <3>1, <1>7
    <3>2. CASE i # least
      <4>1. i \in (first + 1)..(least - 1) /\ i \in first..(least - 1) /\ i - 1 \in first..(least - 1)
        BY <3>2, <1>b
      <4>2. f[i] = step[i][f[i - 1]]
        BY <1>5, <4>1
      <4> QED
        BY <4>1, <4>2, <1>6
    <3> QED
      BY <3>1, <3>2
  <2> QED
    BY <2>1, <2>2
<1>10. Upto(least, g)
  BY <1>8, <1>9
<1>11. least \notin T
  BY <1>b, <1>10 DEF T
<1> QED
  BY <1>2, <1>11

\* Flattening lists over a set gives a list over it.
LEMMA FlattenSeqType ==
  ASSUME NEW P, NEW seqs \in Seq(Seq(P))
  PROVE  FlattenSeq(seqs) \in Seq(P)
<1> DEFINE n == Len(seqs)
           F(g) == g = [i \in 1..n |-> IF i = 1 THEN seqs[i] ELSE g[i - 1] \o seqs[i]]
           step == [i \in 2..n |-> [s \in Seq(P) |-> s \o seqs[i]]]
           g    == CHOOSE f : F(f)
<1>1. n \in Nat /\ \A i \in 1..n : seqs[i] \in Seq(P)
  OBVIOUS
<1>2. CASE n = 0
  BY <1>2 DEF FlattenSeq
<1>3. CASE n # 0
  <2>1. step \in [2..n -> [Seq(P) -> Seq(P)]]
    BY <1>1
  <2>2. PICK f : Follows(f, 1, n, Seq(P), seqs[1], step)
    <3>1. 1 \in Nat /\ n \in Nat /\ 1 <= n /\ seqs[1] \in Seq(P)
      BY <1>1, <1>3
    <3>2. \A i \in (1 + 1)..n : step[i] \in [Seq(P) -> Seq(P)]
      BY <2>1
    <3> HIDE DEF step, n
    <3> QED
      BY <3>1, <3>2, StepByStep
  <2> USE DEF Follows
  <2>3. \A i \in 1..n : f[i] = IF i = 1 THEN seqs[i] ELSE f[i - 1] \o seqs[i]
    <3> SUFFICES ASSUME NEW i \in 1..n
                 PROVE  f[i] = IF i = 1 THEN seqs[i] ELSE f[i - 1] \o seqs[i]
      OBVIOUS
    <3>1. CASE i = 1
      BY <3>1, <2>2
    <3>2. CASE i # 1
      <4>1. i \in 2..n /\ i - 1 \in 1..n
        BY <3>2
      <4>2. step[i][f[i - 1]] = f[i - 1] \o seqs[i]
        BY <4>1, <2>2
      <4>3. f[i] = step[i][f[i - 1]]
        <5>1. i \in (1 + 1)..n
          BY <4>1
        <5> HIDE DEF step
        <5> QED
          BY <2>2, <5>1
      <4> QED
        BY <4>2, <4>3, <3>2
    <3> QED
      BY <3>1, <3>2
  <2>4. F(f)
    BY <2>2, <2>3
  <2>5. F(g)
    BY <2>4
  <2> HIDE DEF step
  <2>6. \A i \in 1..n : g[i] = IF i = 1 THEN seqs[i] ELSE g[i - 1] \o seqs[i]
    <3> HIDE DEF g
    <3> QED
      BY <2>5
  <2>7. g[1] \in Seq(P)
    <3> HIDE DEF g, n
    <3>1. 1 \in 1..n
      BY <1>1, <1>3
    <3> QED
      BY <2>6, <1>1, <3>1
  <2>8. \A i \in (1 + 1)..n : g[i - 1] \in Seq(P) => g[i] \in Seq(P)
    <3> HIDE DEF g
    <3> SUFFICES ASSUME NEW i \in (1 + 1)..n, g[i - 1] \in Seq(P) PROVE g[i] \in Seq(P)
      OBVIOUS
    <3>1. i \in 1..n /\ i # 1
      BY <1>1
    <3>2. g[i] = g[i - 1] \o seqs[i] /\ seqs[i] \in Seq(P)
      <4> HIDE DEF n
      <4> QED
        BY <2>6, <1>1, <3>1
    <3> QED
      BY <3>2
  <2>9. g[n] \in Seq(P)
    <3> HIDE DEF g, n
    <3>1. \A i \in 1..n : g[i] \in Seq(P)
      BY <1>1, <2>7, <2>8, StaysWithin
    <3> QED
      BY <3>1, <1>1, <1>3
  <2>10. FlattenSeq(seqs) = g[n]
    BY <1>3 DEF FlattenSeq
  <2> QED
    BY <2>9, <2>10
<1> QED
  BY <1>2, <1>3

(***************************************************************************)
(* Templates: what the passes make of a value.                             *)
(***************************************************************************)

\* A function over the places of a list is a list.
LEMMA MapType ==
  ASSUME NEW S, NEW T, NEW s \in Seq(S), NEW f \in [DOMAIN s -> T]
  PROVE  f \in Seq(T) /\ Len(f) = Len(s)
OBVIOUS

\* Replacing leaves the pieces that stand and brings in the pieces of what is
\* known.
LEMMA ReplacedType ==
  ASSUME NEW P, NEW text \in Seq(Pieces), NEW known,
         \A name \in DOMAIN known : known[name].text \in Seq(P),
         \A i \in DOMAIN text : text[i] \in P \/ (text[i][1] = "ref" /\ text[i][2] \in DOMAIN known)
  PROVE  Replaced(text, known) \in Seq(P)
<1> DEFINE parts == [i \in DOMAIN text |->
             IF text[i][1] = "ref" /\ text[i][2] \in DOMAIN known THEN known[text[i][2]].text
                                                                  ELSE <<text[i]>>]
<1>1. parts \in [DOMAIN text -> Seq(P)]
  <2> SUFFICES ASSUME NEW i \in DOMAIN text PROVE parts[i] \in Seq(P)
    OBVIOUS
  <2>1. CASE text[i][1] = "ref" /\ text[i][2] \in DOMAIN known
    BY <2>1
  <2>2. CASE ~ (text[i][1] = "ref" /\ text[i][2] \in DOMAIN known)
    BY <2>2
  <2> QED
    BY <2>1, <2>2
<1>2. parts \in Seq(Seq(P))
  <2> HIDE DEF parts
  <2> QED
    BY <1>1, MapType
<1>3. Replaced(text, known) = FlattenSeq(parts)
  BY DEF Replaced
<1> HIDE DEF parts
<1> QED
  BY <1>2, <1>3, FlattenSeqType

\* The text after each of the variables is a text.
LEMMA InTurnType ==
  ASSUME NEW text \in Seq(Pieces), NEW variables \in Bindings
  PROVE  InTurn(text, variables) \in Seq(Pieces)
<1> DEFINE n    == Len(variables)
           S    == Seq(Pieces)
           F(g) == g = [i \in 0..n |-> IF i = 0 THEN text ELSE Replaced(g[i - 1], Alone(variables[i]))]
           step == [i \in 1..n |-> [s \in S |-> Replaced(s, Alone(variables[i]))]]
           g    == CHOOSE f : F(f)
<1>1. n \in Nat /\ \A i \in 1..n : variables[i] \in STRING \X Values
  BY DEF Bindings
<1>2. ASSUME NEW i \in 1..n, NEW s \in S
      PROVE  Replaced(s, Alone(variables[i])) \in S
  <2>1. \A name \in DOMAIN Alone(variables[i]) : Alone(variables[i])[name].text \in Seq(Pieces)
    BY <1>1 DEF Alone, Values
  <2>2. \A j \in DOMAIN s : s[j] \in Pieces
    OBVIOUS
  <2> QED
    BY <2>1, <2>2, ReplacedType
<1>3. PICK f : Follows(f, 0, n, S, text, step)
  <2>1. \A i \in (0 + 1)..n : step[i] \in [S -> S]
    BY <1>2
  <2>2. 0 <= n /\ 0 \in Nat /\ text \in S
    BY <1>1
  <2> HIDE DEF step, n, S
  <2> QED
    BY <1>1, <2>1, <2>2, StepByStep
<1>4. F(f)
  <2>1. \A i \in 0..n : f[i] = IF i = 0 THEN text ELSE Replaced(f[i - 1], Alone(variables[i]))
    <3> SUFFICES ASSUME NEW i \in 0..n
                 PROVE  f[i] = IF i = 0 THEN text ELSE Replaced(f[i - 1], Alone(variables[i]))
      OBVIOUS
    <3>1. CASE i = 0
      BY <3>1, <1>3 DEF Follows
    <3>2. CASE i # 0
      <4>1. i \in (0 + 1)..n /\ i \in 1..n /\ i - 1 \in 0..n
        BY <3>2, <1>1
      <4>2. f[i] = step[i][f[i - 1]] /\ f[i - 1] \in S
        <5> HIDE DEF step
        <5> QED
          BY <1>3, <4>1 DEF Follows
      <4>3. step[i][f[i - 1]] = Replaced(f[i - 1], Alone(variables[i]))
        BY <4>1, <4>2
      <4> QED
        BY <3>2, <4>2, <4>3
    <3> QED
      BY <3>1, <3>2
  <2>2. f = [i \in 0..n |-> f[i]]
    BY <1>3 DEF Follows
  <2> QED
    BY <2>1, <2>2
<1>5. F(g)
  BY <1>4
<1>6. InTurn(text, variables) = g[n]
  BY DEF InTurn
<1> HIDE DEF g, step
<1>7. g[0] \in S /\ \A i \in (0 + 1)..n : g[i - 1] \in S => g[i] \in S
  <2>1. g[0] = text
    BY <1>5, <1>1
  <2>2. ASSUME NEW i \in (0 + 1)..n, g[i - 1] \in S PROVE g[i] \in S
    <3>1. i \in 1..n /\ g[i] = Replaced(g[i - 1], Alone(variables[i]))
      BY <1>5, <1>1
    <3> QED
      BY <1>2, <2>2, <3>1
  <2> QED
    BY <2>1, <2>2
<1>8. g[n] \in S
  <2> HIDE DEF n, S, F
  <2>1. \A i \in 0..n : g[i] \in S
    BY <1>1, <1>7, StaysWithin
  <2> QED
    BY <1>1, <2>1
<1> QED
  BY <1>6, <1>8
\* A variable in a dict is one of its values.
LEMMA ValueInType ==
  ASSUME NEW variables \in Bindings, NEW name \in NamesOf(variables)
  PROVE  ValueIn(variables, name) \in Values
<1>1. PICK i \in DOMAIN variables : variables[i][1] = name
  BY DEF NamesOf
<1> DEFINE j == CHOOSE k \in DOMAIN variables : variables[k][1] = name
<1>2. j \in DOMAIN variables
  BY <1>1
<1> HIDE DEF j
<1>3. variables[j] \in STRING \X Values
  BY <1>2 DEF Bindings
<1> QED
  BY <1>3 DEF ValueIn, j

\* Substituting keeps the kind of a value.
LEMMA SubstituteType ==
  ASSUME NEW value \in Values, NEW variables \in Bindings
  PROVE  Substitute(value, variables) \in Values
<1>1. CASE IsPure(value) /\ Named(value) \in NamesOf(variables)
  BY <1>1, ValueInType DEF Substitute
<1>2. CASE ~ (IsPure(value) /\ Named(value) \in NamesOf(variables))
  <2>1. value.text \in Seq(Pieces) /\ DOMAIN value = {"type", "text"}
    BY DEF Values
  <2>2. InTurn(value.text, variables) \in Seq(Pieces)
    BY <2>1, InTurnType
  <2>3. Substitute(value, variables) = [value EXCEPT !.text = InTurn(value.text, variables)]
    BY <1>2 DEF Substitute
  <2> HIDE DEF Substitute
  <2> QED
    BY <2>1, <2>2, <2>3 DEF Values
<1> QED
  BY <1>1, <1>2

\* Putting a variable into a dict gives a dict.
LEMMA PutType ==
  ASSUME NEW variables \in Bindings, NEW var \in STRING \X Values
  PROVE  Put(variables, var) \in Bindings
<1>1. CASE var[1] \in NamesOf(variables)
  <2>1. Put(variables, var) \in [DOMAIN variables -> STRING \X Values]
    BY <1>1 DEF Put, Bindings
  <2> QED
    BY <2>1, MapType DEF Bindings
<1>2. CASE var[1] \notin NamesOf(variables)
  BY <1>2 DEF Put, Bindings
<1> QED
  BY <1>1, <1>2

\* So does merging two.
LEMMA MergedType ==
  ASSUME NEW defaults \in Bindings, NEW overrides \in Bindings
  PROVE  Merged(defaults, overrides) \in Bindings
<1> DEFINE n    == Len(overrides)
           S    == Bindings
           F(g) == g = [i \in 0..n |-> IF i = 0 THEN defaults ELSE Put(g[i - 1], overrides[i])]
           step == [i \in 1..n |-> [s \in S |-> Put(s, overrides[i])]]
           g    == CHOOSE f : F(f)
<1>1. n \in Nat /\ \A i \in 1..n : overrides[i] \in STRING \X Values
  BY DEF Bindings
<1>2. ASSUME NEW i \in 1..n, NEW s \in S
      PROVE  Put(s, overrides[i]) \in S
  BY <1>1, PutType
<1>3. PICK f : Follows(f, 0, n, S, defaults, step)
  <2>1. \A i \in (0 + 1)..n : step[i] \in [S -> S]
    BY <1>2
  <2>2. 0 <= n /\ 0 \in Nat /\ defaults \in S
    BY <1>1
  <2> HIDE DEF step, n, S
  <2> QED
    BY <1>1, <2>1, <2>2, StepByStep
<1>4. F(f)
  <2>1. \A i \in 0..n : f[i] = IF i = 0 THEN defaults ELSE Put(f[i - 1], overrides[i])
    <3> SUFFICES ASSUME NEW i \in 0..n
                 PROVE  f[i] = IF i = 0 THEN defaults ELSE Put(f[i - 1], overrides[i])
      OBVIOUS
    <3>1. CASE i = 0
      BY <3>1, <1>3 DEF Follows
    <3>2. CASE i # 0
      <4>1. i \in (0 + 1)..n /\ i \in 1..n /\ i - 1 \in 0..n
        BY <3>2, <1>1
      <4>2. f[i] = step[i][f[i - 1]] /\ f[i - 1] \in S
        <5> HIDE DEF step
        <5> QED
          BY <1>3, <4>1 DEF Follows
      <4>3. step[i][f[i - 1]] = Put(f[i - 1], overrides[i])
        BY <4>1, <4>2
      <4> QED
        BY <3>2, <4>2, <4>3
    <3> QED
      BY <3>1, <3>2
  <2>2. f = [i \in 0..n |-> f[i]]
    BY <1>3 DEF Follows
  <2> QED
    BY <2>1, <2>2
<1>5. F(g)
  BY <1>4
<1>6. Merged(defaults, overrides) = g[n]
  BY DEF Merged
<1> HIDE DEF g, step
<1>7. g[0] \in S /\ \A i \in (0 + 1)..n : g[i - 1] \in S => g[i] \in S
  <2>1. g[0] = defaults
    BY <1>5, <1>1
  <2>2. ASSUME NEW i \in (0 + 1)..n, g[i - 1] \in S PROVE g[i] \in S
    <3>1. i \in 1..n /\ g[i] = Put(g[i - 1], overrides[i])
      BY <1>5, <1>1
    <3> QED
      BY <1>2, <2>2, <3>1
  <2> QED
    BY <2>1, <2>2
<1>8. g[n] \in S
  <2> HIDE DEF n, S, F
  <2>1. \A i \in 0..n : g[i] \in S
    BY <1>1, <1>7, StaysWithin
  <2> QED
    BY <1>1, <2>1
<1> QED
  BY <1>6, <1>8

\* A value that is nothing but a reference has that one name.
LEMMA PureNames ==
  ASSUME NEW value \in Values, IsPure(value)
  PROVE  Names(value) = {Named(value)}
<1>1. DOMAIN value.text = {1} /\ value.text[1][1] = "ref"
  <2>1. value.text \in Seq(Pieces) /\ Len(value.text) = 1
    BY DEF Values, IsPure
  <2>2. DOMAIN value.text = {1}
    BY <2>1
  <2> QED
    BY <2>2 DEF IsPure, HasReference
<1> QED
  BY <1>1 DEF Names, Named

\* Resolving keeps the kind of a value.
LEMMA ResolveType ==
  ASSUME NEW value \in Values, NEW known, \A name \in DOMAIN known : known[name] \in Values
  PROVE  Resolve(value, known) \in Values
<1>1. CASE IsPure(value)
  BY <1>1 DEF Resolve
<1>2. CASE ~ IsPure(value)
  <2>1. value.text \in Seq(Pieces) /\ DOMAIN value = {"type", "text"}
    BY DEF Values
  <2>2. \A name \in DOMAIN known : known[name].text \in Seq(Pieces)
    BY DEF Values
  <2>3. \A i \in DOMAIN value.text : value.text[i] \in Pieces
    BY <2>1
  <2>4. Replaced(value.text, known) \in Seq(Pieces)
    BY <2>1, <2>2, <2>3, ReplacedType
  <2>5. Resolve(value, known) = [value EXCEPT !.text = Replaced(value.text, known)]
    BY <1>2 DEF Resolve
  <2> HIDE DEF Resolve
  <2> QED
    BY <2>1, <2>4, <2>5 DEF Values
<1> QED
  BY <1>1, <1>2

\* Pieces that refer to no name outside a set.
Within(names) == {piece \in Pieces : piece[1] = "ref" => piece[2] \in names}

LEMMA NamesWithin ==
  ASSUME NEW value, NEW names, value.text \in Seq(Pieces)
  PROVE  Names(value) \subseteq names <=> value.text \in Seq(Within(names))
<1>1. ASSUME Names(value) \subseteq names PROVE value.text \in Seq(Within(names))
  <2>1. \A i \in DOMAIN value.text : value.text[i] \in Within(names)
    BY <1>1 DEF Names, Within
  <2>2. value.text \in [DOMAIN value.text -> Within(names)]
    BY <2>1
  <2> QED
    BY <2>2, MapType
<1>2. ASSUME value.text \in Seq(Within(names)) PROVE Names(value) \subseteq names
  <2>1. \A i \in DOMAIN value.text : value.text[i] \in Within(names)
    BY <1>2
  <2> QED
    BY <2>1 DEF Names, Within
<1> QED
  BY <1>1, <1>2

\* A value with every reference answered refers to nothing but what the
\* answers refer to.
LEMMA ResolveClean ==
  ASSUME NEW value \in Values, NEW known, NEW names,
         \A name \in DOMAIN known : known[name] \in Values /\ Names(known[name]) \subseteq names,
         Missing(value, known) = {}
  PROVE  Names(Resolve(value, known)) \subseteq names
<1>1. Names(value) \subseteq DOMAIN known
  BY DEF Missing
<1>2. CASE IsPure(value)
  BY <1>1, <1>2, PureNames DEF Resolve
<1>3. CASE ~ IsPure(value)
  <2>1. value.text \in Seq(Pieces) /\ DOMAIN value = {"type", "text"}
    BY DEF Values
  <2>2. \A name \in DOMAIN known : known[name].text \in Seq(Within(names))
    <3> SUFFICES ASSUME NEW name \in DOMAIN known PROVE known[name].text \in Seq(Within(names))
      OBVIOUS
    <3>1. known[name].text \in Seq(Pieces)
      BY DEF Values
    <3> QED
      BY <3>1, NamesWithin
  <2>3. \A i \in DOMAIN value.text :
          value.text[i] \in Within(names) \/ (value.text[i][1] = "ref" /\ value.text[i][2] \in DOMAIN known)
    <3> SUFFICES ASSUME NEW i \in DOMAIN value.text, value.text[i] \notin Within(names)
                 PROVE  value.text[i][1] = "ref" /\ value.text[i][2] \in DOMAIN known
      OBVIOUS
    <3>1. value.text[i] \in Pieces
      BY <2>1
    <3>2. value.text[i][1] = "ref"
      BY <3>1 DEF Within
    <3>3. value.text[i][2] \in Names(value)
      BY <3>2 DEF Names
    <3> QED
      BY <1>1, <3>2, <3>3
  <2>4. Replaced(value.text, known) \in Seq(Within(names))
    BY <2>1, <2>2, <2>3, ReplacedType
  <2>5. Resolve(value, known) = [value EXCEPT !.text = Replaced(value.text, known)]
    BY <1>3 DEF Resolve
  <2>6. Resolve(value, known).text = Replaced(value.text, known)
    BY <2>1, <2>5
  <2>7. Resolve(value, known).text \in Seq(Pieces)
    BY ResolveType DEF Values
  <2> QED
    BY <2>4, <2>6, <2>7, NamesWithin
<1> QED
  BY <1>2, <1>3

(***************************************************************************)
(* Lists of steps.                                                         *)
(***************************************************************************)

\* A sequence over any set is a list, and a list has the places 1 to its length.
LEMMA ListIsSeq ==
  ASSUME NEW S, NEW s \in Seq(S)
  PROVE  IsList(s)
<1>1. s \in [DOMAIN s -> {s[i] : i \in DOMAIN s}]
  OBVIOUS
<1> QED
  BY <1>1, MapType DEF IsList

LEMMA ListPlaces ==
  ASSUME NEW s, IsList(s)
  PROVE  Len(s) \in Nat /\ DOMAIN s = 1..Len(s) /\ s \in [1..Len(s) -> {s[i] : i \in DOMAIN s}]
BY DEF IsList

\* A function over the places of a list is a list.
LEMMA ListMap ==
  ASSUME NEW s, IsList(s), NEW T, NEW f \in [DOMAIN s -> T]
  PROVE  IsList(f) /\ Len(f) = Len(s)
<1>1. f \in Seq(T) /\ Len(f) = Len(s)
  BY MapType DEF IsList
<1> QED
  BY <1>1, ListIsSeq

\* What is in a longer, a shorter and a joined list.
LEMMA ListAppend ==
  ASSUME NEW s, IsList(s), NEW x
  PROVE  /\ IsList(Append(s, x)) /\ Len(Append(s, x)) = Len(s) + 1
         /\ \A i \in DOMAIN Append(s, x) :
              \/ i \in DOMAIN s /\ Append(s, x)[i] = s[i]
              \/ i = Len(s) + 1 /\ Append(s, x)[i] = x
<1> DEFINE S == {s[i] : i \in DOMAIN s} \cup {x}
<1>1. s \in Seq({s[i] : i \in DOMAIN s})
  BY DEF IsList
<1>2. s \in Seq(S) /\ x \in S
  BY <1>1, SeqMonotonic
<1> HIDE DEF S
<1>3. Append(s, x) \in Seq(S) /\ Len(Append(s, x)) = Len(s) + 1 /\ Len(s) \in Nat
  BY <1>2
<1>4. \A i \in 1..(Len(s) + 1) : Append(s, x)[i] = IF i <= Len(s) THEN s[i] ELSE x
  BY <1>2
<1>5. DOMAIN s = 1..Len(s) /\ DOMAIN Append(s, x) = 1..(Len(s) + 1)
  BY <1>2, <1>3
<1>6. IsList(Append(s, x))
  BY <1>3, ListIsSeq
<1> QED
  BY <1>3, <1>4, <1>5, <1>6

LEMMA ListTail ==
  ASSUME NEW s, IsList(s), s # << >>
  PROVE  /\ IsList(Tail(s))
         /\ \A i \in DOMAIN Tail(s) : i + 1 \in DOMAIN s /\ Tail(s)[i] = s[i + 1]
         /\ 1 \in DOMAIN s /\ Head(s) = s[1]
<1> DEFINE S == {s[i] : i \in DOMAIN s}
<1>1. s \in Seq(S)
  BY DEF IsList
<1> HIDE DEF S
<1>2. Tail(s) \in Seq(S) /\ Len(Tail(s)) = Len(s) - 1
  BY <1>1
<1>3. IsList(Tail(s))
  BY <1>2, ListIsSeq
<1>4. DOMAIN s = 1..Len(s) /\ DOMAIN Tail(s) = 1..(Len(s) - 1) /\ Len(s) \in Nat \ {0}
  BY <1>1, <1>2
<1>5. \A i \in 1..(Len(s) - 1) : Tail(s)[i] = s[i + 1]
  BY <1>1
<1> QED
  BY <1>1, <1>3, <1>4, <1>5

LEMMA ListConcat ==
  ASSUME NEW s, IsList(s), NEW t, IsList(t)
  PROVE  /\ IsList(s \o t)
         /\ \A i \in DOMAIN (s \o t) :
              \/ i \in DOMAIN s /\ (s \o t)[i] = s[i]
              \/ \E j \in DOMAIN t : (s \o t)[i] = t[j]
<1> DEFINE S == {s[i] : i \in DOMAIN s} \cup {t[i] : i \in DOMAIN t}
<1>1. s \in Seq({s[i] : i \in DOMAIN s}) /\ t \in Seq({t[i] : i \in DOMAIN t})
  BY DEF IsList
<1>2. s \in Seq(S) /\ t \in Seq(S)
  BY <1>1, SeqMonotonic
<1> HIDE DEF S
<1>3. s \o t \in Seq(S) /\ Len(s \o t) = Len(s) + Len(t)
  BY <1>2
<1>4. \A i \in 1..(Len(s) + Len(t)) : (s \o t)[i] = IF i <= Len(s) THEN s[i] ELSE t[i - Len(s)]
  BY <1>2
<1>5. DOMAIN (s \o t) = 1..(Len(s) + Len(t)) /\ DOMAIN s = 1..Len(s) /\ DOMAIN t = 1..Len(t)
      /\ Len(s) \in Nat /\ Len(t) \in Nat
  BY <1>2, <1>3
<1>6. \A i \in 1..(Len(s) + Len(t)) : i > Len(s) => i - Len(s) \in 1..Len(t)
  BY <1>5
<1>7. \A i \in 1..(Len(s) + Len(t)) : i <= Len(s) => i \in 1..Len(s)
  BY <1>5
<1>8. IsList(s \o t)
  BY <1>3, ListIsSeq
<1>9. ASSUME NEW i \in DOMAIN (s \o t)
      PROVE  \/ i \in DOMAIN s /\ (s \o t)[i] = s[i]
             \/ \E j \in DOMAIN t : (s \o t)[i] = t[j]
  <2>1. i \in 1..(Len(s) + Len(t)) /\ (i <= Len(s) \/ i > Len(s))
    BY <1>5, <1>9
  <2> QED
    BY <2>1, <1>4, <1>5, <1>6, <1>7
<1> QED
  BY <1>8, <1>9

\* The last of a list replaced, and the last but one with the last gone.
LEMMA ListExcept ==
  ASSUME NEW s, IsList(s), s # << >>, NEW x
  PROVE  /\ IsList([s EXCEPT ![Len(s)] = x]) /\ [s EXCEPT ![Len(s)] = x] # << >>
         /\ DOMAIN [s EXCEPT ![Len(s)] = x] = DOMAIN s
         /\ Len([s EXCEPT ![Len(s)] = x]) = Len(s) /\ Len(s) \in DOMAIN s
         /\ \A i \in DOMAIN s : [s EXCEPT ![Len(s)] = x][i] = IF i = Len(s) THEN x ELSE s[i]
<1> DEFINE S == {s[i] : i \in DOMAIN s} \cup {x}
<1>1. s \in Seq({s[i] : i \in DOMAIN s})
  BY DEF IsList
<1>2. s \in Seq(S) /\ x \in S
  BY <1>1, SeqMonotonic
<1> HIDE DEF S
<1>3. Len(s) \in 1..Len(s) /\ DOMAIN s = 1..Len(s)
  BY <1>2
<1>4. [s EXCEPT ![Len(s)] = x] \in Seq(S) /\ Len([s EXCEPT ![Len(s)] = x]) = Len(s)
  BY <1>2, <1>3, ExceptSeq
<1>5. IsList([s EXCEPT ![Len(s)] = x])
  BY <1>4, ListIsSeq
<1>6. DOMAIN [s EXCEPT ![Len(s)] = x] = DOMAIN s /\ [s EXCEPT ![Len(s)] = x] # << >>
  BY <1>3
<1>7. \A i \in DOMAIN s : [s EXCEPT ![Len(s)] = x][i] = IF i = Len(s) THEN x ELSE s[i]
  BY <1>3
<1> QED
  BY <1>3, <1>4, <1>5, <1>6, <1>7

Returned(s, x) == Append(SubSeq(s, 1, Len(s) - 2), x)

LEMMA ListReturn ==
  ASSUME NEW s, IsList(s), Len(s) > 1, NEW x, NEW t, t = Returned(s, x)
  PROVE  /\ IsList(t) /\ t # << >> /\ Len(t) = Len(s) - 1
         /\ \A i \in DOMAIN t : i \in DOMAIN s /\ t[i] = IF i = Len(s) - 1 THEN x ELSE s[i]
         /\ Len(s) \in DOMAIN s /\ Len(s) - 1 \in DOMAIN s
<1> DEFINE S == {s[i] : i \in DOMAIN s} \cup {x}
<1>1. s \in Seq({s[i] : i \in DOMAIN s})
  BY DEF IsList
<1>2. s \in Seq(S) /\ x \in S
  BY <1>1, SeqMonotonic
<1> HIDE DEF S
<1>3. Len(s) \in Nat /\ DOMAIN s = 1..Len(s)
  BY <1>2
<1> DEFINE front == SubSeq(s, 1, Len(s) - 2)
<1>4. front \in Seq(S) /\ Len(front) = Len(s) - 2 /\ \A i \in 1..(Len(s) - 2) : front[i] = s[i]
  BY <1>2, <1>3
<1>5. t = Append(front, x)
  BY DEF Returned
<1> HIDE DEF front
<1>6. t \in Seq(S) /\ Len(t) = Len(s) - 1
  <2>1. Append(front, x) \in Seq(S) /\ Len(Append(front, x)) = Len(front) + 1
    BY <1>2, <1>4
  <2> QED
    BY <2>1, <1>3, <1>4, <1>5
<1>7. DOMAIN t = 1..(Len(s) - 1)
  BY <1>6
<1>8. \A i \in 1..(Len(s) - 1) : t[i] = IF i = Len(s) - 1 THEN x ELSE s[i]
  <2> SUFFICES ASSUME NEW i \in 1..(Len(s) - 1)
               PROVE  t[i] = IF i = Len(s) - 1 THEN x ELSE s[i]
    OBVIOUS
  <2>1. t[i] = IF i <= Len(front) THEN front[i] ELSE x
    <3>1. Len(front) \in Nat /\ i \in 1..(Len(front) + 1)
      BY <1>3, <1>4
    <3>2. \A j \in 1..Len(front) : Append(front, x)[j] = front[j]
      BY <1>2, <1>4
    <3>3. Append(front, x)[Len(front) + 1] = x
      BY <1>2, <1>4
    <3> QED
      BY <1>5, <3>1, <3>2, <3>3
  <2>2. i <= Len(front) => i \in 1..(Len(s) - 2) /\ i # Len(s) - 1
    <3>1. Len(front) = Len(s) - 2 /\ Len(s) \in Nat /\ i \in Nat /\ 1 <= i
      BY <1>3, <1>4
    <3> QED
      BY <3>1
  <2>3. ~ (i <= Len(front)) => i = Len(s) - 1
    <3>1. Len(front) = Len(s) - 2 /\ Len(s) \in Nat /\ i \in Nat /\ i <= Len(s) - 1
      BY <1>3, <1>4
    <3> QED
      BY <3>1
  <2> QED
    BY <1>4, <2>1, <2>2, <2>3
<1>9. IsList(t)
  BY <1>6, ListIsSeq
<1>10. t # << >> /\ Len(s) \in DOMAIN s /\ Len(s) - 1 \in DOMAIN s
  BY <1>3, <1>6
<1>11. \A i \in DOMAIN t : i \in DOMAIN s
  BY <1>3, <1>7
<1> QED
  BY <1>6, <1>7, <1>8, <1>9, <1>10, <1>11

(***************************************************************************)
(* The passes over a step.                                                 *)
(***************************************************************************)

\* What one value of each variable becomes leaves a dict a dict.
LEMMA BindingsMap ==
  ASSUME NEW variables \in Bindings, NEW made,
         \A i \in DOMAIN variables : made[i] \in Values
  PROVE  [i \in DOMAIN variables |-> <<variables[i][1], made[i]>>] \in Bindings
<1>1. \A i \in DOMAIN variables : variables[i][1] \in STRING
  BY DEF Bindings
<1>2. [i \in DOMAIN variables |-> <<variables[i][1], made[i]>>] \in [DOMAIN variables -> STRING \X Values]
  BY <1>1
<1> QED
  BY <1>2, MapType DEF Bindings

LEMMA SubstituteNodeType ==
  ASSUME NEW node, IsNode(node), NEW variables \in Bindings
  PROVE  IsNode(SubstituteNode(node, variables))
<1> DEFINE made == [i \in DOMAIN node.vars |-> Substitute(node.vars[i][2], variables)]
           sets == [i \in DOMAIN node.vars |-> <<node.vars[i][1], Substitute(node.vars[i][2], variables)>>]
           cond == Rewritten(node.when, [v \in Operands(node.when) |-> Substitute(v, variables)])
           new  == [node EXCEPT !.param = Substitute(node.param, variables), !.vars = sets, !.when = cond]
<1>1. \A i \in DOMAIN node.vars : made[i] \in Values
  BY SubstituteType DEF IsNode, Bindings
<1>2. sets \in Bindings
  <2>1. sets = [i \in DOMAIN node.vars |-> <<node.vars[i][1], made[i]>>]
    OBVIOUS
  <2> HIDE DEF made, sets
  <2> QED
    BY <1>1, <2>1, BindingsMap DEF IsNode
<1>3. Substitute(node.param, variables) \in Values
  BY SubstituteType DEF IsNode
<1>4. SubstituteNode(node, variables) = new
  BY DEF SubstituteNode
<1> HIDE DEF sets, cond
<1>5. DOMAIN new = NodeFields /\ new.param = Substitute(node.param, variables) /\ new.vars = sets
  BY DEF IsNode, NodeFields
<1> QED
  BY <1>2, <1>3, <1>4, <1>5 DEF IsNode

\* Resolving leaves everything of a node but its templates, and rewrites its
\* condition under the same keys.
LEMMA ResolveNodeType ==
  ASSUME NEW node, IsNode(node), NEW known, \A name \in DOMAIN known : known[name] \in Values
  PROVE  /\ IsNode(ResolveNode(node, known))
         /\ ResolveNode(node, known).action = node.action
         /\ ResolveNode(node, known).described = node.described
         /\ ResolveNode(node, known).shape = node.shape
         /\ \A registry : UnknownKeys(ResolveNode(node, known).when, registry)
                            = UnknownKeys(node.when, registry)
<1> DEFINE made == [i \in DOMAIN node.vars |-> Resolve(node.vars[i][2], known)]
           sets == [i \in DOMAIN node.vars |-> <<node.vars[i][1], Resolve(node.vars[i][2], known)>>]
           say  == [v \in Operands(node.when) |-> Resolve(v, known)]
           cond == Rewritten(node.when, say)
           new  == [node EXCEPT !.param = Resolve(node.param, known), !.vars = sets, !.when = cond]
<1>1. \A i \in DOMAIN node.vars : made[i] \in Values
  BY ResolveType DEF IsNode, Bindings
<1>2. sets \in Bindings
  <2>1. sets = [i \in DOMAIN node.vars |-> <<node.vars[i][1], made[i]>>]
    OBVIOUS
  <2> HIDE DEF made, sets
  <2> QED
    BY <1>1, <2>1, BindingsMap DEF IsNode
<1>3. Resolve(node.param, known) \in Values
  BY ResolveType DEF IsNode
<1>4. ResolveNode(node, known) = new
  BY DEF ResolveNode
<1> HIDE DEF sets, say
<1>5. KeysOf(cond) = KeysOf(node.when)
  BY DEF KeysOf, Rewritten
<1> HIDE DEF cond
<1>6. /\ DOMAIN new = NodeFields /\ new.param = Resolve(node.param, known) /\ new.vars = sets
      /\ new.action = node.action /\ new.described = node.described /\ new.shape = node.shape
      /\ new.when = cond
  BY DEF IsNode, NodeFields
<1> QED
  BY <1>2, <1>3, <1>4, <1>5, <1>6 DEF IsNode, UnknownKeys

LEMMA SubstituteStepType ==
  ASSUME NEW step, IsStep(step), NEW variables \in Bindings
  PROVE  IsStep(SubstituteStep(step, variables))
BY SubstituteNodeType DEF IsStep, SubstituteStep

LEMMA SubstituteAllType ==
  ASSUME NEW steps, AreSteps(steps), NEW variables \in Bindings
  PROVE  AreSteps(SubstituteAll(steps, variables))
<1> DEFINE new == SubstituteAll(steps, variables)
<1>1. new \in [DOMAIN steps -> {new[i] : i \in DOMAIN steps}]
  BY DEF SubstituteAll
<1>2. \A i \in DOMAIN steps : new[i] = SubstituteStep(steps[i], variables)
  BY DEF SubstituteAll
<1> HIDE DEF new
<1>3. IsList(new)
  BY <1>1, ListMap DEF AreSteps
<1>4. \A i \in DOMAIN steps : IsStep(new[i])
  BY <1>2, SubstituteStepType DEF AreSteps
<1> QED
  BY <1>1, <1>3, <1>4 DEF AreSteps, new

\* Resolving a step leaves its shape, its actions and what its conditions name.
LEMMA ResolveStepType ==
  ASSUME NEW step, IsStep(step), NEW registry,
         NEW known, \A name \in DOMAIN known : known[name] \in Values
  PROVE  /\ IsStep(ResolveStep(step, known))
         /\ DomainsWithin(ResolveStep(step, known)) = DomainsWithin(step)
         /\ IsSound(step, registry) => IsSound(ResolveStep(step, known), registry)
         /\ UnknownKeys(Own(ResolveStep(step, known)).when, registry)
              = UnknownKeys(Own(step).when, registry)
<1> DEFINE new == ResolveStep(step, known)
<1>1. DOMAIN new = DOMAIN step /\ \A a \in DOMAIN step : new[a] = ResolveNode(step[a], known)
  BY DEF ResolveStep
<1>2. ASSUME NEW a \in DOMAIN step
      PROVE  /\ IsNode(new[a])
             /\ new[a].action = step[a].action /\ new[a].described = step[a].described
             /\ new[a].shape = step[a].shape
             /\ UnknownKeys(new[a].when, registry) = UnknownKeys(step[a].when, registry)
  <2> HIDE DEF new
  <2>1. IsNode(step[a])
    BY DEF IsStep
  <2>2. new[a] = ResolveNode(step[a], known)
    BY <1>1
  <2> QED
    BY <2>1, <2>2, ResolveNodeType
<1> HIDE DEF new
<1>3. IsStep(new)
  BY <1>1, <1>2 DEF IsStep
<1>4. << >> \in DOMAIN step /\ \A a \in DOMAIN step : \A n \in 0..Len(a) : SubSeq(a, 1, n) \in DOMAIN step
  BY DEF IsStep
<1>5. Kept(new) = Kept(step) /\ Kept(step) \subseteq DOMAIN step
  BY <1>1, <1>2, <1>4 DEF Kept, KeepsBody, Own
<1>6. DomainsWithin(new) = DomainsWithin(step)
  BY <1>2, <1>5 DEF DomainsWithin
<1>7. ASSUME NEW a \in DOMAIN step, IsExamined(a, new), a \in Seq(Nat) PROVE IsExamined(a, step)
  <2> SUFFICES ASSUME NEW n \in 0..(Len(a) - 1)
               PROVE  /\ Dispatches(step[SubSeq(a, 1, n)].action)
                      /\ IF n = 0 THEN KeepsBody(step[SubSeq(a, 1, n)]) ELSE BodyOf(step[SubSeq(a, 1, n)])
    BY DEF IsExamined
  <2>1. SubSeq(a, 1, n) \in DOMAIN step
    BY <1>4, <1>7
  <2> HIDE DEF new
  <2>2. /\ Dispatches(new[SubSeq(a, 1, n)].action)
        /\ IF n = 0 THEN KeepsBody(new[SubSeq(a, 1, n)]) ELSE BodyOf(new[SubSeq(a, 1, n)])
    BY <1>7 DEF IsExamined
  <2> QED
    BY <1>2, <2>1, <2>2 DEF KeepsBody, BodyOf
<1>8. DOMAIN step \subseteq Seq(Nat)
  BY DEF IsStep
<1>9. ASSUME IsSound(step, registry) PROVE IsSound(new, registry)
  <2>1. \A a \in DOMAIN new : IsExamined(a, new) => Known(new[a].action) /\ new[a].described
    <3> SUFFICES ASSUME NEW a \in DOMAIN step, IsExamined(a, new)
                 PROVE  Known(new[a].action) /\ new[a].described
      BY <1>1
    <3>1. Known(step[a].action) /\ step[a].described
      BY <1>7, <1>8, <1>9 DEF IsSound
    <3>2. new[a].action = step[a].action /\ new[a].described = step[a].described
      BY <1>2
    <3>3. Known(new[a].action)
      BY <3>1, <3>2
    <3>4. new[a].described
      BY <3>1, <3>2, Zenon
    <3> QED
      BY <3>3, <3>4
  <2>2. WhensWithin(new, registry) = WhensWithin(step, registry)
    BY <1>2, <1>5 DEF WhensWithin
  <2> QED
    BY <2>1, <2>2, <1>9 DEF IsSound
<1> QED
  BY <1>2, <1>3, <1>4, <1>6, <1>9 DEF new, Own

(***************************************************************************)
(* A step and the steps it holds.                                          *)
(***************************************************************************)

LEMMA Deeper ==
  ASSUME NEW i \in Nat, NEW b \in Seq(Nat)
  PROVE  /\ <<i>> \o b \in Seq(Nat) /\ <<i>> \o b # << >>
         /\ Head(<<i>> \o b) = i /\ Tail(<<i>> \o b) = b /\ Len(<<i>> \o b) = Len(b) + 1
         /\ SubSeq(<<i>> \o b, 1, 0) = << >>
         /\ \A n \in 0..Len(b) : SubSeq(<<i>> \o b, 1, n + 1) = <<i>> \o SubSeq(b, 1, n)
         /\ \A n \in 0..Len(b) : SubSeq(b, 1, n) \in Seq(Nat)
OBVIOUS

LEMMA HeadAndTail ==
  ASSUME NEW a \in Seq(Nat), a # << >>
  PROVE  /\ Head(a) \in Nat /\ Tail(a) \in Seq(Nat) /\ a = <<Head(a)>> \o Tail(a)
         /\ SubSeq(a, 1, 1) = <<Head(a)>> /\ 1 \in 0..Len(a)
<1>1. Len(a) \in Nat \ {0} /\ Head(a) = a[1] /\ a[1] \in Nat
  OBVIOUS
<1>2. Tail(a) \in Seq(Nat) /\ Len(Tail(a)) = Len(a) - 1 /\ \A j \in 1..(Len(a) - 1) : Tail(a)[j] = a[j + 1]
  BY <1>1
<1>3. a = <<Head(a)>> \o Tail(a)
  <2> DEFINE c == <<Head(a)>> \o Tail(a)
  <2>1. c \in Seq(Nat) /\ Len(c) = Len(Tail(a)) + 1 /\ c[1] = Head(a)
        /\ \A j \in 1..Len(Tail(a)) : c[j + 1] = Tail(a)[j]
    BY <1>1, <1>2
  <2> HIDE DEF c
  <2>2. \A j \in 1..Len(a) : c[j] = a[j]
    <3> SUFFICES ASSUME NEW j \in 1..Len(a), j # 1 PROVE c[j] = a[j]
      BY <1>1, <2>1
    <3>1. j - 1 \in 1..(Len(a) - 1) /\ (j - 1) + 1 = j
      BY <1>1
    <3> QED
      BY <1>1, <1>2, <2>1, <3>1
  <2>3. Len(c) = Len(a)
    BY <1>1, <1>2, <2>1
  <2>4. c = a
    BY <2>1, <2>2, <2>3, SeqEqual
  <2> QED
    BY <2>4 DEF c
<1>4. SubSeq(a, 1, 1) = <<Head(a)>>
  <2> DEFINE first == SubSeq(a, 1, 1)
  <2>1. first \in Seq(Nat) /\ Len(first) = 1 /\ first[1] = a[1]
    BY <1>1
  <2> DEFINE alone == <<Head(a)>>
  <2>2. alone \in Seq(Nat) /\ Len(alone) = 1 /\ alone[1] = a[1]
    BY <1>1
  <2> HIDE DEF first, alone
  <2>3. Len(first) = Len(alone) /\ \A j \in 1..Len(first) : first[j] = alone[j]
    BY <2>1, <2>2
  <2>4. first = alone
    BY <2>1, <2>2, <2>3, SeqEqual
  <2> QED
    BY <2>4 DEF first, alone
<1> QED
  BY <1>1, <1>2, <1>3, <1>4

\* What a step of a body is: a part of the step that holds it.
LEMMA BodyParts ==
  ASSUME NEW step, IsStep(step), NEW i \in DOMAIN Body(step), NEW child, child = Body(step)[i]
  PROVE  /\ i \in Nat /\ KeepsBody(Own(step)) /\ Kept(step) = DOMAIN step
         /\ \A b : b \in DOMAIN child <=> b \in Seq(Nat) /\ <<i>> \o b \in DOMAIN step
         /\ \A b \in DOMAIN child : child[b] = step[<<i>> \o b]
<1>1. DOMAIN step \subseteq Seq(Nat)
  BY DEF IsStep
<1>2. PICK first \in Held(step) : Head(first) = i
  BY DEF Body
<1>3. first \in Kept(step) /\ first # << >>
  BY <1>2 DEF Held
<1>4. KeepsBody(Own(step)) /\ Kept(step) = DOMAIN step
  BY <1>3 DEF Kept
<1>5. i \in Nat
  BY <1>1, <1>2, <1>3, <1>4, HeadAndTail
<1>6. child = [b \in {Tail(a) : a \in {c \in Held(step) : Head(c) = i}} |-> step[<<i>> \o b]]
  BY DEF Body
<1>7. Held(step) = {a \in DOMAIN step : a # << >>}
  BY <1>4 DEF Held
<1>8. ASSUME NEW b \in DOMAIN child PROVE b \in Seq(Nat) /\ <<i>> \o b \in DOMAIN step
  <2>1. PICK a \in Held(step) : Head(a) = i /\ b = Tail(a)
    BY <1>6, <1>8
  <2>2. a \in Seq(Nat) /\ a # << >> /\ a \in DOMAIN step
    BY <1>1, <1>7, <2>1
  <2> QED
    BY <2>1, <2>2, HeadAndTail
<1>9. ASSUME NEW b \in Seq(Nat), <<i>> \o b \in DOMAIN step PROVE b \in DOMAIN child
  <2>1. /\ <<i>> \o b # << >> /\ Head(<<i>> \o b) = i /\ Tail(<<i>> \o b) = b
    BY <1>5, Deeper
  <2>2. <<i>> \o b \in {c \in Held(step) : Head(c) = i}
    BY <1>7, <1>9, <2>1
  <2> QED
    BY <1>6, <2>1, <2>2
<1>10. \A b \in DOMAIN child : child[b] = step[<<i>> \o b]
  BY <1>6
<1> QED
  BY <1>4, <1>5, <1>8, <1>9, <1>10

LEMMA BodyType ==
  ASSUME NEW step, IsStep(step), NEW i \in DOMAIN Body(step)
  PROVE  IsStep(Body(step)[i])
<1> DEFINE child == Body(step)[i]
<1>1. /\ i \in Nat /\ KeepsBody(Own(step)) /\ Kept(step) = DOMAIN step
      /\ \A b : b \in DOMAIN child <=> b \in Seq(Nat) /\ <<i>> \o b \in DOMAIN step
      /\ \A b \in DOMAIN child : child[b] = step[<<i>> \o b]
  BY BodyParts
<1>2. DOMAIN step \subseteq Seq(Nat) /\ \A a \in DOMAIN step : IsNode(step[a])
                                    /\ \A n \in 0..Len(a) : SubSeq(a, 1, n) \in DOMAIN step
  BY DEF IsStep
<1>3. \A b \in DOMAIN child : IsNode(child[b])
  BY <1>1, <1>2
<1>4. ASSUME NEW b \in DOMAIN child, NEW n \in 0..Len(b) PROVE SubSeq(b, 1, n) \in DOMAIN child
  <2> HIDE DEF child
  <2>1. b \in Seq(Nat) /\ <<i>> \o b \in DOMAIN step
    BY <1>1
  <2>2. n + 1 \in 0..Len(<<i>> \o b)
    BY <1>1, <2>1, Deeper
  <2>3. SubSeq(<<i>> \o b, 1, n + 1) \in DOMAIN step
    BY <1>2, <2>1, <2>2
  <2>4. /\ SubSeq(<<i>> \o b, 1, n + 1) = <<i>> \o SubSeq(b, 1, n)
        /\ SubSeq(b, 1, n) \in Seq(Nat)
    BY <1>1, <2>1, Deeper
  <2> QED
    BY <1>1, <2>3, <2>4, Zenon
<1>5. << >> \in DOMAIN child
  <2>1. \E a \in Held(step) : Head(a) = i
    BY DEF Body
  <2>2. PICK a \in DOMAIN step : a # << >> /\ Head(a) = i
    BY <1>1, <2>1 DEF Held
  <2>3. a \in Seq(Nat)
    BY <1>2
  <2>4. <<i>> \in DOMAIN step
    BY <1>2, <2>2, <2>3, HeadAndTail
  <2>5. <<i>> \o << >> = <<i>> /\ << >> \in Seq(Nat)
    BY <1>1
  <2> QED
    BY <1>1, <2>4, <2>5
<1> HIDE DEF child
<1>6. DOMAIN child \subseteq Seq(Nat)
  BY <1>1
<1>7. IsStep(child)
  BY <1>3, <1>4, <1>5, <1>6 DEF IsStep
<1> QED
  BY <1>7 DEF child

\* The validator has looked at a body through the step that holds it: what it
\* accepted of the step, it would accept of each step in the body.
LEMMA BodySound ==
  ASSUME NEW step, IsStep(step), NEW registry, IsSound(step, registry), Dispatches(Own(step).action),
         NEW i \in DOMAIN Body(step)
  PROVE  IsSound(Body(step)[i], registry) /\ DomainsWithin(Body(step)[i]) \subseteq DomainsWithin(step)
<1> DEFINE child == Body(step)[i]
<1>1. /\ i \in Nat /\ KeepsBody(Own(step)) /\ Kept(step) = DOMAIN step
      /\ \A b : b \in DOMAIN child <=> b \in Seq(Nat) /\ <<i>> \o b \in DOMAIN step
      /\ \A b \in DOMAIN child : child[b] = step[<<i>> \o b]
  BY BodyParts
<1>2. IsStep(child)
  BY BodyType
<1> HIDE DEF child
<1>3. Kept(child) \subseteq DOMAIN child
  BY <1>2 DEF Kept, IsStep
<1>4. ASSUME NEW b \in DOMAIN child, IsExamined(b, child) PROVE IsExamined(<<i>> \o b, step)
  <2>1. b \in Seq(Nat) /\ Len(<<i>> \o b) = Len(b) + 1
    BY <1>1, Deeper
  <2> SUFFICES ASSUME NEW n \in 0..Len(b)
               PROVE  LET above == step[SubSeq(<<i>> \o b, 1, n)]
                      IN Dispatches(above.action) /\ IF n = 0 THEN KeepsBody(above) ELSE BodyOf(above)
    BY <2>1 DEF IsExamined
  <2>2. CASE n = 0
    <3>1. SubSeq(<<i>> \o b, 1, n) = << >>
      BY <1>1, <2>1, <2>2, Deeper
    <3> QED
      BY <1>1, <2>2, <3>1 DEF Own
  <2>3. CASE n # 0
    <3>1. n - 1 \in 0..(Len(b) - 1) /\ n - 1 \in 0..Len(b) /\ (n - 1) + 1 = n
      BY <2>1, <2>3
    <3>2. SubSeq(<<i>> \o b, 1, n) = <<i>> \o SubSeq(b, 1, n - 1)
      BY <1>1, <2>1, <3>1, Deeper
    <3>3. SubSeq(b, 1, n - 1) \in DOMAIN child
      BY <1>2, <3>1 DEF IsStep
    <3>4. step[SubSeq(<<i>> \o b, 1, n)] = child[SubSeq(b, 1, n - 1)]
      BY <1>1, <3>2, <3>3
    <3>5. LET above == child[SubSeq(b, 1, n - 1)]
          IN Dispatches(above.action) /\ IF n - 1 = 0 THEN KeepsBody(above) ELSE BodyOf(above)
      BY <1>4, <3>1 DEF IsExamined
    <3> QED
      BY <2>3, <3>4, <3>5 DEF KeepsBody, BodyOf
  <2> QED
    BY <2>2, <2>3
<1>5. ASSUME NEW b \in DOMAIN child, IsExamined(b, child) PROVE Known(child[b].action) /\ child[b].described
  <2>1. IsExamined(<<i>> \o b, step) /\ <<i>> \o b \in DOMAIN step /\ child[b] = step[<<i>> \o b]
    BY <1>1, <1>4, <1>5
  <2>2. Known(step[<<i>> \o b].action) /\ step[<<i>> \o b].described
    BY <2>1 DEF IsSound
  <2> QED
    BY <2>1, <2>2, Zenon
<1>6. WhensWithin(child, registry) = {}
  <2>1. WhensWithin(step, registry) = {}
    BY DEF IsSound
  <2>2. \A a \in DOMAIN step : UnknownKeys(step[a].when, registry) = {}
    BY <1>1, <2>1 DEF WhensWithin
  <2> QED
    BY <1>1, <1>3, <2>2 DEF WhensWithin
<1>7. DomainsWithin(child) \subseteq DomainsWithin(step)
  BY <1>1, <1>3 DEF DomainsWithin
<1> QED
  BY <1>5, <1>6, <1>7 DEF IsSound, child

(***************************************************************************)
(* Planning.                                                               *)
(***************************************************************************)

LEMMA StepsAppend ==
  ASSUME NEW steps, AreSteps(steps), NEW step, IsStep(step)
  PROVE  AreSteps(Append(steps, step))
<1> DEFINE new == Append(steps, step)
<1>1. IsList(steps) /\ \A i \in DOMAIN steps : IsStep(steps[i])
  BY DEF AreSteps
<1>2. /\ IsList(new)
      /\ \A i \in DOMAIN new : (i \in DOMAIN steps /\ new[i] = steps[i]) \/ new[i] = step
  BY <1>1, ListAppend
<1> HIDE DEF new
<1>3. AreSteps(new)
  BY <1>1, <1>2 DEF AreSteps
<1> QED
  BY <1>3 DEF new

LEMMA StepsTail ==
  ASSUME NEW steps, AreSteps(steps), steps # << >>
  PROVE  AreSteps(Tail(steps)) /\ IsStep(Head(steps))
<1> DEFINE new == Tail(steps)
<1>1. IsList(steps) /\ \A i \in DOMAIN steps : IsStep(steps[i])
  BY DEF AreSteps
<1>2. /\ IsList(new) /\ \A i \in DOMAIN new : i + 1 \in DOMAIN steps /\ new[i] = steps[i + 1]
      /\ 1 \in DOMAIN steps /\ Head(steps) = steps[1]
  BY <1>1, ListTail
<1> HIDE DEF new
<1>3. AreSteps(new) /\ IsStep(Head(steps))
  BY <1>1, <1>2 DEF AreSteps
<1> QED
  BY <1>3 DEF new

LEMMA StepsConcat ==
  ASSUME NEW steps, AreSteps(steps), NEW more, AreSteps(more)
  PROVE  AreSteps(steps \o more)
<1> DEFINE new == steps \o more
<1>1. /\ IsList(steps) /\ \A i \in DOMAIN steps : IsStep(steps[i])
      /\ IsList(more) /\ \A i \in DOMAIN more : IsStep(more[i])
  BY DEF AreSteps
<1>2. IsList(new)
  BY <1>1, ListConcat
<1>3. \A i \in DOMAIN new : \/ i \in DOMAIN steps /\ new[i] = steps[i]
                            \/ \E j \in DOMAIN more : new[i] = more[j]
  BY <1>1, ListConcat
<1> HIDE DEF new
<1>4. AreSteps(new)
  BY <1>1, <1>2, <1>3 DEF AreSteps
<1> QED
  BY <1>4 DEF new

LEMMA StepsMap ==
  ASSUME NEW steps, IsList(steps), NEW new, DOMAIN new = DOMAIN steps,
         new = [i \in DOMAIN steps |-> new[i]],
         \A i \in DOMAIN steps : IsStep(new[i])
  PROVE  AreSteps(new)
<1>1. new \in [DOMAIN steps -> {new[i] : i \in DOMAIN steps}]
  OBVIOUS
<1>2. IsList(new)
  BY <1>1, ListMap
<1> QED
  BY <1>2 DEF AreSteps

LEMMA ConfiguredType ==
  ASSUME NEW step, IsStep(step), NEW settings
  PROVE  IsStep(Configured(step, settings))
<1> DEFINE new == [step EXCEPT ![<< >>].cont = settings]
<1>1. /\ << >> \in DOMAIN step /\ DOMAIN step \subseteq Seq(Nat)
      /\ \A a \in DOMAIN step : IsNode(step[a])
                                /\ \A n \in 0..Len(a) : SubSeq(a, 1, n) \in DOMAIN step
  BY DEF IsStep
<1>2. DOMAIN new = DOMAIN step
  OBVIOUS
<1>3. \A a \in DOMAIN step : a # << >> => new[a] = step[a]
  BY <1>1
<1>4. IsNode([step[<< >>] EXCEPT !.cont = settings])
  BY <1>1 DEF IsNode, NodeFields
<1>5. new[<< >>] = [step[<< >>] EXCEPT !.cont = settings]
  BY <1>1
<1> HIDE DEF new
<1>6. \A a \in DOMAIN step : IsNode(new[a])
  BY <1>1, <1>3, <1>4, <1>5
<1>7. IsStep(new)
  BY <1>1, <1>2, <1>6 DEF IsStep
<1> QED
  BY <1>7 DEF Configured, new

LEMMA PlannedType ==
  ASSUME NEW steps, AreSteps(steps), NEW variables \in Bindings, NEW settings
  PROVE  AreSteps([i \in DOMAIN steps |-> Configured(SubstituteStep(steps[i], variables), settings)])
<1> DEFINE new == [i \in DOMAIN steps |-> Configured(SubstituteStep(steps[i], variables), settings)]
<1>1. IsList(steps) /\ \A i \in DOMAIN steps : IsStep(steps[i])
  BY DEF AreSteps
<1>2. \A i \in DOMAIN steps : IsStep(new[i])
  BY <1>1, SubstituteStepType, ConfiguredType
<1>3. DOMAIN new = DOMAIN steps /\ new = [i \in DOMAIN steps |-> new[i]]
  OBVIOUS
<1> HIDE DEF new
<1>4. AreSteps(new)
  BY <1>1, <1>2, <1>3, StepsMap
<1> QED
  BY <1>4 DEF new

\* No file is included while it is being included, and each of them exists.
PathsDiffer ==
  /\ \A i \in 2..Len(stack) : stack[i].path \in DOMAIN files
  /\ \A i, j \in 2..Len(stack) : stack[i].path = stack[j].path => i = j

LEMMA NoSteps == AreSteps(<< >>) /\ IsList(<< >>)
BY DEF AreSteps, IsList

LEMMA FileTypes ==
  ASSUME files \in Workspaces
  PROVE  /\ IsFiniteSet(DOMAIN files) /\ "main" \in DOMAIN files
         /\ \A path \in DOMAIN files : /\ files[path].variables \in Bindings
                                       /\ files[path].overrides \in Bindings
                                       /\ AreSteps(files[path].steps)
BY WorkspacesAssumption

LEMMA OneCall ==
  ASSUME NEW path, NEW steps, AreSteps(steps), NEW variables \in Bindings
  PROVE  /\ IsCall(Call(path, steps, variables)) /\ Call(path, steps, variables).path = path
         /\ IsList(<<Call(path, steps, variables)>>)
<1> DEFINE call == Call(path, steps, variables)
<1>1. IsCall(call) /\ call.path = path
  BY NoSteps DEF Call, IsCall
<1> HIDE DEF call
<1>2. IsList(<<call>>)
  BY DEF IsList
<1> QED
  BY <1>1, <1>2 DEF call

LEMMA ReadFileKeeps ==
  ASSUME PlanTypeOK, PathsDiffer, ReadFile
  PROVE  PlanTypeOK' /\ PathsDiffer'
<1>1. CASE files["main"].bare
  BY <1>1 DEF PlanTypeOK, PathsDiffer, ReadFile, Refuse, Refusals
<1>2. CASE ~ files["main"].bare
  <2> DEFINE call == Call("main", files["main"].steps,
                          Merged(files["main"].variables, files["main"].overrides))
  <2>1. /\ "main" \in DOMAIN files /\ files["main"].variables \in Bindings
        /\ files["main"].overrides \in Bindings /\ AreSteps(files["main"].steps)
    BY FileTypes DEF PlanTypeOK
  <2>2. IsCall(call) /\ IsList(<<call>>)
    BY <2>1, MergedType, OneCall
  <2>3. stack' = <<call>> /\ UNCHANGED <<files, plan, checked, phase>>
    BY <1>2 DEF ReadFile
  <2> HIDE DEF call
  <2>4. PlanTypeOK'
    BY <2>2, <2>3 DEF PlanTypeOK
  <2>5. Len(stack') = 1
    BY <2>3
  <2>6. PathsDiffer'
    BY <2>5 DEF PathsDiffer
  <2> QED
    BY <2>4, <2>6
<1> QED
  BY <1>1, <1>2

\* A call of the stack is replaced by one of the same file.
LEMMA StackExcept ==
  ASSUME PlanTypeOK, PathsDiffer, stack # << >>, NEW call, IsCall(call), call.path = Top.path,
         SetTop(call), UNCHANGED <<files, plan, checked, phase>>
  PROVE  PlanTypeOK' /\ PathsDiffer'
<1>1. IsList(stack) /\ \A i \in DOMAIN stack : IsCall(stack[i])
  BY DEF PlanTypeOK
<1>2. /\ IsList(stack') /\ DOMAIN stack' = DOMAIN stack /\ Len(stack') = Len(stack)
      /\ Len(stack) \in DOMAIN stack
      /\ \A i \in DOMAIN stack : stack'[i] = IF i = Len(stack) THEN call ELSE stack[i]
  BY <1>1, ListExcept DEF SetTop
<1>3. DOMAIN stack = 1..Len(stack) /\ Len(stack) \in Nat
  BY <1>1, ListPlaces
<1>4. \A i \in 2..Len(stack) : stack'[i].path = stack[i].path
  BY <1>2, <1>3 DEF Top
<1>5. \A i \in DOMAIN stack' : IsCall(stack'[i])
  BY <1>1, <1>2
<1>6. PlanTypeOK'
  BY <1>2, <1>5 DEF PlanTypeOK
<1>7. PathsDiffer'
  BY <1>2, <1>4 DEF PathsDiffer
<1> QED
  BY <1>6, <1>7

LEMMA TopType ==
  ASSUME PlanTypeOK, stack # << >>
  PROVE  IsCall(Top) /\ Len(stack) \in DOMAIN stack /\ Len(stack) \in Nat
<1>1. IsList(stack) /\ \A i \in DOMAIN stack : IsCall(stack[i])
  BY DEF PlanTypeOK
<1>2. Len(stack) \in DOMAIN stack /\ Len(stack) \in Nat
  BY <1>1, ListPlaces, ListExcept
<1> QED
  BY <1>1, <1>2 DEF Top

LEMMA KeepStepKeeps ==
  ASSUME PlanTypeOK, PathsDiffer, KeepStep
  PROVE  PlanTypeOK' /\ PathsDiffer'
<1> DEFINE call == [Top EXCEPT !.todo = Tail(Top.todo), !.out = Append(Top.out, Head(Top.todo))]
<1>1. stack # << >> /\ Top.todo # << >> /\ SetTop(call) /\ UNCHANGED <<files, plan, checked, phase>>
  BY DEF KeepStep, Expanding
<1>2. IsCall(Top)
  BY <1>1, TopType
<1>3. AreSteps(Tail(Top.todo)) /\ IsStep(Head(Top.todo))
  BY <1>1, <1>2, StepsTail DEF IsCall
<1>4. AreSteps(Append(Top.out, Head(Top.todo)))
  BY <1>2, <1>3, StepsAppend DEF IsCall
<1>5. IsCall(call) /\ call.path = Top.path
  BY <1>2, <1>3, <1>4 DEF IsCall
<1> QED
  BY <1>1, <1>5, StackExcept

LEMMA IncludeKeeps ==
  ASSUME PlanTypeOK, PathsDiffer, Include
  PROVE  PlanTypeOK' /\ PathsDiffer'
<1> DEFINE step == Own(Head(Top.todo))
           path == step.include
           variables == Merged(Merged(files[path].variables, Top.vars), step.vars)
           call == Call(path, files[path].steps, variables)
<1>1. stack # << >> /\ Top.todo # << >> /\ phase = "planning"
  BY DEF Include, Expanding
<1>2. IsCall(Top) /\ Len(stack) \in Nat
  BY <1>1, TopType
<1>3. IsStep(Head(Top.todo))
  BY <1>1, <1>2, StepsTail DEF IsCall
<1>4. IsNode(step)
  BY <1>3 DEF IsStep, Own
<1>5. CASE IsCycle(path) \/ path \notin DOMAIN files \/ files[path].bare
  <2>1. Refuse("raised")
    BY <1>5 DEF Include
  <2> QED
    BY <2>1 DEF PlanTypeOK, PathsDiffer, Refuse, Refusals
<1>6. CASE ~ (IsCycle(path) \/ path \notin DOMAIN files \/ files[path].bare)
  <2>1. stack' = Append(stack, call) /\ UNCHANGED <<files, plan, checked, phase>>
    BY <1>6 DEF Include
  <2>2. path \in DOMAIN files /\ ~ IsCycle(path)
    BY <1>6
  <2>3. files[path].variables \in Bindings /\ AreSteps(files[path].steps)
    BY <2>2, FileTypes DEF PlanTypeOK
  <2>4. Merged(files[path].variables, Top.vars) \in Bindings
    BY <1>2, <2>3, MergedType DEF IsCall
  <2>5. variables \in Bindings
    BY <1>4, <2>4, MergedType DEF IsNode
  <2>6. IsCall(call) /\ call.path = path
    BY <2>3, <2>5, OneCall
  <2> HIDE DEF call, path, step
  <2>7. IsList(stack) /\ \A i \in DOMAIN stack : IsCall(stack[i])
    BY DEF PlanTypeOK
  <2>8. /\ IsList(stack') /\ Len(stack') = Len(stack) + 1
        /\ \A i \in DOMAIN stack' : \/ i \in DOMAIN stack /\ stack'[i] = stack[i]
                                    \/ i = Len(stack) + 1 /\ stack'[i] = call
    BY <2>1, <2>7, ListAppend
  <2>9. DOMAIN stack = 1..Len(stack) /\ DOMAIN stack' = 1..(Len(stack) + 1)
    BY <2>7, <2>8, ListPlaces
  <2>10. PlanTypeOK'
    BY <2>1, <2>6, <2>7, <2>8 DEF PlanTypeOK
  <2>11. /\ \A i \in 2..Len(stack) : stack'[i] = stack[i] /\ stack[i].path # path
         /\ stack'[Len(stack) + 1] = call
    <3>1. \A i \in 2..Len(stack) : stack[i].path # path
      BY <2>2 DEF IsCycle, BeingIncluded
    <3>2. \A i \in 2..Len(stack) : i \in DOMAIN stack' /\ i # Len(stack) + 1
      BY <1>2, <2>9
    <3>3. Len(stack) + 1 \in DOMAIN stack' /\ Len(stack) + 1 \notin DOMAIN stack
      BY <1>2, <2>9
    <3> QED
      BY <3>1, <3>2, <3>3, <2>8
  <2>12. \A i \in 2..Len(stack') : i \in 2..Len(stack) \/ i = Len(stack) + 1
    BY <1>2, <2>8
  <2>13. \A i \in 2..Len(stack') : \/ i \in 2..Len(stack) /\ stack'[i] = stack[i]
                                   \/ i = Len(stack) + 1 /\ stack'[i].path = path
    BY <2>6, <2>11, <2>12
  <2>14. PathsDiffer'
    BY <2>1, <2>2, <2>11, <2>13 DEF PathsDiffer
  <2> QED
    BY <2>10, <2>14
<1> QED
  BY <1>5, <1>6

LEMMA IncludedKeeps ==
  ASSUME PlanTypeOK, PathsDiffer, Included
  PROVE  PlanTypeOK' /\ PathsDiffer'
<1> DEFINE caller == stack[Len(stack) - 1]
           back == [caller EXCEPT !.todo = Tail(caller.todo),
                                  !.out = caller.out \o SubstituteAll(Top.out, Top.vars)]
<1>1. Len(stack) > 1 /\ stack' = Returned(stack, back) /\ UNCHANGED <<files, plan, checked, phase>>
  BY DEF Included, Returned
<1>2. IsList(stack) /\ \A i \in DOMAIN stack : IsCall(stack[i])
  BY DEF PlanTypeOK
<1>3. stack # << >>
  BY <1>1
<1>4. IsCall(Top) /\ Len(stack) \in DOMAIN stack /\ Len(stack) \in Nat /\ DOMAIN stack = 1..Len(stack)
  BY <1>2, <1>3, TopType, ListPlaces
<1>5. Len(stack) - 1 \in DOMAIN stack
  BY <1>1, <1>4
<1>6. IsCall(caller)
  BY <1>2, <1>5
<1>7. caller.todo # << >> => AreSteps(Tail(caller.todo))
  BY <1>6, StepsTail DEF IsCall
<1>8. AreSteps(Tail(caller.todo))
  <2>1. Tail(<< >>) = << >>
    OBVIOUS
  <2> QED
    BY <1>7, <2>1, NoSteps
<1>9. AreSteps(caller.out \o SubstituteAll(Top.out, Top.vars))
  BY <1>4, <1>6, SubstituteAllType, StepsConcat DEF IsCall
<1>10. IsCall(back) /\ back.path = caller.path
  BY <1>6, <1>8, <1>9 DEF IsCall
<1> HIDE DEF back
<1>11. /\ IsList(stack') /\ Len(stack') = Len(stack) - 1
       /\ \A i \in DOMAIN stack' : i \in DOMAIN stack
                                   /\ stack'[i] = IF i = Len(stack) - 1 THEN back ELSE stack[i]
  BY <1>1, <1>2, ListReturn
<1>12. \A i \in DOMAIN stack' : stack'[i].path = stack[i].path
  BY <1>10, <1>11
<1>13. DOMAIN stack' = 1..Len(stack')
  BY <1>11, ListPlaces
<1>14. \A i \in 2..Len(stack') : i \in 2..Len(stack) /\ i \in DOMAIN stack'
  BY <1>4, <1>11, <1>13
<1>15. PlanTypeOK'
  BY <1>1, <1>2, <1>10, <1>11 DEF PlanTypeOK
<1>16. PathsDiffer'
  BY <1>1, <1>12, <1>14 DEF PathsDiffer
<1> QED
  BY <1>15, <1>16

LEMMA PlannedKeeps ==
  ASSUME PlanTypeOK, Planned
  PROVE  PlanTypeOK' /\ PathsDiffer'
<1>1. stack # << >>
  BY DEF Planned
<1>2. AreSteps(Top.out) /\ Top.vars \in Bindings
  BY <1>1, TopType DEF IsCall
<1>3. AreSteps(plan')
  BY <1>2, PlannedType DEF Planned
<1>4. PlanTypeOK'
  BY <1>3, NoSteps DEF PlanTypeOK, Planned
<1>5. Len(stack') = 0
  BY DEF Planned
<1> QED
  BY <1>4, <1>5 DEF PathsDiffer

(***************************************************************************)
(* The plan that was let through is sound, and its domains were asked.     *)
(***************************************************************************)

\* What was validated: its domains are registered, and each of its steps is sound.
PlanIsVetted ==
  phase \in {"valid", "accepted", "not_ready", "running", "over"} =>
    PlanDomains \subseteq DomainNames /\ \A i \in DOMAIN plan : IsSound(plan[i], Vocabulary)

\* From its preflight on, the domains of the plan have been asked.
PreflightAsked == phase \in {"accepted", "running", "over"} => checked = PlanDomains

\* What the planning maintains.
PlanOK == PlanTypeOK /\ PathsDiffer /\ PlanIsVetted /\ PreflightAsked

LEMMA PlanInitOK == PlanInit => PlanOK
<1> SUFFICES ASSUME PlanInit PROVE PlanOK
  OBVIOUS
<1>1. Len(stack) = 0 /\ phase = "planning"
  BY DEF PlanInit
<1>2. PlanTypeOK
  BY NoSteps DEF PlanInit, PlanTypeOK
<1> QED
  BY <1>1, <1>2 DEF PlanOK, PathsDiffer, PlanIsVetted, PreflightAsked

LEMMA SamePlan ==
  ASSUME plan' = plan
  PROVE  PlanDomains' = PlanDomains /\ Vocabulary' = Vocabulary
BY DEF PlanDomains, Vocabulary

LEMMA ValidateKeeps ==
  ASSUME PlanOK, Validate
  PROVE  PlanOK'
<1>1. UNCHANGED <<files, stack, plan, checked>>
  BY DEF Validate
<1>2. PlanDomains' = PlanDomains /\ Vocabulary' = Vocabulary
  BY <1>1, SamePlan
<1>3. phase' \in {"raised", "valid", "invalid"}
  BY DEF Validate
<1>4. PlanTypeOK' /\ PathsDiffer'
  BY <1>1, <1>3 DEF PlanOK, PlanTypeOK, PathsDiffer, Refusals
<1>5. phase' = "valid" => PlanDomains \subseteq DomainNames /\ \A i \in DOMAIN plan : IsSound(plan[i], Vocabulary)
  BY DEF Validate
<1>6. PlanIsVetted'
  BY <1>1, <1>2, <1>3, <1>5 DEF PlanIsVetted
<1>7. PreflightAsked'
  BY <1>3 DEF PreflightAsked
<1> QED
  BY <1>4, <1>6, <1>7 DEF PlanOK

LEMMA PreflightKeeps ==
  ASSUME PlanOK, Preflight
  PROVE  PlanOK'
<1>1. /\ phase = "valid" /\ checked' = PlanDomains /\ phase' \in {"accepted", "not_ready"}
      /\ UNCHANGED <<files, stack, plan>>
  BY DEF Preflight
<1>2. PlanDomains' = PlanDomains /\ Vocabulary' = Vocabulary
  BY <1>1, SamePlan
<1>3. PlanDomains \subseteq DomainNames /\ \A i \in DOMAIN plan : IsSound(plan[i], Vocabulary)
  BY <1>1 DEF PlanOK, PlanIsVetted
<1>4. PlanTypeOK' /\ PathsDiffer'
  BY <1>1, <1>3 DEF PlanOK, PlanTypeOK, PathsDiffer, Refusals
<1>5. PlanIsVetted'
  BY <1>1, <1>2, <1>3 DEF PlanIsVetted
<1>6. PreflightAsked'
  BY <1>1, <1>2 DEF PreflightAsked
<1> QED
  BY <1>4, <1>5, <1>6 DEF PlanOK

\* Before the validator there is nothing to have promised.
LEMMA PlanNextOK ==
  ASSUME PlanOK, PlanNext
  PROVE  PlanOK'
<1>1. ASSUME PlanTypeOK' /\ PathsDiffer', phase' \in {"planning", "planned", "raised"} PROVE PlanOK'
  BY <1>1 DEF PlanOK, PlanIsVetted, PreflightAsked
<1>2. CASE ReadFile
  BY <1>1, <1>2, ReadFileKeeps DEF PlanOK, ReadFile, Refuse
<1>3. CASE KeepStep
  BY <1>1, <1>3, KeepStepKeeps DEF PlanOK, KeepStep, Expanding
<1>4. CASE Include
  BY <1>1, <1>4, IncludeKeeps DEF PlanOK, Include, Expanding, Refuse
<1>5. CASE Included
  BY <1>1, <1>5, IncludedKeeps DEF PlanOK, Included
<1>6. CASE Planned
  BY <1>1, <1>6, PlannedKeeps DEF PlanOK, Planned
<1>7. CASE Validate
  BY <1>7, ValidateKeeps
<1>8. CASE Preflight
  BY <1>8, PreflightKeeps
<1> QED
  BY <1>2, <1>3, <1>4, <1>5, <1>6, <1>7, <1>8 DEF PlanNext

\* The files on the stack are as many as it is deep, the workflow aside.
LEMMA NestWithin ==
  ASSUME PlanTypeOK, PathsDiffer
  PROVE  IncludesNest
<1> DEFINE n == Len(stack)
           paths == [i \in 2..n |-> stack[i].path]
<1>1. n \in Nat
  BY ListPlaces DEF PlanTypeOK
<1>2. IsFiniteSet(DOMAIN files) /\ Cardinality(DOMAIN files) \in Nat
  BY FileTypes, FS_CardinalityType DEF PlanTypeOK
<1>3. CASE n <= 1
  BY <1>1, <1>2, <1>3 DEF IncludesNest
<1>4. CASE n > 1
  <2>1. 2 \in Int /\ n \in Int /\ 2 <= n
    BY <1>1, <1>4
  <2>2. IsFiniteSet(2..n) /\ Cardinality(2..n) = n - 2 + 1
    BY <2>1, FS_Interval
  <2>3. paths \in Injection(2..n, DOMAIN files)
    BY DEF PathsDiffer, Injection, IsInjective
  <2> HIDE DEF paths
  <2>4. Cardinality(2..n) <= Cardinality(DOMAIN files)
    BY <1>2, <2>2, <2>3, FS_Injection
  <2> QED
    BY <1>1, <1>2, <2>2, <2>4 DEF IncludesNest
<1> QED
  BY <1>1, <1>3, <1>4

(***************************************************************************)
(* The inductive invariant.                                                *)
(***************************************************************************)

\* What a list that no subflow read may hold.
IsVetted(steps, domains, registry) ==
  \A i \in DOMAIN steps :
    IsSound(steps[i], registry) /\ DomainsWithin(steps[i]) \subseteq domains \cup {"none"}

\* The lists that are run hold steps, and those of the plan what was vetted.
CallsOK ==
  /\ IsList(calls) /\ \A i \in DOMAIN calls : IsRunning(calls[i])
  /\ \A i \in DOMAIN calls : ~ calls[i].sub => IsVetted(calls[i].steps, PlanDomains, Vocabulary)

\* What is kept are values, and clean ones.
StoreOK ==
  /\ table \in Seq(Values) /\ \A name \in DOMAIN Read : Read[name] \in Values
  /\ NoReferenceIsStored

\* What was reached could be carried out, on sessions that were asked for.
LogOK ==
  /\ IsList(log) /\ opened \subseteq DomainNames
  /\ ValidPlansDispatch /\ NothingUncheckedIsOpened

\* Nothing is run or opened before the plan is let through.
OnlyWhileRunning ==
  /\ phase = "running" <=> calls # << >>
  /\ phase \notin {"running", "over"} => opened = {}

\* The two are one: what a step opens and finds depends on what was promised
\* of its plan.
IInv == PlanOK /\ CallsOK /\ StoreOK /\ LogOK /\ OnlyWhileRunning

LEMMA IInvTypeOK == IInv => TypeOK
BY DEF IInv, PlanOK, CallsOK, StoreOK, LogOK, TypeOK

(***************************************************************************)
(* The step that is next, and its guard.                                   *)
(***************************************************************************)

LEMMA Vocabularies ==
  ASSUME NEW domains, NEW i \in DOMAIN ConditionsOf(domains)
  PROVE  ConditionsOf(domains)[i].domain \in domains \cup {"none"}
<1> DEFINE names == {"context_equals", "context_key_exists", "context_greater_than",
                      "context_less_than", "context_between", "url_contains", "element_exists",
                      "db_row_exists"}
           T == [name : names, domain : domains \cup {"none"}]
<1>1. CoreConditions \in Seq(T)
  <2>1. \A name \in names : Entry(name, "none") \in T
    BY DEF Entry
  <2> HIDE DEF T
  <2>2. \A a, b, c, d, e \in T : <<a, b, c, d, e>> \in Seq(T)
    OBVIOUS
  <2> QED
    BY <2>1, <2>2 DEF CoreConditions
<1>2. OwnOf("db", domains) \in Seq(T)
  <2>1. "db" \in domains => Entry("db_row_exists", "db") \in T
    BY DEF Entry
  <2>2. OwnConditions["db"] = << Entry("db_row_exists", "db") >>
    BY DEF OwnConditions
  <2> HIDE DEF T
  <2> QED
    BY <2>1, <2>2 DEF OwnOf
<1>3. OwnOf("web", domains) \in Seq(T)
  <2>1. "web" \in domains => Entry("url_contains", "web") \in T /\ Entry("element_exists", "web") \in T
    BY DEF Entry
  <2>2. OwnConditions["web"] = << Entry("url_contains", "web"), Entry("element_exists", "web") >>
    BY DEF OwnConditions
  <2> HIDE DEF T
  <2> QED
    BY <2>1, <2>2 DEF OwnOf
<1> HIDE DEF T
<1>4. ConditionsOf(domains) \in Seq(T)
  BY <1>1, <1>2, <1>3 DEF ConditionsOf
<1>5. ConditionsOf(domains)[i] \in T
  BY <1>4
<1> QED
  BY <1>5 DEF T

\* A guard asks for sessions of domains whose conditions the run knows.
LEMMA AskedWithin ==
  ASSUME NEW cond, NEW domains, NEW says
  PROVE  Asked(cond, ConditionsOf(domains), says) \subseteq domains
<1> DEFINE registry == ConditionsOf(domains)
<1>1. \A i \in DOMAIN registry : registry[i].domain \in domains \cup {"none"}
  BY Vocabularies
<1> HIDE DEF registry
<1>2. Consulted(cond, registry, says) \subseteq DOMAIN registry
  BY DEF Consulted, Deciding
<1>3. Asked(cond, registry, says) \subseteq domains
  BY <1>1, <1>2 DEF Asked
<1> QED
  BY <1>3 DEF registry

LEMMA GuardAsks ==
  ASSUME NEW verdicts, NEW asked, GuardSays(verdicts, asked)
  PROVE  asked \subseteq PlanDomains
<1>1. PICK answers \in Answers : asked = Evaluate(Step.when, Vocabulary, Read, answers).asks
  BY DEF GuardSays
<1>2. asked = Asked(Step.when, Vocabulary, Says(Step.when, Vocabulary, Read, answers))
  BY <1>1 DEF Evaluate
<1> QED
  BY <1>2, AskedWithin DEF Vocabulary

LEMMA CurrentType ==
  ASSUME IInv, Running
  PROVE  /\ calls # << >> /\ IsList(calls) /\ Len(calls) \in DOMAIN calls /\ IsRunning(Current)
         /\ ~ Current.sub => IsVetted(Current.steps, PlanDomains, Vocabulary)
         /\ checked = PlanDomains /\ PlanDomains \subseteq DomainNames
<1>1. calls # << >> /\ IsList(calls)
  BY DEF IInv, OnlyWhileRunning, CallsOK, Running
<1>2. Len(calls) \in DOMAIN calls
  BY <1>1, ListExcept
<1>3. IsRunning(Current) /\ (~ Current.sub => IsVetted(Current.steps, PlanDomains, Vocabulary))
  BY <1>2 DEF IInv, CallsOK, Current
<1>4. checked = PlanDomains /\ PlanDomains \subseteq DomainNames
  BY DEF IInv, PlanOK, PlanIsVetted, PreflightAsked, Running
<1> QED
  BY <1>1, <1>2, <1>3, <1>4

LEMMA StepType ==
  ASSUME IInv, AtStep
  PROVE  /\ IsStep(Resolved) /\ IsNode(Step)
         /\ ~ Current.sub => /\ IsSound(Resolved, Vocabulary)
                             /\ DomainsWithin(Resolved) \subseteq PlanDomains \cup {"none"}
<1> DEFINE known == IF InRun THEN Read ELSE LoopBinds
<1>1. IsRunning(Current) /\ (~ Current.sub => IsVetted(Current.steps, PlanDomains, Vocabulary))
  BY CurrentType DEF AtStep
<1>2. IsStep(Raw)
  BY <1>1 DEF AtStep, Raw, IsRunning
<1>3. \A name \in DOMAIN known : known[name] \in Values
  <2>1. CASE InRun
    BY <2>1 DEF IInv, StoreOK
  <2>2. CASE ~ InRun
    <3>1. Current.round \in DOMAIN Items
      BY <1>1, <2>2 DEF IsRunning, InRun
    <3>2. Items[Current.round] \in Values
      BY <3>1, AnswersAssumption
    <3> QED
      BY <2>2, <3>2 DEF LoopBinds
  <2> QED
    BY <2>1, <2>2
<1>4. Resolved = ResolveStep(Raw, known)
  BY DEF Resolved
<1> HIDE DEF known
<1>5. /\ IsStep(Resolved) /\ DomainsWithin(Resolved) = DomainsWithin(Raw)
      /\ IsSound(Raw, Vocabulary) => IsSound(Resolved, Vocabulary)
  BY <1>2, <1>3, <1>4, ResolveStepType
<1>6. IsNode(Step)
  BY <1>5 DEF Step, Own, IsStep
<1>7. ASSUME ~ Current.sub
      PROVE  IsSound(Raw, Vocabulary) /\ DomainsWithin(Raw) \subseteq PlanDomains \cup {"none"}
  BY <1>1, <1>7 DEF AtStep, Raw, IsVetted
<1> QED
  BY <1>5, <1>6, <1>7

\* A step of the plan, or of a loop in it, can be carried out, and its guard
\* is one that somebody registered.
LEMMA StepSound ==
  ASSUME IInv, AtStep, ~ Current.sub
  PROVE  /\ CanAct /\ ~ UnknownGuard
         /\ Action.domain \in PlanDomains \cup {"none"}
<1>1. /\ IsStep(Resolved) /\ IsSound(Resolved, Vocabulary)
      /\ DomainsWithin(Resolved) \subseteq PlanDomains \cup {"none"}
  BY StepType
<1>2. << >> \in DOMAIN Resolved /\ << >> \in Kept(Resolved)
  BY <1>1 DEF IsStep, Kept
<1>3. IsExamined(<< >>, Resolved)
  BY DEF IsExamined
<1>4. Known(Step.action)
  BY <1>1, <1>2, <1>3 DEF IsSound, Step, Own
<1>5. UnknownKeys(Step.when, Vocabulary) = {}
  BY <1>1, <1>2 DEF IsSound, WhensWithin, Step, Own
<1>6. DomainOf(Step.action) \in PlanDomains \cup {"none"}
  BY <1>1, <1>2 DEF DomainsWithin, Step, Own
<1>7. Action.domain \in PlanDomains \cup {"none"}
  BY <1>4, <1>6 DEF DomainOf, Action
<1>8. PlanDomains \subseteq DomainNames
  BY CurrentType DEF AtStep
<1>9. CanAct
  BY <1>4, <1>7, <1>8 DEF CanAct
<1> QED
  BY <1>5, <1>7, <1>9 DEF UnknownGuard

(***************************************************************************)
(* What a step does to each part of the invariant.                         *)
(***************************************************************************)

\* A step of the run leaves the plan as it is.
LEMMA PlanStays ==
  ASSUME PlanOK, UNCHANGED planVars
  PROVE  PlanOK'
<1>1. UNCHANGED <<files, stack, plan, checked, phase>>
  BY DEF planVars
<1>2. PlanDomains' = PlanDomains /\ Vocabulary' = Vocabulary
  BY <1>1, SamePlan
<1> QED
  BY <1>1, <1>2 DEF PlanOK, PlanTypeOK, PathsDiffer, PlanIsVetted, PreflightAsked

\* The list that is run is moved on.
LEMMA CallMoves ==
  ASSUME IInv, Running, NEW call, IsRunning(call),
         call.sub = Current.sub, call.steps = Current.steps, calls' = Replace(call), plan' = plan
  PROVE  CallsOK' /\ calls' # << >>
<1>1. calls # << >> /\ IsList(calls) /\ Len(calls) \in DOMAIN calls
  BY CurrentType
<1>2. /\ IsList(calls') /\ calls' # << >> /\ DOMAIN calls' = DOMAIN calls
      /\ \A i \in DOMAIN calls : calls'[i] = IF i = Len(calls) THEN call ELSE calls[i]
  BY <1>1, ListExcept DEF Replace
<1>3. PlanDomains' = PlanDomains /\ Vocabulary' = Vocabulary
  BY SamePlan
<1>4. /\ \A i \in DOMAIN calls : IsRunning(calls[i])
      /\ \A i \in DOMAIN calls : ~ calls[i].sub => IsVetted(calls[i].steps, PlanDomains, Vocabulary)
  BY DEF IInv, CallsOK
<1>5. \A i \in DOMAIN calls' : IsRunning(calls'[i])
  BY <1>2, <1>4
<1>6. \A i \in DOMAIN calls' : calls'[i].sub = calls[i].sub /\ calls'[i].steps = calls[i].steps
  BY <1>1, <1>2 DEF Current
<1>7. \A i \in DOMAIN calls' : ~ calls'[i].sub => IsVetted(calls'[i].steps, PlanDomains', Vocabulary')
  BY <1>2, <1>3, <1>4, <1>6
<1> QED
  BY <1>2, <1>5, <1>7 DEF CallsOK

LEMMA AfterMoves ==
  ASSUME IInv, AtStep, NEW ok \in BOOLEAN, calls' = Replace(After(ok)), plan' = plan
  PROVE  CallsOK' /\ calls' # << >>
<1>1. IsRunning(Current) /\ Running
  BY CurrentType DEF AtStep
<1>2. IsRunning(After(ok)) /\ After(ok).sub = Current.sub /\ After(ok).steps = Current.steps
  BY <1>1 DEF After, IsRunning, Lists
<1> QED
  BY <1>1, <1>2, CallMoves

\* A list is started above the others.
LEMMA CallStarts ==
  ASSUME IInv, NEW call, IsRunning(call),
         ~ call.sub => IsVetted(call.steps, PlanDomains, Vocabulary),
         calls' = Append(calls, call), plan' = plan
  PROVE  CallsOK' /\ calls' # << >>
<1>1. /\ IsList(calls) /\ \A i \in DOMAIN calls : IsRunning(calls[i])
      /\ \A i \in DOMAIN calls : ~ calls[i].sub => IsVetted(calls[i].steps, PlanDomains, Vocabulary)
  BY DEF IInv, CallsOK
<1>2. /\ IsList(calls') /\ Len(calls') = Len(calls) + 1
      /\ \A i \in DOMAIN calls' : \/ i \in DOMAIN calls /\ calls'[i] = calls[i]
                                  \/ i = Len(calls) + 1 /\ calls'[i] = call
  BY <1>1, ListAppend
<1>3. PlanDomains' = PlanDomains /\ Vocabulary' = Vocabulary
  BY SamePlan
<1>4. calls' # << >>
  BY <1>1, <1>2, ListPlaces
<1>5. \A i \in DOMAIN calls' : IsRunning(calls'[i])
  BY <1>1, <1>2
<1>6. \A i \in DOMAIN calls' : ~ calls'[i].sub => IsVetted(calls'[i].steps, PlanDomains', Vocabulary')
  BY <1>1, <1>2, <1>3
<1> QED
  BY <1>2, <1>4, <1>5, <1>6 DEF CallsOK

\* What is logged, and which sessions open.
LEMMA LogKeeps ==
  ASSUME IInv, Running, NEW how, NEW names, Noted(how, names), checked' = checked,
         NEW new, opened' = opened \cup new, new \subseteq DomainNames,
         Current.sub \/ (how # "unknown" /\ new \subseteq checked)
  PROVE  LogOK'
<1> DEFINE entry == [how |-> how, names |-> names, sub |-> Current.sub]
<1>1. IsList(log) /\ opened \subseteq DomainNames /\ ValidPlansDispatch /\ NothingUncheckedIsOpened
  BY DEF IInv, LogOK
<1>2. log' = Append(log, entry) /\ entry.how = how /\ entry.sub = Current.sub
  BY DEF Noted
<1> HIDE DEF entry
<1>3. /\ IsList(log') /\ Len(log') = Len(log) + 1
      /\ \A i \in DOMAIN log' : \/ i \in DOMAIN log /\ log'[i] = log[i]
                                \/ i = Len(log) + 1 /\ log'[i] = entry
  BY <1>1, <1>2, ListAppend
<1>4. Len(log) \in Nat /\ DOMAIN log = 1..Len(log) /\ DOMAIN log' = 1..(Len(log) + 1)
  BY <1>1, <1>3, ListPlaces
<1>5. (\A i \in DOMAIN log : i \in DOMAIN log' /\ log'[i] = log[i])
  BY <1>3, <1>4
<1>6. Len(log) + 1 \in DOMAIN log' /\ log'[Len(log) + 1] = entry
  BY <1>3, <1>4
<1>7. ValidPlansDispatch'
  BY <1>1, <1>2, <1>3, Zenon DEF ValidPlansDispatch
<1>8. NothingUncheckedIsOpened'
  <2>1. CASE Current.sub
    <3>1. entry.sub
      BY <1>2, <2>1, Zenon
    <3>2. \E i \in DOMAIN log' : log'[i].sub
      BY <1>6, <3>1, Zenon
    <3> QED
      BY <3>2 DEF NothingUncheckedIsOpened
  <2>2. CASE ~ Current.sub
    <3>1. new \subseteq checked
      BY <2>2
    <3>2. CASE opened \subseteq checked
      BY <3>1, <3>2 DEF NothingUncheckedIsOpened
    <3>3. CASE \E i \in DOMAIN log : log[i].sub
      <4>1. \E i \in DOMAIN log' : log'[i].sub
        BY <1>5, <3>3, Zenon
      <4> QED
        BY <4>1 DEF NothingUncheckedIsOpened
    <3> QED
      BY <1>1, <3>2, <3>3 DEF NothingUncheckedIsOpened
  <2> QED
    BY <2>1, <2>2
<1> QED
  BY <1>1, <1>3, <1>7, <1>8 DEF LogOK

LEMMA StoreStays ==
  ASSUME StoreOK, UNCHANGED <<counts, data, table>>
  PROVE  StoreOK'
BY DEF StoreOK, NoReferenceIsStored, Read

\* A value is kept beside the others: what can be read is what could be, or
\* the value.
LEMMA StoreBinds ==
  ASSUME StoreOK, NEW key, NEW value \in Values, Names(value) \subseteq Shown, table' = table,
         \/ data' = Bind(data, key, value) /\ counts' = counts
         \/ counts' = Bind(counts, key, value) /\ data' = data
  PROVE  StoreOK'
<1>1. \A name \in DOMAIN Read' : \/ Read'[name] = value
                                 \/ name \in DOMAIN Read /\ Read'[name] = Read[name]
  <2>1. CASE data' = Bind(data, key, value) /\ counts' = counts
    BY <2>1 DEF Read, Bind
  <2>2. CASE counts' = Bind(counts, key, value) /\ data' = data
    BY <2>2 DEF Read, Bind
  <2> QED
    BY <2>1, <2>2
<1>2. /\ table \in Seq(Values) /\ \A name \in DOMAIN Read : Read[name] \in Values
      /\ \A i \in DOMAIN table : Names(table[i]) \subseteq Shown
      /\ \A name \in DOMAIN Read : Names(Read[name]) \subseteq Shown
  BY DEF StoreOK, NoReferenceIsStored
<1>3. \A name \in DOMAIN Read' : Read'[name] \in Values /\ Names(Read'[name]) \subseteq Shown
  BY <1>1, <1>2
<1> QED
  BY <1>2, <1>3 DEF StoreOK, NoReferenceIsStored

\* A row is written whole: nothing is bound that is not resolved.
LEMMA StoreWrites ==
  ASSUME StoreOK, NEW value \in Values, Missing(value, Read) = {},
         table' = Append(table, Resolve(value, Read)), UNCHANGED <<counts, data>>
  PROVE  StoreOK'
<1> DEFINE row == Resolve(value, Read)
<1>1. /\ table \in Seq(Values) /\ \A name \in DOMAIN Read : Read[name] \in Values
      /\ \A i \in DOMAIN table : Names(table[i]) \subseteq Shown
      /\ \A name \in DOMAIN Read : Names(Read[name]) \subseteq Shown
  BY DEF StoreOK, NoReferenceIsStored
<1>2. row \in Values
  BY <1>1, ResolveType
<1>3. Names(row) \subseteq Shown
  BY <1>1, ResolveClean
<1> HIDE DEF row
<1>4. table' \in Seq(Values) /\ \A i \in DOMAIN table' : table'[i] = row \/ (i \in DOMAIN table /\ table'[i] = table[i])
  BY <1>1, <1>2 DEF row
<1>5. \A i \in DOMAIN table' : Names(table'[i]) \subseteq Shown
  BY <1>1, <1>3, <1>4
<1>6. Read' = Read
  BY DEF Read
<1> QED
  BY <1>1, <1>4, <1>5, <1>6 DEF StoreOK, NoReferenceIsStored

\* While a list is being run the plan stays as it is.
LEMMA Goes ==
  ASSUME IInv, Running, UNCHANGED planVars, calls' # << >>
  PROVE  PlanOK' /\ OnlyWhileRunning' /\ plan' = plan /\ checked' = checked
<1>1. UNCHANGED <<files, stack, plan, checked, phase>>
  BY DEF planVars
<1>2. PlanOK'
  BY PlanStays DEF IInv
<1>3. OnlyWhileRunning'
  BY <1>1 DEF OnlyWhileRunning, Running
<1> QED
  BY <1>1, <1>2, <1>3

LEMMA ReachedKeeps ==
  ASSUME IInv, Reached, checked' = checked
  PROVE  LogOK'
<1>1. AtStep /\ CanAct /\ Running
  BY DEF Reached, AtStep
<1>2. PICK asked \in Asks : /\ GuardSays({"yes", "raises"}, asked)
                            /\ opened' = opened \cup asked \cup ({Action.domain} \ {"none"})
  BY DEF Reached
<1>3. asked \subseteq PlanDomains /\ asked \subseteq DomainNames
  BY <1>2, GuardAsks DEF Asks
<1>4. checked = PlanDomains
  BY <1>1, CurrentType
<1> DEFINE new == asked \cup ({Action.domain} \ {"none"})
           how == IF UnknownGuard THEN "unknown" ELSE "reached"
<1>5. new \subseteq DomainNames
  BY <1>1, <1>3 DEF CanAct
<1>6. Current.sub \/ (how # "unknown" /\ new \subseteq checked)
  BY <1>1, <1>3, <1>4, StepSound
<1>7. opened' = opened \cup new /\ Noted(how, {})
  BY <1>2 DEF Reached
<1> HIDE DEF new, how
<1> QED
  BY <1>1, <1>5, <1>6, <1>7, LogKeeps

(***************************************************************************)
(* The actions.                                                            *)
(***************************************************************************)

LEMMA InitOK == Init => IInv
<1> SUFFICES ASSUME Init PROVE IInv
  OBVIOUS
<1>1. PlanOK
  BY PlanInitOK DEF Init
<1>2. /\ calls = << >> /\ counts = << >> /\ data = << >> /\ table = << >> /\ opened = {} /\ log = << >>
      /\ phase = "planning"
  BY DEF Init, PlanInit
<1>3. DOMAIN calls = {} /\ DOMAIN log = {} /\ DOMAIN table = {} /\ DOMAIN Read = {}
  BY <1>2 DEF Read
<1>4. CallsOK
  BY <1>2, <1>3, NoSteps DEF CallsOK
<1>5. StoreOK
  BY <1>2, <1>3 DEF StoreOK, NoReferenceIsStored
<1>6. LogOK
  BY <1>2, <1>3, NoSteps DEF LogOK, ValidPlansDispatch, NothingUncheckedIsOpened
<1>7. OnlyWhileRunning
  BY <1>2 DEF OnlyWhileRunning
<1> QED
  BY <1>1, <1>4, <1>5, <1>6, <1>7 DEF IInv

LEMMA PlanNextKeeps ==
  ASSUME IInv, PlanNext, UNCHANGED runVars
  PROVE  IInv'
<1>1. UNCHANGED <<calls, counts, data, table, opened, log>>
  BY DEF runVars
<1>2. PlanOK'
  BY PlanNextOK DEF IInv
<1>3. phase \notin {"running", "over"} /\ phase' \notin {"running", "over"}
  BY DEF PlanNext, ReadFile, KeepStep, Include, Included, Planned, Validate, Preflight, Expanding, Refuse
<1>4. calls = << >> /\ opened = {}
  BY <1>3 DEF IInv, OnlyWhileRunning
<1>5. DOMAIN calls' = {} /\ IsList(calls')
  BY <1>1, <1>4, NoSteps
<1>6. CallsOK'
  BY <1>5 DEF CallsOK
<1>7. StoreOK'
  BY <1>1, StoreStays DEF IInv
<1>8. LogOK'
  BY <1>1, <1>4 DEF IInv, LogOK, ValidPlansDispatch, NothingUncheckedIsOpened
<1>9. OnlyWhileRunning'
  BY <1>1, <1>3, <1>4 DEF OnlyWhileRunning
<1> QED
  BY <1>2, <1>6, <1>7, <1>8, <1>9 DEF IInv

LEMMA OwnDomains ==
  ASSUME NEW i \in DOMAIN plan
  PROVE  DomainsWithin(plan[i]) \subseteq PlanDomains \cup {"none"}
<1> DEFINE within == UNION {DomainsWithin(plan[j]) : j \in DOMAIN plan}
<1>1. DomainsUsed(plan) = within \ {"none"}
  BY Zenon DEF DomainsUsed, within
<1>2. DomainsWithin(plan[i]) \subseteq within
  BY Zenon
<1> HIDE DEF within
<1> QED
  BY <1>1, <1>2 DEF PlanDomains

LEMMA StartKeeps ==
  ASSUME IInv, Start
  PROVE  IInv'
<1> DEFINE list == List("run", plan, FALSE)
<1>1. /\ phase = "accepted" /\ phase' = "running" /\ calls' = <<list>> /\ opened' = {Primary}
      /\ UNCHANGED <<files, stack, plan, checked, counts, data, table, log>>
  BY DEF Start
<1>2. PlanDomains' = PlanDomains /\ Vocabulary' = Vocabulary
  BY <1>1, SamePlan
<1>3. PlanOK
  BY DEF IInv
<1>4. /\ checked = PlanDomains /\ PlanDomains \subseteq DomainNames
      /\ \A i \in DOMAIN plan : IsSound(plan[i], Vocabulary)
  BY <1>1, <1>3 DEF PlanOK, PlanIsVetted, PreflightAsked
<1>5. PlanOK'
  BY <1>1, <1>2, <1>3, <1>4 DEF PlanOK, PlanTypeOK, PathsDiffer, PlanIsVetted, PreflightAsked
<1>6. IsVetted(plan, PlanDomains, Vocabulary)
  BY <1>4, OwnDomains DEF IsVetted
<1>7. IsRunning(list) /\ list.steps = plan
  BY <1>3 DEF List, IsRunning, Lists, PlanOK, PlanTypeOK, AreSteps
<1> HIDE DEF list
<1>8. IsList(calls') /\ DOMAIN calls' = {1} /\ calls'[1] = list /\ calls' # << >>
  BY <1>1 DEF IsList
<1>9. CallsOK'
  BY <1>1, <1>2, <1>6, <1>7, <1>8 DEF CallsOK
<1>10. StoreOK'
  BY <1>1, StoreStays DEF IInv
<1>11. Primary \in PlanDomains
  BY DEF PlanDomains
<1>12. LogOK'
  BY <1>1, <1>4, <1>11 DEF IInv, LogOK, ValidPlansDispatch, NothingUncheckedIsOpened
<1>13. OnlyWhileRunning'
  BY <1>1, <1>8 DEF OnlyWhileRunning
<1> QED
  BY <1>5, <1>9, <1>10, <1>12, <1>13 DEF IInv

LEMMA StepUnresolvedKeeps ==
  ASSUME IInv, StepUnresolved
  PROVE  IInv'
<1>1. /\ AtStep /\ calls' = Replace(After(FALSE)) /\ Noted("unresolved", Unresolved)
      /\ opened' = opened /\ UNCHANGED <<planVars, counts, data, table>>
  BY DEF StepUnresolved, Unchanged
<1>2. Running /\ UNCHANGED <<plan, checked>>
  BY <1>1 DEF AtStep, planVars
<1>3. CallsOK' /\ calls' # << >>
  BY <1>1, <1>2, AfterMoves
<1>4. PlanOK' /\ OnlyWhileRunning'
  BY <1>1, <1>2, <1>3, Goes
<1>5. StoreOK'
  BY <1>1, StoreStays DEF IInv
<1> DEFINE none == {}
<1>6. opened' = opened \cup none /\ none \subseteq DomainNames /\ none \subseteq checked
  BY <1>1
<1> HIDE DEF none
<1>7. LogOK'
  BY <1>1, <1>2, <1>6, LogKeeps
<1> QED
  BY <1>3, <1>4, <1>5, <1>7 DEF IInv

LEMMA StepSkippedKeeps ==
  ASSUME IInv, StepSkipped
  PROVE  IInv'
<1>1. /\ AtStep /\ calls' = Replace(After(TRUE)) /\ Noted("skipped", {})
      /\ UNCHANGED <<planVars, counts, data, table>>
  BY DEF StepSkipped, Unchanged
<1>2. Running /\ UNCHANGED <<plan, checked>>
  BY <1>1 DEF AtStep, planVars
<1>3. CallsOK' /\ calls' # << >>
  BY <1>1, <1>2, AfterMoves
<1>4. PlanOK' /\ OnlyWhileRunning'
  BY <1>1, <1>2, <1>3, Goes
<1>5. StoreOK'
  BY <1>1, StoreStays DEF IInv
<1>6. PICK asked \in Asks : GuardSays({"no"}, asked) /\ opened' = opened \cup asked
  BY DEF StepSkipped
<1>7. asked \subseteq PlanDomains /\ asked \subseteq DomainNames /\ checked = PlanDomains
  BY <1>2, <1>6, GuardAsks, CurrentType DEF Asks
<1>8. LogOK'
  BY <1>1, <1>2, <1>6, <1>7, LogKeeps
<1> QED
  BY <1>3, <1>4, <1>5, <1>8 DEF IInv

\* Only a subflow comes to an action it cannot carry out.
LEMMA CannotActKeeps ==
  ASSUME IInv, CannotAct
  PROVE  IInv'
<1> DEFINE given == [Current EXCEPT !.failed = TRUE, !.next = Len(Current.steps) + 1]
<1>1. /\ AtStep /\ ~ CanAct /\ Noted("unknown", {})
      /\ calls' = Replace(IF InRun THEN After(FALSE) ELSE given)
      /\ UNCHANGED <<planVars, counts, data, table>>
  BY DEF CannotAct, Unchanged
<1>2. Running /\ UNCHANGED <<plan, checked>>
  BY <1>1 DEF AtStep, planVars
<1>3. Current.sub
  <2>1. Current.sub \in BOOLEAN
    BY <1>2, CurrentType DEF IsRunning
  <2> QED
    BY <1>1, <2>1, StepSound
<1>4. CallsOK' /\ calls' # << >>
  <2>1. CASE InRun
    BY <1>1, <1>2, <2>1, AfterMoves
  <2>2. CASE ~ InRun
    <3>1. IsRunning(Current)
      BY <1>2, CurrentType
    <3>2. IsRunning(given) /\ given.sub = Current.sub /\ given.steps = Current.steps
      BY <3>1 DEF IsRunning, Lists
    <3> HIDE DEF given
    <3>3. calls' = Replace(given)
      BY <1>1, <2>2
    <3> QED
      BY <1>2, <3>2, <3>3, CallMoves
  <2> QED
    BY <2>1, <2>2
<1>5. PlanOK' /\ OnlyWhileRunning'
  BY <1>1, <1>2, <1>4, Goes
<1>6. StoreOK'
  BY <1>1, StoreStays DEF IInv
<1>7. PICK asked \in Asks : opened' = opened \cup asked
  BY DEF CannotAct
<1>8. asked \subseteq DomainNames
  BY DEF Asks
<1>9. LogOK'
  BY <1>1, <1>2, <1>3, <1>7, <1>8, LogKeeps
<1> QED
  BY <1>4, <1>5, <1>6, <1>9 DEF IInv

\* A step that is carried out, and what it does to the store.
LEMMA ReachedMoves ==
  ASSUME IInv, Reached, UNCHANGED planVars, StoreOK', CallsOK', calls' # << >>
  PROVE  IInv'
<1>1. Running /\ UNCHANGED <<plan, checked>>
  BY DEF Reached, AtStep, planVars
<1>2. PlanOK' /\ OnlyWhileRunning'
  BY <1>1, Goes
<1>3. LogOK'
  BY <1>1, ReachedKeeps
<1> QED
  BY <1>2, <1>3 DEF IInv

LEMMA PageActsKeeps ==
  ASSUME IInv, PageActs
  PROVE  IInv'
<1>1. Reached /\ AtStep /\ UNCHANGED <<planVars, counts, data, table>> /\ plan' = plan
  BY DEF PageActs, Reached, Unchanged, planVars
<1>2. CallsOK' /\ calls' # << >>
  BY <1>1, AfterMoves DEF PageActs
<1>3. StoreOK'
  BY <1>1, StoreStays DEF IInv
<1> QED
  BY <1>1, <1>2, <1>3, ReachedMoves

LEMMA PageStoresKeeps ==
  ASSUME IInv, PageStores
  PROVE  IInv'
<1>1. /\ Reached /\ AtStep /\ UNCHANGED <<planVars, counts, table>> /\ plan' = plan
      /\ calls' = Replace(After(TRUE))
  BY DEF PageStores, Reached, planVars
<1>2. CallsOK' /\ calls' # << >>
  BY <1>1, AfterMoves
<1>3. PICK value \in Scraped : data' = Bind(data, Step.key, value)
  BY DEF PageStores
<1>4. value \in Values /\ Names(value) \subseteq Shown
  BY AnswersAssumption DEF Shown
<1>5. StoreOK'
  BY <1>1, <1>3, <1>4, StoreBinds DEF IInv
<1> QED
  BY <1>1, <1>2, <1>5, ReachedMoves

LEMMA DbExecutesKeeps ==
  ASSUME IInv, DbExecutes
  PROVE  IInv'
<1>1. /\ Reached /\ AtStep /\ UNCHANGED <<planVars, counts, data>> /\ plan' = plan
      /\ \/ Bindable /\ table' = Append(table, Bound) /\ calls' = Replace(After(TRUE))
         \/ table' = table /\ calls' = Replace(After(FALSE))
  BY DEF DbExecutes, Reached, planVars
<1>2. CallsOK' /\ calls' # << >>
  <2>1. \E ok \in BOOLEAN : calls' = Replace(After(ok))
    BY <1>1
  <2> QED
    BY <1>1, <2>1, AfterMoves
<1>3. Step.param \in Values
  BY <1>1, StepType DEF IsNode
<1>4. StoreOK'
  <2>1. CASE table' = table
    BY <1>1, <2>1, StoreStays DEF IInv
  <2>2. CASE Bindable /\ table' = Append(table, Bound)
    BY <1>1, <1>3, <2>2, StoreWrites DEF IInv, Bindable, Bound
  <2> QED
    BY <1>1, <2>1, <2>2
<1> QED
  BY <1>1, <1>2, <1>4, ReachedMoves

LEMMA DbQueriesKeeps ==
  ASSUME IInv, DbQueries
  PROVE  IInv'
<1>1. /\ Reached /\ AtStep /\ UNCHANGED <<planVars, table>> /\ plan' = plan
      /\ \E ok \in BOOLEAN : calls' = Replace(After(ok))
  BY DEF DbQueries, Reached, planVars
<1>2. CallsOK' /\ calls' # << >>
  BY <1>1, AfterMoves
<1>3. StoreOK'
  <2>1. CASE UNCHANGED <<counts, data>>
    BY <1>1, <2>1, StoreStays DEF IInv
  <2>2. CASE \E value \in Counts \cup {table[i] : i \in DOMAIN table} :
               IF value.type = "int"
               THEN counts' = Bind(counts, Step.key, value) /\ UNCHANGED data
               ELSE data' = Bind(data, Step.key, value) /\ UNCHANGED counts
    <3>1. PICK value \in Counts \cup {table[i] : i \in DOMAIN table} :
            \/ data' = Bind(data, Step.key, value) /\ counts' = counts
            \/ counts' = Bind(counts, Step.key, value) /\ data' = data
      BY <2>2
    <3>2. value \in Values /\ Names(value) \subseteq Shown
      <4>1. CASE value \in Counts
        BY <4>1, AnswersAssumption
      <4>2. CASE \E i \in DOMAIN table : value = table[i]
        BY <4>2 DEF IInv, StoreOK, NoReferenceIsStored
      <4> QED
        BY <4>1, <4>2
    <3> QED
      BY <1>1, <3>1, <3>2, StoreBinds DEF IInv
  <2> QED
    BY <2>1, <2>2 DEF DbQueries
<1> QED
  BY <1>1, <1>2, <1>3, ReachedMoves

LEMMA DbAssertsKeeps ==
  ASSUME IInv, DbAsserts
  PROVE  IInv'
<1>1. /\ Reached /\ AtStep /\ UNCHANGED <<planVars, counts, data, table>> /\ plan' = plan
      /\ \E ok \in BOOLEAN : calls' = Replace(After(ok))
  BY DEF DbAsserts, Reached, Unchanged, planVars
<1>2. CallsOK' /\ calls' # << >>
  BY <1>1, AfterMoves
<1>3. StoreOK'
  BY <1>1, StoreStays DEF IInv
<1> QED
  BY <1>1, <1>2, <1>3, ReachedMoves

LEMMA LoopStartsKeeps ==
  ASSUME IInv, LoopStarts
  PROVE  IInv'
<1> DEFINE list == List("each", Body(Resolved), Current.sub)
<1>1. /\ Reached /\ AtStep /\ Running /\ CanAct /\ Action.does = "each" /\ plan' = plan
      /\ UNCHANGED <<planVars, counts, data, table>>
      /\ calls' = IF Items = << >> THEN Replace(After(TRUE)) ELSE Append(calls, list)
  BY DEF LoopStarts, Reached, AtStep, Unchanged, planVars
<1>2. StoreOK'
  BY <1>1, StoreStays DEF IInv
<1>3. CASE Items = << >>
  <2>1. CallsOK' /\ calls' # << >>
    BY <1>1, <1>3, AfterMoves
  <2> QED
    BY <1>1, <1>2, <2>1, ReachedMoves
<1>4. CASE Items # << >>
  <2>1. /\ IsStep(Resolved)
        /\ ~ Current.sub => /\ IsSound(Resolved, Vocabulary)
                            /\ DomainsWithin(Resolved) \subseteq PlanDomains \cup {"none"}
    BY <1>1, StepType
  <2>2. Dispatches(Own(Resolved).action)
    BY <1>1 DEF CanAct, Action, Dispatches, Step
  <2>3. \A i \in DOMAIN Body(Resolved) : IsStep(Body(Resolved)[i])
    BY <2>1, BodyType
  <2>4. ASSUME ~ Current.sub
        PROVE  IsVetted(Body(Resolved), PlanDomains, Vocabulary)
    BY <2>1, <2>2, <2>4, BodySound DEF IsVetted
  <2>5. 1 \in DOMAIN Items
    BY <1>4, AnswersAssumption
  <2>6. Current.sub \in BOOLEAN
    BY <1>1, CurrentType DEF IsRunning
  <2>7. IsRunning(list) /\ list.sub = Current.sub /\ list.steps = Body(Resolved)
    BY <2>3, <2>5, <2>6 DEF List, IsRunning, Lists
  <2> HIDE DEF list
  <2>8. CallsOK' /\ calls' # << >>
    BY <1>1, <1>4, <2>4, <2>7, CallStarts
  <2> QED
    BY <1>1, <1>2, <2>8, ReachedMoves
<1> QED
  BY <1>3, <1>4

LEMMA SubflowStartsKeeps ==
  ASSUME IInv, SubflowStarts
  PROVE  IInv'
<1> DEFINE steps == SubstituteAll(files[Step.path].steps, Merged(files[Step.path].variables, Step.vars))
           list == List("run", steps, TRUE)
<1>1. /\ Reached /\ AtStep /\ plan' = plan /\ UNCHANGED <<planVars, counts, data, table>>
      /\ calls' = IF Step.path \notin DOMAIN files THEN Replace(After(FALSE)) ELSE Append(calls, list)
  BY DEF SubflowStarts, Reached, AtStep, Unchanged, planVars
<1>2. StoreOK'
  BY <1>1, StoreStays DEF IInv
<1>3. CASE Step.path \notin DOMAIN files
  <2>1. CallsOK' /\ calls' # << >>
    BY <1>1, <1>3, AfterMoves
  <2> QED
    BY <1>1, <1>2, <2>1, ReachedMoves
<1>4. CASE Step.path \in DOMAIN files
  <2>1. files[Step.path].variables \in Bindings /\ AreSteps(files[Step.path].steps)
    BY <1>4, FileTypes DEF IInv, PlanOK, PlanTypeOK
  <2>2. Step.vars \in Bindings
    BY <1>1, StepType DEF IsNode
  <2>3. AreSteps(steps)
    BY <2>1, <2>2, MergedType, SubstituteAllType
  <2> HIDE DEF steps
  <2>4. IsRunning(list) /\ list.sub
    BY <2>3 DEF List, IsRunning, Lists, AreSteps
  <2> HIDE DEF list
  <2>5. CallsOK' /\ calls' # << >>
    BY <1>1, <1>4, <2>4, CallStarts
  <2> QED
    BY <1>1, <1>2, <2>5, ReachedMoves
<1> QED
  BY <1>3, <1>4

LEMMA NextItemKeeps ==
  ASSUME IInv, NextItem
  PROVE  IInv'
<1> DEFINE call == [Current EXCEPT !.round = Current.round + 1, !.next = 1]
<1>1. /\ Running /\ Current.kind = "each" /\ Current.round < Len(Items) /\ calls' = Replace(call)
      /\ UNCHANGED <<planVars, opened, log, counts, data, table>>
  BY DEF NextItem, AtEnd, Unchanged
<1>2. UNCHANGED <<plan, checked>>
  BY <1>1 DEF planVars
<1>3. IsRunning(Current)
  BY <1>1, CurrentType
<1>4. Items \in Seq(Values) /\ Current.round \in DOMAIN Items
  BY <1>1, <1>3, AnswersAssumption DEF IsRunning
<1>5. Current.round + 1 \in DOMAIN Items
  BY <1>1, <1>4
<1>6. IsRunning(call) /\ call.sub = Current.sub /\ call.steps = Current.steps
  BY <1>3, <1>5 DEF IsRunning, Lists
<1> HIDE DEF call
<1>7. CallsOK' /\ calls' # << >>
  BY <1>1, <1>2, <1>6, CallMoves
<1>8. PlanOK' /\ OnlyWhileRunning'
  BY <1>1, <1>7, Goes
<1>9. StoreOK'
  BY <1>1, StoreStays DEF IInv
<1>10. LogOK'
  BY <1>1, <1>2 DEF IInv, LogOK, ValidPlansDispatch, NothingUncheckedIsOpened
<1> QED
  BY <1>7, <1>8, <1>9, <1>10 DEF IInv

LEMMA ReturnsKeeps ==
  ASSUME IInv, Returns
  PROVE  IInv'
<1>1. Running /\ UNCHANGED <<files, stack, plan, checked, opened, log, counts, data, table>>
  BY DEF Returns, AtEnd
<1>2. calls # << >> /\ IsList(calls) /\ Len(calls) \in DOMAIN calls
  BY <1>1, CurrentType
<1>3. StoreOK' /\ LogOK'
  BY <1>1, StoreStays DEF IInv, LogOK, ValidPlansDispatch, NothingUncheckedIsOpened
<1>4. PlanDomains' = PlanDomains /\ Vocabulary' = Vocabulary
  BY <1>1, SamePlan
<1>5. CASE Len(calls) = 1
  <2>1. calls' = << >> /\ phase' = "over"
    BY <1>5 DEF Returns
  <2>2. PlanOK'
    BY <1>1, <1>4, <2>1 DEF IInv, PlanOK, PlanTypeOK, PathsDiffer, PlanIsVetted, PreflightAsked, Running
  <2>3. DOMAIN calls' = {} /\ IsList(calls')
    BY <2>1, NoSteps
  <2>4. CallsOK'
    BY <2>3 DEF CallsOK
  <2>5. OnlyWhileRunning'
    BY <2>1 DEF OnlyWhileRunning
  <2> QED
    BY <1>3, <2>2, <2>4, <2>5 DEF IInv
<1>6. CASE Len(calls) # 1
  <2> DEFINE caller == calls[Len(calls) - 1]
             ok == ~ Current.failed
             goesOn == ok \/ caller.kind = "each" \/ Own(caller.steps[caller.next]).cont = "yes"
             call == [caller EXCEPT !.failed = caller.failed \/ ~ ok,
                                    !.next = IF goesOn THEN caller.next + 1 ELSE Len(caller.steps) + 1]
  <2>1. calls' = Returned(calls, call) /\ phase' = phase
    BY <1>6 DEF Returns, Returned
  <2>2. Len(calls) > 1 /\ Len(calls) - 1 \in DOMAIN calls
    BY <1>2, <1>6, ListPlaces
  <2>3. /\ \A i \in DOMAIN calls : IsRunning(calls[i])
        /\ \A i \in DOMAIN calls : ~ calls[i].sub => IsVetted(calls[i].steps, PlanDomains, Vocabulary)
    BY DEF IInv, CallsOK
  <2>4. IsRunning(caller)
    BY <2>2, <2>3
  <2> HIDE DEF caller
  <2>5. IsRunning(call) /\ call.sub = caller.sub /\ call.steps = caller.steps
    BY <2>4 DEF IsRunning, Lists
  <2> HIDE DEF call
  <2>6. /\ IsList(calls') /\ calls' # << >> /\ Len(calls') = Len(calls) - 1
        /\ \A i \in DOMAIN calls' : /\ i \in DOMAIN calls
                                    /\ calls'[i] = IF i = Len(calls) - 1 THEN call ELSE calls[i]
    BY <1>2, <2>1, <2>2, ListReturn
  <2>7. \A i \in DOMAIN calls' : IsRunning(calls'[i])
    BY <2>3, <2>5, <2>6
  <2>8. \A i \in DOMAIN calls' : /\ i \in DOMAIN calls
                                 /\ calls'[i].sub = calls[i].sub /\ calls'[i].steps = calls[i].steps
    BY <2>5, <2>6 DEF caller
  <2>9. \A i \in DOMAIN calls' : ~ calls'[i].sub => IsVetted(calls'[i].steps, PlanDomains', Vocabulary')
    BY <1>4, <2>3, <2>8
  <2>10. CallsOK'
    BY <2>6, <2>7, <2>9 DEF CallsOK
  <2>11. UNCHANGED planVars
    BY <1>1, <2>1 DEF planVars
  <2>12. PlanOK' /\ OnlyWhileRunning'
    BY <1>1, <2>6, <2>11, Goes
  <2> QED
    BY <1>3, <2>10, <2>12 DEF IInv
<1> QED
  BY <1>5, <1>6

LEMMA NextKeeps ==
  ASSUME IInv, [Next]_vars
  PROVE  IInv'
<1>1. CASE PlanNext /\ UNCHANGED runVars
  BY <1>1, PlanNextKeeps
<1>2. CASE RunNext
  BY <1>2, StartKeeps, StepUnresolvedKeeps, StepSkippedKeeps, CannotActKeeps, PageActsKeeps,
     PageStoresKeeps, DbExecutesKeeps, DbQueriesKeeps, DbAssertsKeeps, LoopStartsKeeps,
     SubflowStartsKeeps, NextItemKeeps, ReturnsKeeps DEF RunNext
<1>3. CASE UNCHANGED vars
  <2>1. /\ UNCHANGED planVars /\ UNCHANGED <<files, stack, plan, checked, phase>>
        /\ UNCHANGED <<calls, counts, data, table, opened, log>>
    BY <1>3 DEF vars, planVars, runVars
  <2>2. PlanDomains' = PlanDomains /\ Vocabulary' = Vocabulary
    BY <2>1, SamePlan
  <2>3. PlanOK'
    BY <2>1, PlanStays DEF IInv
  <2>4. StoreOK'
    BY <2>1, StoreStays DEF IInv
  <2>5. CallsOK'
    BY <2>1, <2>2 DEF IInv, CallsOK
  <2>6. LogOK' /\ OnlyWhileRunning'
    BY <2>1 DEF IInv, LogOK, ValidPlansDispatch, NothingUncheckedIsOpened, OnlyWhileRunning
  <2> QED
    BY <2>3, <2>4, <2>5, <2>6 DEF IInv
<1> QED
  BY <1>1, <1>2, <1>3 DEF Next

(***************************************************************************)
(* The theorems.                                                           *)
(***************************************************************************)

\* The invariant is inductive: it holds of a run from its first file to its
\* last list, for every workspace, registry and page.
THEOREM InvHolds == Spec => []IInv
<1>1. Init => IInv
  BY InitOK
<1>2. IInv /\ [Next]_vars => IInv'
  BY NextKeeps
<1> QED
  BY <1>1, <1>2, PTL DEF Spec

\* Types: expanding includes, substituting variables, configuring a plan,
\* resolving the references of a step, taking the body out of a loop and reading
\* a subflow all make steps out of steps, and what is read and stored is a value
\* (planner.py, interpolation.py, flow.py, subflow.py).
THEOREM TypeCorrect == Spec => []TypeOK
<1>1. IInv => TypeOK
  BY IInvTypeOK
<1> QED
  BY <1>1, InvHolds, PTL

\* However files include each other, _expand_includes never nests deeper than
\* there are files; and a plan that PlanValidator let through never comes to an
\* action it cannot carry out or to a condition nobody registered, however deep
\* in whatever loop, unless a subflow was read that nobody validated.
THEOREM PlansAreSound == Spec => []AcceptedPlansAreSound
<1>1. IInv => AcceptedPlansAreSound
  BY NestWithin DEF IInv, PlanOK, LogOK, AcceptedPlansAreSound
<1> QED
  BY <1>1, InvHolds, PTL

\* Every session a step, a loop or a guard opens is of a domain whose preflight
\* was asked before anything opened (prepare_run, domains.py), but for those a
\* subflow opens.
THEOREM OnlyCheckedIsOpened == Spec => []NothingUncheckedIsOpened
<1>1. IInv => NothingUncheckedIsOpened
  BY DEF IInv, LogOK
<1> QED
  BY <1>1, InvHolds, PTL

\* No row of the database and no stored value holds a reference but what a page
\* itself showed: each of the passes resolves, reports or refuses it
\* (interpolation.py, sites/db/params.py).
THEOREM NoReferences == Spec => []NoReferenceIsStored
<1>1. IInv => NoReferenceIsStored
  BY DEF IInv, StoreOK
<1> QED
  BY <1>1, InvHolds, PTL
=============================================================================
