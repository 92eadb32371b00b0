---------------------------- MODULE WebStepProofs ----------------------------
(***************************************************************************)
(* Proofs about WebStep, for all pages that change under all steps: a      *)
(* strict step touches an element that its own cfg names, what the         *)
(* resolver settles on can take the action, a direct heal hits the element *)
(* that was chosen for it, no comparison that ended in time is missing in  *)
(* the drift log's file, and every variable keeps its type.                *)
(***************************************************************************)
EXTENDS WebStep, FiniteSetTheorems, TLAPS

(***************************************************************************)
(* Places and orders                                                       *)
(***************************************************************************)

\* A relation that is a strict total order on a set.
Orders(order, S) ==
  /\ \A x \in S : <<x, x>> \notin order
  /\ \A x, y, z \in S : <<x, y>> \in order /\ <<y, z>> \in order => <<x, z>> \in order
  /\ \A x, y \in S : x = y \/ <<x, y>> \in order \/ <<y, x>> \in order

\* What InOrder promises: every element of the set, each after those before it.
LEMMA InOrderLists ==
  ASSUME NEW S, IsFiniteSet(S), NEW order, Orders(order, S)
  PROVE  /\ Cardinality(S) \in Nat
         /\ InOrder(S, order) \in [1..Cardinality(S) -> S]
         /\ \A x \in S : \E k \in 1..Cardinality(S) : InOrder(S, order)[k] = x
         /\ \A k, l \in 1..Cardinality(S) :
              k < l => <<InOrder(S, order)[k], InOrder(S, order)[l]>> \in order
<1> DEFINE n == Cardinality(S)
           ahead(x) == {y \in S : <<y, x>> \in order}
           rank == [x \in S |-> Cardinality(ahead(x))]
           q == InOrder(S, order)
<1>1. n \in Nat
  BY FS_CardinalityType
<1>2. \A x \in S : IsFiniteSet(ahead(x)) /\ Cardinality(ahead(x)) \in Nat
  BY FS_Subset, FS_CardinalityType
<1>3. ASSUME NEW x \in S PROVE rank[x] \in 0..(n - 1)
  <2>1. ahead(x) \in SUBSET S /\ ahead(x) # S
    BY DEF Orders
  <2>2. Cardinality(ahead(x)) <= n /\ Cardinality(ahead(x)) # n
    BY <2>1, FS_Subset
  <2> QED BY <1>1, <1>2, <2>2
<1>4. ASSUME NEW x \in S, NEW y \in S, <<x, y>> \in order PROVE rank[x] < rank[y]
  <2>1. ahead(x) \in SUBSET ahead(y) /\ ahead(x) # ahead(y)
    BY <1>4 DEF Orders
  <2>2. Cardinality(ahead(x)) <= Cardinality(ahead(y)) /\ Cardinality(ahead(x)) # Cardinality(ahead(y))
    BY <1>2, <2>1, FS_Subset
  <2> QED BY <1>2, <2>2
<1>5. \A x, y \in S : rank[x] = rank[y] => x = y
  <2> SUFFICES ASSUME NEW x \in S, NEW y \in S, rank[x] = rank[y], x # y PROVE FALSE
    OBVIOUS
  <2>1. rank[x] \in Int /\ rank[y] \in Int
    BY <1>3
  <2>2. <<x, y>> \in order \/ <<y, x>> \in order
    BY DEF Orders
  <2> HIDE DEF rank
  <2> QED BY <1>4, <2>1, <2>2
<1>6. \A m \in 0..(n - 1) : \E x \in S : rank[x] = m
  <2>1. rank \in Injection(S, 0..(n - 1))
    BY <1>3, <1>5 DEF Injection, IsInjective
  <2>2. IsFiniteSet(0..(n - 1)) /\ Cardinality(0..(n - 1)) = n
    BY <1>1, FS_Interval
  <2>3. rank \in Surjection(S, 0..(n - 1))
    BY <2>1, <2>2, FS_Injection
  <2> QED BY <2>3 DEF Surjection
<1>7. q = [k \in 1..n |-> CHOOSE x \in S : Cardinality(ahead(x)) = k - 1]
  BY DEF InOrder
<1>8. \A x \in S : rank[x] = Cardinality(ahead(x))
  OBVIOUS
<1> HIDE DEF rank, q, ahead
<1>9. ASSUME NEW k \in 1..n PROVE q[k] \in S /\ rank[q[k]] = k - 1
  <2>1. k - 1 \in 0..(n - 1)
    BY <1>1
  <2>2. \E x \in S : Cardinality(ahead(x)) = k - 1
    BY <1>6, <1>8, <2>1
  <2>3. q[k] \in S /\ Cardinality(ahead(q[k])) = k - 1
    BY <1>7, <2>2
  <2> QED BY <1>8, <2>3
<1>10. q \in [1..n -> S]
  BY <1>7, <1>9
<1>11. \A x \in S : \E k \in 1..n : q[k] = x
  <2> SUFFICES ASSUME NEW x \in S PROVE \E k \in 1..n : q[k] = x
    OBVIOUS
  <2>1. rank[x] + 1 \in 1..n /\ (rank[x] + 1) - 1 = rank[x]
    BY <1>1, <1>3
  <2>2. q[rank[x] + 1] = x
    BY <1>5, <1>9, <2>1
  <2> QED BY <2>1, <2>2
<1>12. \A k, l \in 1..n : k < l => <<q[k], q[l]>> \in order
  <2> SUFFICES ASSUME NEW k \in 1..n, NEW l \in 1..n, k < l PROVE <<q[k], q[l]>> \in order
    OBVIOUS
  <2>1. q[k] \in S /\ q[l] \in S /\ rank[q[k]] < rank[q[l]]
    BY <1>1, <1>9
  <2>2. q[k] # q[l] /\ <<q[l], q[k]>> \notin order
    BY <1>3, <1>4, <2>1
  <2> QED BY <2>1, <2>2 DEF Orders
<1> QED BY <1>1, <1>10, <1>11, <1>12 DEF q

\* What AtPlaces promises: what is at the places, and nothing else.
LEMMA AtPlacesLists ==
  ASSUME NEW seq, NEW S, S \subseteq Nat, IsFiniteSet(S), S \subseteq DOMAIN seq
  PROVE  /\ AtPlaces(seq, S) \in Seq(ToSet(seq))
         /\ Len(AtPlaces(seq, S)) = Cardinality(S) /\ Cardinality(S) \in Nat
         /\ \A k \in 1..Len(AtPlaces(seq, S)) : \E i \in S : AtPlaces(seq, S)[k] = seq[i]
         /\ \A i \in S : \E k \in 1..Len(AtPlaces(seq, S)) : AtPlaces(seq, S)[k] = seq[i]
         /\ AtPlaces(seq, S) = << >> <=> S = {}
<1> DEFINE earlier == {p \in S \X S : p[1] < p[2]}
           n == Cardinality(S)
           q == InOrder(S, earlier)
<1>1. Orders(earlier, S)
  BY DEF Orders
<1> HIDE DEF earlier
<1>2. n \in Nat /\ q \in [1..n -> S] /\ \A x \in S : \E k \in 1..n : q[k] = x
  BY <1>1, InOrderLists
<1>3. AtPlaces(seq, S) = [k \in 1..n |-> seq[q[k]]]
  BY DEF AtPlaces, earlier
<1> HIDE DEF q
<1>4. [k \in 1..n |-> seq[q[k]]] \in [1..n -> ToSet(seq)]
  BY <1>2 DEF ToSet
<1>5. AtPlaces(seq, S) \in Seq(ToSet(seq)) /\ Len(AtPlaces(seq, S)) = n
  BY <1>2, <1>3, <1>4
<1>6. n = 0 <=> S = {}
  BY FS_EmptySet
<1>7. AtPlaces(seq, S) = << >> <=> n = 0
  BY <1>5
<1>8. \A k \in 1..n : \E i \in S : AtPlaces(seq, S)[k] = seq[i]
  BY <1>2, <1>3
<1>9. \A i \in S : \E k \in 1..n : AtPlaces(seq, S)[k] = seq[i]
  BY <1>2, <1>3
<1>10. /\ \A k \in 1..Len(AtPlaces(seq, S)) : \E i \in S : AtPlaces(seq, S)[k] = seq[i]
       /\ \A i \in S : \E k \in 1..Len(AtPlaces(seq, S)) : AtPlaces(seq, S)[k] = seq[i]
  BY <1>5, <1>8, <1>9
<1>11. Len(AtPlaces(seq, S)) = Cardinality(S) /\ Cardinality(S) \in Nat
  BY <1>2, <1>5
<1>12. AtPlaces(seq, S) = << >> <=> S = {}
  BY <1>6, <1>7
<1> HIDE DEF n
<1> QED BY <1>5, <1>10, <1>11, <1>12

\* What Ranked promises: the same candidates, none before one that is better.
LEMMA RankedLists ==
  ASSUME NEW seq, NEW n \in Nat, DOMAIN seq = 1..n, \A i \in 1..n : seq[i].score \in Int
  PROVE  /\ Ranked(seq) \in Seq(ToSet(seq)) /\ Len(Ranked(seq)) = n
         /\ \A i \in 1..n : \E k \in 1..n : Ranked(seq)[k] = seq[i]
         /\ \A k, l \in 1..n : k < l => Ranked(seq)[k].score >= Ranked(seq)[l].score
<1> DEFINE S == DOMAIN seq
           better == {p \in S \X S : \/ seq[p[1]].score > seq[p[2]].score
                                     \/ seq[p[1]].score = seq[p[2]].score /\ p[1] < p[2]}
           q == InOrder(S, better)
<1>1. IsFiniteSet(S) /\ Cardinality(S) = n
  BY FS_Interval
<1>2. \A x, y \in S : <<x, y>> \in better <=> \/ seq[x].score > seq[y].score
                                              \/ seq[x].score = seq[y].score /\ x < y
  OBVIOUS
<1>3. Orders(better, S)
  BY <1>2 DEF Orders
<1>4. Ranked(seq) = [k \in 1..Cardinality(S) |-> seq[q[k]]]
  BY DEF Ranked
<1> HIDE DEF better
<1>5. /\ q \in [1..Cardinality(S) -> S] /\ \A x \in S : \E k \in 1..Cardinality(S) : q[k] = x
      /\ \A k, l \in 1..Cardinality(S) : k < l => <<q[k], q[l]>> \in better
  BY <1>1, <1>3, InOrderLists
<1> HIDE DEF q
<1>6. [k \in 1..n |-> seq[q[k]]] \in [1..n -> ToSet(seq)]
  BY <1>1, <1>5 DEF ToSet
<1>7. Ranked(seq) = [k \in 1..n |-> seq[q[k]]]
  BY <1>1, <1>4
<1>8. Ranked(seq) \in Seq(ToSet(seq)) /\ Len(Ranked(seq)) = n
  BY <1>6, <1>7
<1>9. \A k, l \in 1..n : k < l => Ranked(seq)[k].score >= Ranked(seq)[l].score
  <2> SUFFICES ASSUME NEW k \in 1..n, NEW l \in 1..n, k < l
               PROVE  Ranked(seq)[k].score >= Ranked(seq)[l].score
    OBVIOUS
  <2>1. q[k] \in 1..n /\ q[l] \in 1..n /\ <<q[k], q[l]>> \in better
    BY <1>1, <1>5
  <2>2. seq[q[k]].score \in Int /\ seq[q[l]].score \in Int
    BY <2>1
  <2>3. \/ seq[q[k]].score > seq[q[l]].score
        \/ seq[q[k]].score = seq[q[l]].score /\ q[k] < q[l]
    BY <1>2, <2>1
  <2>4. seq[q[k]].score >= seq[q[l]].score
    BY <2>2, <2>3
  <2> QED BY <1>7, <2>4
<1>10. \A i \in 1..n : \E k \in 1..n : Ranked(seq)[k] = seq[i]
  <2> SUFFICES ASSUME NEW i \in 1..n PROVE \E k \in 1..n : Ranked(seq)[k] = seq[i]
    OBVIOUS
  <2>1. PICK k \in 1..Cardinality(S) : q[k] = i
    BY <1>5
  <2>2. k \in 1..n /\ Ranked(seq)[k] = seq[i]
    BY <1>1, <1>7, <2>1
  <2> QED BY <2>2
<1> QED BY <1>8, <1>9, <1>10

(***************************************************************************)
(* The places of a query                                                   *)
(***************************************************************************)

\* The elements the page shows.
OnPage == {page[i] : i \in DOMAIN page}

\* What the assumptions say of the page there is.
LEMMA PageTyped ==
  ASSUME page \in Pages
  PROVE  /\ page \in Seq(Element) /\ Len(page) \in Nat /\ DOMAIN page = 1..Len(page)
         /\ \A i \in DOMAIN page : page[i].score \in Int /\ page[i].score \in 0..100
         /\ \A i, j \in DOMAIN page : page[i].name = page[j].name => i = j
         /\ \A i \in DOMAIN page : page[i].name # "asked" /\ page[i].raw # "asked"
<1>1. page \in Seq(Element)
  BY ResolutionAssumption
<1>2. Len(page) \in Nat /\ DOMAIN page = 1..Len(page)
  BY <1>1
<1>3. ASSUME NEW i \in DOMAIN page PROVE page[i].score \in Int /\ page[i].score \in 0..100
  <2>1. page[i] \in Element
    BY <1>1, <1>2
  <2> QED BY <2>1 DEF Element
<1>4. \A i, j \in DOMAIN page : /\ page[i].name = page[j].name => i = j
                                /\ "asked" \notin {page[i].name, page[i].raw}
  BY NamesAssumption
<1> QED BY <1>1, <1>2, <1>3, <1>4

\* A query selects finitely many elements.
LEMMA PlacesAreFinite ==
  ASSUME page \in Pages, NEW by, NEW of
  PROVE  /\ PlacesOf(by, of) \subseteq 1..Len(page) /\ Len(page) \in Nat
         /\ IsFiniteSet(PlacesOf(by, of)) /\ CountOfMatches(by, of) \in Nat
<1>1. PlacesOf(by, of) \in SUBSET (1..Len(page)) /\ Len(page) \in Nat
  BY PageTyped DEF PlacesOf
<1>2. IsFiniteSet(1..Len(page))
  BY <1>1, FS_Interval
<1>3. IsFiniteSet(PlacesOf(by, of))
  BY <1>1, <1>2, FS_Subset
<1> QED BY <1>1, <1>3, FS_CardinalityType DEF CountOfMatches

\* The k-th of the locators Collect makes for a query.
Nth(by, of, k) == [by |-> by, of |-> of, nth |-> k]

\* A set of two different things has two members.
LEMMA TwoAreTwo ==
  ASSUME NEW a, NEW b, a # b
  PROVE  Cardinality({a, b}) = 2
<1>1. IsFiniteSet({a}) /\ Cardinality({a}) = 1
  BY FS_Singleton
<1>2. Cardinality({a} \cup {b}) = IF b \in {a} THEN Cardinality({a}) ELSE Cardinality({a}) + 1
  BY <1>1, FS_AddElement
<1>3. b \notin {a}
  OBVIOUS
<1>4. Cardinality({a} \cup {b}) = 1 + 1
  <2>1. Cardinality({a} \cup {b}) = Cardinality({a}) + 1
    BY <1>2, <1>3
  <2>2. Cardinality({a}) = 1
    BY <1>1
  <2> QED BY <2>1, <2>2
<1>5. {a, b} = {a} \cup {b}
  OBVIOUS
<1> QED BY <1>4, <1>5

\* The locators of a query stand for the elements it selects, one each.
LEMMA NthStandsForOne ==
  ASSUME page \in Pages, NEW by, NEW of
  PROVE  /\ \A k \in Nat : \A e, f \in Target(Nth(by, of, k)) : e = f /\ e \in Selected(by, of)
         /\ \A e \in Selected(by, of) :
              \E k \in 1..CountOfMatches(by, of) : e \in Target(Nth(by, of, k))
<1> DEFINE P == PlacesOf(by, of)
           upto(i) == {j \in P : j <= i}
           rank(i) == Cardinality(upto(i))
<1>1. P \subseteq 1..Len(page) /\ Len(page) \in Nat /\ IsFiniteSet(P) /\ Cardinality(P) \in Nat
  BY PlacesAreFinite DEF CountOfMatches
<1>2. \A i \in P : IsFiniteSet(upto(i)) /\ rank(i) \in Nat /\ rank(i) <= Cardinality(P)
  BY <1>1, FS_Subset, FS_CardinalityType
<1>3. ASSUME NEW i \in P, NEW j \in P, i < j PROVE rank(i) < rank(j)
  <2>1. upto(i) \in SUBSET upto(j) /\ upto(i) # upto(j)
    <3>1. j \in upto(j) /\ j \notin upto(i)
      BY <1>1, <1>3
    <3>2. upto(i) \in SUBSET upto(j)
      BY <1>1, <1>3
    <3> QED BY <3>1, <3>2
  <2>2. rank(i) <= rank(j) /\ rank(i) # rank(j)
    BY <1>2, <2>1, FS_Subset
  <2> QED BY <1>2, <2>2
<1>4. \A i, j \in P : rank(i) = rank(j) => i = j
  <2> SUFFICES ASSUME NEW i \in P, NEW j \in P, rank(i) = rank(j), i # j PROVE FALSE
    OBVIOUS
  <2>1. (i < j \/ j < i) /\ rank(i) \in Int /\ rank(j) \in Int
    BY <1>1, <1>2
  <2> HIDE DEF rank, P
  <2> QED BY <1>3, <2>1
<1>5. ASSUME NEW i \in P PROVE rank(i) \in 1..Cardinality(P)
  <2>1. upto(i) # {}
    BY <1>1
  <2>2. rank(i) # 0
    BY <1>2, <2>1, FS_EmptySet
  <2>3. rank(i) \in Nat /\ rank(i) <= Cardinality(P)
    BY <1>2
  <2> HIDE DEF rank, P
  <2> QED BY <1>1, <2>2, <2>3
<1>6. ASSUME NEW k PROVE Target(Nth(by, of, k)) = {page[i] : i \in {j \in P : rank(j) = k}}
  <2> DEFINE loc == Nth(by, of, k)
  <2>1. \A e : Selects(loc, e) <=> Selects([by |-> by, of |-> of, nth |-> 1], e)
    BY DEF Selects, Nth
  <2>2. P = {i \in DOMAIN page : Selects(loc, page[i])}
    BY <2>1 DEF PlacesOf
  <2>3. ASSUME NEW i \in P PROVE {j \in 1..i : Selects(loc, page[j])} = upto(i)
    <3>1. i \in 1..Len(page) /\ DOMAIN page = 1..Len(page)
      BY <1>1, PageTyped
    <3>2. \A j \in 1..i : j \in 1..Len(page)
      BY <3>1, <1>1
    <3>3. \A j \in 1..Len(page) : j \in P <=> Selects(loc, page[j])
      BY <2>2, <3>1
    <3>4. \A j \in P : j \in 1..Len(page) /\ j \in Nat
      BY <1>1
    <3> HIDE DEF P, loc
    <3>5. \A j \in 1..i : Selects(loc, page[j]) <=> j \in P
      BY <3>2, <3>3
    <3>6. \A j \in P : j <= i <=> j \in 1..i
      BY <1>1, <3>1, <3>4
    <3> QED BY <3>5, <3>6
  <2>4. loc.nth = k
    BY DEF Nth
  <2>5. {j \in P : rank(j) = k}
        = {j \in DOMAIN page : Selects(loc, page[j]) /\ Cardinality({m \in 1..j : Selects(loc, page[m])}) = loc.nth}
    <3> HIDE DEF P, loc
    <3> QED BY <2>2, <2>3, <2>4
  <2> QED BY <2>5 DEF Target
<1> HIDE DEF P, rank
<1>7. ASSUME NEW k \in Nat, NEW e \in Target(Nth(by, of, k)), NEW f \in Target(Nth(by, of, k))
      PROVE  e = f /\ e \in Selected(by, of)
  <2>1. PICK i \in P : rank(i) = k /\ e = page[i]
    BY <1>6
  <2>2. PICK j \in P : rank(j) = k /\ f = page[j]
    BY <1>6
  <2>3. i = j
    BY <1>4, <2>1, <2>2
  <2> QED BY <2>1, <2>2, <2>3 DEF Selected, P
<1>8. ASSUME NEW e \in Selected(by, of)
      PROVE  \E k \in 1..CountOfMatches(by, of) : e \in Target(Nth(by, of, k))
  <2>1. PICK i \in P : e = page[i]
    BY DEF Selected, P
  <2>2. rank(i) \in 1..CountOfMatches(by, of)
    BY <1>5 DEF CountOfMatches, P
  <2>3. e \in Target(Nth(by, of, rank(i)))
    BY <1>6, <2>1
  <2> QED BY <2>2, <2>3
<1> QED BY <1>7, <1>8

(***************************************************************************)
(* The strict step                                                         *)
(***************************************************************************)

\* The records that are updated field by field.
Shapes ==
  /\ DOMAIN lookup = {"at", "cfg", "key", "found", "loc", "confidence", "guess", "moved"}
  /\ DOMAIN log = {"records", "unflushed", "disk", "failed", "appended"}
  /\ task \in Tasks /\ page \in Pages

\* A step is run with the cfg it was written with, until a heal gives another.
OwnCfg ==
  /\ attempt.phase \in {"first", "hidden", "disabled", "replacement"}
  /\ attempt.phase # "replacement" => attempt.cfg = WrittenCfg

\* A strict lookup goes through the keys of its cfg and nothing else, and what it
\* finds is one of them, with what it asks for.
StrictLookup ==
  Strict /\ place \in {"lookup", "act"} =>
    /\ lookup.cfg = attempt.cfg /\ lookup.at \in {"cascade", "found", "missed"}
    /\ \A loc \in lookup.loc : loc.by \in DOMAIN lookup.cfg /\ loc.of = lookup.cfg[loc.by]

SInv == Shapes /\ OwnCfg /\ StrictLookup /\ StrictTouchesTheNamed

\* What Target gives is what the query selects, at that moment.
LEMMA TargetIsSelected ==
  ASSUME NEW loc, NEW e \in Target(loc)
  PROVE  Selects(loc, e)
BY DEF Target

LEMMA StrictOrUntold ==
  ASSUME Shapes
  PROVE  /\ Strict <=> ((task.strict /\ task.action \notin Untold) \/ task.action \in Reads)
         /\ task.keys \subseteq Keys
<1>1. task \in Task
  BY ResolutionAssumption DEF Shapes
<1>2. task.action \in FitActions \cup Reads \cup Untold /\ task.keys \subseteq Keys
  BY <1>1 DEF Task
<1>3. FitActions \cap Untold = {}
  BY DEF FitActions, Untold
<1> QED BY <1>2, <1>3 DEF Strict

LEMMA WordIsNoKey == "word" \notin Keys
BY DEF Keys, Cascade, ToSet

LEMMA InitSInv == Init => SInv
<1> SUFFICES ASSUME Init PROVE SInv
  OBVIOUS
<1>1. Shapes
  BY DEF Init, Shapes, NoLookup
<1>2. OwnCfg
  BY DEF Init, OwnCfg, WrittenCfg
<1>3. StrictLookup /\ StrictTouchesTheNamed
  BY DEF Init, StrictLookup, StrictTouchesTheNamed
<1> QED BY <1>1, <1>2, <1>3 DEF SInv

\* The lookup is untouched, or marked as of a page that has moved.
LookupKept ==
  /\ lookup'.cfg = lookup.cfg /\ lookup'.at = lookup.at /\ lookup'.loc = lookup.loc
  /\ DOMAIN lookup' = DOMAIN lookup

\* A step that neither begins an attempt nor looks nor interacts.
LEMMA QuietStep ==
  ASSUME SInv, LookupKept, page' \in Pages, DOMAIN log' = DOMAIN log, UNCHANGED <<task, attempt, acted>>,
         place' = place \/ place' \notin {"lookup", "act"}
  PROVE  SInv'
<1>1. Shapes' /\ Strict' = Strict
  BY DEF SInv, Shapes, LookupKept, Strict
<1>2. OwnCfg'
  BY DEF SInv, OwnCfg, WrittenCfg
<1>3. StrictLookup'
  BY <1>1 DEF SInv, StrictLookup, LookupKept
<1>4. StrictTouchesTheNamed'
  BY DEF SInv, StrictTouchesTheNamed
<1> QED BY <1>1, <1>2, <1>3, <1>4 DEF SInv

LEMMA NextPlaceIsQuiet ==
  ASSUME OwnCfg, NEW ok \in BOOLEAN
  PROVE  NextPlace(ok) \notin {"lookup", "act"}
BY DEF NextPlace, HealGoesOn, OwnCfg

\* Whether an interaction that touches nothing was one to touch nothing.
LEMMA GoneOrNot == GoneAsAsserted \in BOOLEAN
BY DEF GoneAsAsserted

LEMMA MovesStep == ASSUME SInv, PageMoves PROVE SInv'
<1>1. lookup' = [lookup EXCEPT !.moved = TRUE] /\ page' \in Pages /\ UNCHANGED <<task, log, place, attempt, acted>>
  BY DEF PageMoves, stepVars
<1>2. LookupKept
  BY <1>1 DEF SInv, Shapes, LookupKept
<1> QED BY <1>1, <1>2, QuietStep

LEMMA FailingStep ==
  ASSUME SInv, ValueMissing \/ ActsWithoutElement \/ NotFound \/ TouchesNothing
  PROVE  SInv'
<1>1. /\ UNCHANGED <<page, lookup, acted, task, log, attempt>>
      /\ \E ok \in BOOLEAN : place' = NextPlace(ok)
  <2>1. CASE ValueMissing
    BY <2>1 DEF ValueMissing, AttemptOnly, Ends
  <2>2. CASE ActsWithoutElement
    BY <2>2 DEF ActsWithoutElement, AttemptOnly, Ends
  <2>3. CASE NotFound
    BY <2>3 DEF NotFound, AttemptOnly, Ends
  <2>4. CASE TouchesNothing
    BY <2>4, GoneOrNot DEF TouchesNothing, AttemptOnly, Ends
  <2> QED BY <2>1, <2>2, <2>3, <2>4
<1>2. LookupKept /\ place' \notin {"lookup", "act"}
  BY <1>1, NextPlaceIsQuiet DEF LookupKept, SInv
<1>3. page' \in Pages
  BY <1>1 DEF SInv, Shapes
<1> QED BY <1>1, <1>2, <1>3, QuietStep

LEMMA LooksStep == ASSUME SInv, LooksForElement PROVE SInv'
<1>1. place' = "lookup" /\ UNCHANGED <<page, task, log, attempt, acted>> /\ Begin(attempt.cfg)
  BY DEF LooksForElement, Goes, AttemptOnly
<1> DEFINE at == IF DOMAIN attempt.cfg # {} THEN "cascade"
                 ELSE IF ~Strict /\ task.described THEN "words" ELSE "missed"
<1>2. lookup' = [NoLookup EXCEPT !.at = at, !.cfg = attempt.cfg, !.guess = at = "words"]
  BY <1>1 DEF Begin
<1>3. /\ DOMAIN lookup' = {"at", "cfg", "key", "found", "loc", "confidence", "guess", "moved"}
      /\ lookup'.cfg = attempt.cfg /\ lookup'.at = at /\ lookup'.loc = {}
  BY <1>2 DEF NoLookup
<1>4. Shapes' /\ Strict' = Strict
  BY <1>1, <1>3 DEF SInv, Shapes, Strict
<1>5. OwnCfg' /\ StrictTouchesTheNamed'
  BY <1>1 DEF SInv, OwnCfg, WrittenCfg, StrictTouchesTheNamed
<1>6. Strict => at \in {"cascade", "missed"}
  OBVIOUS
<1> HIDE DEF at
<1>7. StrictLookup'
  BY <1>1, <1>3, <1>4, <1>6 DEF StrictLookup
<1> QED BY <1>4, <1>5, <1>7 DEF SInv

\* A stage of a lookup: a strict one tries the next key, takes the first match
\* of one, or misses.
LEMMA StrictStage ==
  ASSUME SInv, Resolves, Strict, place = "lookup"
  PROVE  /\ DOMAIN lookup' = DOMAIN lookup
         /\ lookup'.cfg = lookup.cfg /\ lookup'.at \in {"cascade", "found", "missed"}
         /\ \A loc \in lookup'.loc : loc.by \in DOMAIN lookup.cfg /\ loc.of = lookup.cfg[loc.by]
<1>1. /\ DOMAIN lookup = {"at", "cfg", "key", "found", "loc", "confidence", "guess", "moved"}
      /\ lookup.at \in {"cascade", "found", "missed"}
      /\ \A loc \in lookup.loc : loc.by \in DOMAIN lookup.cfg /\ loc.of = lookup.cfg[loc.by]
  BY DEF SInv, Shapes, StrictLookup
<1>2. KeyMisses \/ KeyHits \/ CascadeFails
  BY <1>1 DEF Resolves, KeyIsAmbiguous, FirstOfSeveral, SemanticMiss, SemanticHit, StillAmbiguous,
              WordHits, WordsFail, NodesFail, NodeHits, NodesAreMany, Picks, Looks
<1>3. CASE KeyMisses
  <2>1. lookup' = [lookup EXCEPT !.key = @ + 1]
    BY <1>3 DEF KeyMisses
  <2> QED BY <1>1, <2>1
<1>4. CASE CascadeFails
  <2>1. lookup' = [lookup EXCEPT !.at = "missed", !.guess = TRUE, !.found = << >>]
    BY <1>4 DEF CascadeFails
  <2> QED BY <1>1, <2>1
<1>5. CASE KeyHits
  <2>1. Matches # << >> /\ lookup' = [lookup EXCEPT !.at = "found", !.loc = {Matches[1]},
                                                     !.confidence = KeyConfidence[Key]]
    BY <1>5 DEF KeyHits, Finds
  <2>2. Key \in DOMAIN lookup.cfg /\ Matches = Collect(Key, lookup.cfg[Key])
    BY <2>1 DEF Matches
  <2>3. Matches[1].by = Key /\ Matches[1].of = lookup.cfg[Key]
    <3> DEFINE n == CountOfMatches(Key, lookup.cfg[Key])
    <3>1. Matches = [i \in 1..n |-> [by |-> Key, of |-> lookup.cfg[Key], nth |-> i]]
      BY <2>2 DEF Collect
    <3>2. n \in Nat
      BY PlacesAreFinite DEF SInv, Shapes
    <3> QED BY <2>1, <3>1, <3>2
  <2> QED BY <1>1, <2>1, <2>2, <2>3
<1> QED BY <1>2, <1>3, <1>4, <1>5

LEMMA StageShapes ==
  ASSUME SInv, Resolves
  PROVE  UNCHANGED <<page, task>> /\ DOMAIN lookup' = DOMAIN lookup
<1>1. \E f : lookup' = f /\ DOMAIN f = DOMAIN lookup
  BY DEF Resolves, KeyMisses, KeyHits, KeyIsAmbiguous, FirstOfSeveral, SemanticMiss, SemanticHit, StillAmbiguous,
         CascadeFails, WordHits, WordsFail, NodesFail, NodeHits, NodesAreMany, Picks, Looks, Finds, Misses, GoesTo
<1>2. UNCHANGED <<page, task>>
  BY DEF Resolves, KeyMisses, KeyHits, KeyIsAmbiguous, FirstOfSeveral, SemanticMiss, SemanticHit, StillAmbiguous,
         CascadeFails, WordHits, WordsFail, NodesFail, NodeHits, NodesAreMany, Picks, Looks, PageOnly
<1> QED BY <1>1, <1>2

LEMMA LookupStep == ASSUME SInv, LookupGoesOn PROVE SInv'
<1>1. place = "lookup" /\ Resolves /\ UNCHANGED <<log, place, attempt, acted>>
  BY DEF LookupGoesOn, stepVars
<1>2. UNCHANGED <<page, task>> /\ DOMAIN lookup' = DOMAIN lookup
  BY <1>1, StageShapes
<1>3. Shapes' /\ Strict' = Strict
  BY <1>1, <1>2 DEF SInv, Shapes, Strict
<1>4. OwnCfg' /\ StrictTouchesTheNamed'
  BY <1>1, <1>2 DEF SInv, OwnCfg, WrittenCfg, StrictTouchesTheNamed
<1>5. StrictLookup'
  <2> SUFFICES ASSUME Strict PROVE StrictLookup'
    BY <1>3 DEF StrictLookup
  <2>1. /\ lookup'.cfg = lookup.cfg /\ lookup'.at \in {"cascade", "found", "missed"}
        /\ \A loc \in lookup'.loc : loc.by \in DOMAIN lookup.cfg /\ loc.of = lookup.cfg[loc.by]
    BY <1>1, StrictStage
  <2> QED BY <1>1, <2>1 DEF SInv, StrictLookup
<1> QED BY <1>3, <1>4, <1>5 DEF SInv

LEMMA FoundStep == ASSUME SInv, Found PROVE SInv'
<1>1. place = "lookup" /\ place' = "act" /\ UNCHANGED <<page, lookup, task, log, attempt, acted>>
  BY DEF Found, Goes, AttemptOnly
<1>2. Shapes' /\ OwnCfg' /\ StrictTouchesTheNamed'
  BY <1>1 DEF SInv, Shapes, OwnCfg, WrittenCfg, StrictTouchesTheNamed
<1>3. StrictLookup'
  BY <1>1 DEF SInv, StrictLookup, Strict
<1> QED BY <1>2, <1>3 DEF SInv

\* The interaction is with what a key of the cfg, as it was written, selects.
LEMMA InteractionStep == ASSUME SInv, Acts PROVE SInv'
<1>1. /\ place = "act" /\ place' = NextPlace(TRUE) /\ UNCHANGED <<page, lookup, task, log, attempt>>
      /\ \E loc \in lookup.loc : \E e \in Target(loc) : acted' = {[e |-> e, loc |-> loc]}
  BY DEF Acts, Ends, AttemptOnly
<1>2. place' \notin {"lookup", "act"}
  BY <1>1, NextPlaceIsQuiet DEF SInv
<1>3. Shapes' /\ OwnCfg' /\ StrictLookup'
  BY <1>1, <1>2 DEF SInv, Shapes, OwnCfg, WrittenCfg, StrictLookup
<1>4. StrictTouchesTheNamed'
  <2> SUFFICES ASSUME Strict, attempt.phase # "replacement", NEW a \in acted'
               PROVE  a.e.keys \cap task.keys # {}
    BY <1>1, StrictOrUntold DEF StrictTouchesTheNamed, SInv
  <2>1. PICK loc \in lookup.loc : \E e \in Target(loc) : acted' = {[e |-> e, loc |-> loc]}
    BY <1>1
  <2>2. PICK e \in Target(loc) : acted' = {[e |-> e, loc |-> loc]}
    BY <2>1
  <2>3. loc.by \in task.keys /\ loc.of = "asked"
    <3>1. lookup.cfg = [k \in task.keys |-> "asked"]
      BY <1>1 DEF SInv, StrictLookup, OwnCfg, WrittenCfg
    <3>2. loc.by \in DOMAIN lookup.cfg /\ loc.of = lookup.cfg[loc.by]
      BY <1>1 DEF SInv, StrictLookup
    <3> QED BY <3>1, <3>2
  <2>4. Selects(loc, e)
    BY TargetIsSelected
  <2>5. loc.by # "word"
    BY <2>3, StrictOrUntold, WordIsNoKey DEF SInv
  <2>6. loc.by \in e.keys
    BY <2>3, <2>4, <2>5 DEF Selects
  <2>7. a.e = e
    BY <2>2
  <2> QED BY <2>3, <2>6, <2>7
<1> QED BY <1>3, <1>4 DEF SInv

\* An attempt begins with nothing looked up and nothing touched.
LEMMA AttemptBegins ==
  ASSUME SInv, NEW phase \in {"hidden", "disabled", "replacement"}, NEW cfg, Attempts(phase, cfg),
         phase # "replacement" => cfg = WrittenCfg, UNCHANGED <<page, task, log>>
  PROVE  SInv'
<1>1. /\ attempt' = [phase |-> phase, cfg |-> cfg] /\ acted' = {} /\ lookup' = NoLookup /\ place' = "start"
  BY DEF Attempts, Goes
<1>2. Shapes'
  BY <1>1 DEF SInv, Shapes, NoLookup
<1>3. OwnCfg'
  BY <1>1 DEF OwnCfg, WrittenCfg
<1>4. StrictLookup' /\ StrictTouchesTheNamed'
  BY <1>1 DEF StrictLookup, StrictTouchesTheNamed
<1> QED BY <1>2, <1>3, <1>4 DEF SInv

LEMMA HealsStep == ASSUME SInv, Heals PROVE SInv'
<1> USE DEF HealOnly
<1>1. CASE BridgeInjects
  <2>1. BridgeAnswer \in {"hidden", "disabled"} /\ Attempts(BridgeAnswer, WrittenCfg) /\ UNCHANGED <<page, task, log>>
    BY <1>1 DEF BridgeInjects
  <2> QED BY <2>1, AttemptBegins
<1>2. CASE HealsDirectly
  <2>1. Attempts("replacement", heal.pinned) /\ UNCHANGED <<page, task, log>>
    BY <1>2 DEF HealsDirectly
  <2> QED BY <2>1, AttemptBegins
<1>3. CASE BridgePasses \/ Captures \/ Pins
  <2>1. /\ place' \notin {"lookup", "act"}
        /\ UNCHANGED <<page, task, log, lookup, attempt, acted>>
    BY <1>3 DEF BridgePasses, Captures, Pins, Goes
  <2>2. LookupKept /\ page' \in Pages
    BY <2>1 DEF LookupKept, SInv, Shapes
  <2> QED BY <2>1, <2>2, QuietStep
<1>4. CASE AsksAI
  <2>1. PICK answer \in AnswersOfAI :
          \/ \E cfg \in answer : Attempts("replacement", cfg) /\ UNCHANGED outcome
          \/ /\ answer = {}
             /\ Goes(IF heal.counted < MaxHealAttempts THEN "bridge" ELSE "over")
             /\ UNCHANGED <<lookup, attempt, outcome, acted>>
    BY <1>4 DEF AsksAI
  <2>2. UNCHANGED <<page, task, log>>
    BY <1>4 DEF AsksAI
  <2>3. CASE \E cfg \in answer : Attempts("replacement", cfg)
    BY <2>2, <2>3, AttemptBegins
  <2>4. CASE /\ Goes(IF heal.counted < MaxHealAttempts THEN "bridge" ELSE "over")
             /\ UNCHANGED <<lookup, attempt, outcome, acted>>
    <3>1. LookupKept /\ page' \in Pages /\ place' \notin {"lookup", "act"}
      BY <2>2, <2>4 DEF LookupKept, SInv, Shapes, Goes
    <3> QED BY <2>2, <2>4, <3>1, QuietStep
  <2> QED BY <2>1, <2>3, <2>4
<1> QED BY <1>1, <1>2, <1>3, <1>4 DEF Heals

\* The drift log keeps its form.
LEMMA FlushShape ==
  ASSUME NEW l, NEW f \in Flushed(l)
  PROVE  DOMAIN f = DOMAIN l
BY DEF Flushed

LEMMA ShadowStep == ASSUME SInv, ShadowGoesOn PROVE SInv'
<1>1. UNCHANGED <<page, task, lookup, place, attempt, acted>>
  BY DEF ShadowGoesOn, ShadowWorks, stepVars
<1>2. DOMAIN log' = DOMAIN log
  <2>1. CASE StrategyAnswers
    BY <2>1 DEF StrategyAnswers
  <2>2. CASE ComparisonEnds
    <3>1. PICK i \in DOMAIN comparisons :
            LET l == Logged(log, Drift(comparisons[i]))
            IN log' \in (IF l.unflushed >= FlushEvery THEN Flushed(l) ELSE {l})
      BY <2>2 DEF ComparisonEnds
    <3> DEFINE l == Logged(log, Drift(comparisons[i]))
    <3>2. DOMAIN l = DOMAIN log
      BY DEF Logged
    <3>3. log' \in Flushed(l) \/ log' = l
      BY <3>1
    <3> HIDE DEF l
    <3> QED BY <3>2, <3>3, FlushShape
  <2> QED BY <2>1, <2>2 DEF ShadowGoesOn, ShadowWorks
<1>3. LookupKept /\ page' \in Pages
  BY <1>1 DEF LookupKept, SInv, Shapes
<1> QED BY <1>1, <1>2, <1>3, QuietStep

LEMMA EndStep == ASSUME SInv, RunEnds \/ Closes \/ Over PROVE SInv'
<1>1. /\ UNCHANGED <<page, task, lookup, attempt, acted>> /\ DOMAIN log' = DOMAIN log
      /\ place' \notin {"lookup", "act"}
  <2>1. CASE RunEnds
    BY <2>1, FlushShape DEF RunEnds, LastFlush, Goes
  <2>2. CASE Closes
    BY <2>2 DEF Closes, Goes
  <2>3. CASE Over
    BY <2>3 DEF Over, vars
  <2> QED BY <2>1, <2>2, <2>3
<1>2. LookupKept /\ page' \in Pages
  BY <1>1 DEF LookupKept, SInv, Shapes
<1> QED BY <1>1, <1>2, QuietStep

LEMMA SInvInductive == Spec => []SInv
<1>1. SInv /\ [Next]_vars => SInv'
  <2> SUFFICES ASSUME SInv, [Next]_vars PROVE SInv'
    OBVIOUS
  <2>1. CASE UNCHANGED vars
    BY <2>1, EndStep DEF Over, vars, SInv, Shapes, OwnCfg, WrittenCfg, StrictLookup, StrictTouchesTheNamed, Strict
  <2> QED
    BY <2>1, FailingStep, LooksStep, LookupStep, FoundStep, InteractionStep, HealsStep, EndStep, MovesStep,
       ShadowStep DEF Next, StepAttempts
<1> QED BY <1>1, InitSInv, PTL DEF Spec

\* A strict step and an assertion touch, in their own attempt, an element that a
\* key of their cfg selects at that moment (resolve, strict=True).
THEOREM StrictStepsTouchTheNamed == Spec => []StrictTouchesTheNamed
<1>1. SInv => StrictTouchesTheNamed
  BY DEF SInv
<1> QED BY <1>1, SInvInductive, PTL

(***************************************************************************)
(* The drift log                                                           *)
(***************************************************************************)

\* How many of the appended records were there at the last flush.
Written(l) == Len(l.appended) - l.unflushed

\* The records are the last of those appended, and the file, unless a write
\* failed, is the last of those appended by the last flush.
LogIsSound(l) ==
  /\ DOMAIN l = {"records", "unflushed", "disk", "failed", "appended"}
  /\ l.appended \in Seq(ToSet(l.appended)) /\ l.unflushed \in 0..Len(l.appended) /\ l.failed \in BOOLEAN
  /\ l.records = LastOf(l.appended, MaxRecords)
  /\ ~ l.failed => l.disk = LastOf(SubSeq(l.appended, 1, Written(l)), MaxRecords)

LInv ==
  /\ LogIsSound(log)
  /\ due \in Nat
  /\ place \in {"flushed", "closed"} /\ ~ log.failed => due <= Written(log)

LEMMA AppendTyped ==
  ASSUME NEW s, s \in Seq(ToSet(s)), NEW e
  PROVE  /\ Append(s, e) \in Seq(ToSet(Append(s, e)))
         /\ Len(Append(s, e)) = Len(s) + 1 /\ Len(s) \in Nat
<1> DEFINE S == ToSet(s) \cup {e}
<1>1. s \in Seq(S) /\ e \in S
  <2>1. s \in [1..Len(s) -> ToSet(s)] /\ Len(s) \in Nat
    OBVIOUS
  <2>2. s \in [1..Len(s) -> S]
    BY <2>1
  <2> QED BY <2>1, <2>2
<1> HIDE DEF S
<1> DEFINE t == Append(s, e)
<1>2. t \in Seq(S) /\ Len(t) = Len(s) + 1 /\ Len(s) \in Nat
  BY <1>1
<1> HIDE DEF t
<1>3. t \in [1..Len(t) -> S] /\ Len(t) \in Nat
  BY <1>2
<1>4. t \in [1..Len(t) -> ToSet(t)]
  BY <1>3 DEF ToSet
<1>5. t \in Seq(ToSet(t))
  BY <1>3, <1>4
<1> QED BY <1>2, <1>5 DEF t

\* Dropping the oldest records before or after appending one is the same.
LEMMA LastOfAppend ==
  ASSUME NEW S, NEW s \in Seq(S), NEW e \in S, NEW n \in Nat \ {0}
  PROVE  LastOf(Append(LastOf(s, n), e), n) = LastOf(Append(s, e), n)
<1>1. CASE Len(s) <= n
  BY <1>1 DEF LastOf
<1>2. CASE ~ (Len(s) <= n)
  <2> DEFINE t == SubSeq(s, Len(s) - n + 1, Len(s))
             u == Append(t, e)
             v == Append(s, e)
  <2>1. t \in Seq(S) /\ Len(t) = n /\ \A i \in 1..n : t[i] = s[Len(s) - n + i]
    BY <1>2
  <2>2. u \in Seq(S) /\ Len(u) = n + 1 /\ u[n + 1] = e /\ \A i \in 1..n : u[i] = s[Len(s) - n + i]
    <3> HIDE DEF t
    <3> QED BY <2>1
  <2>3. v \in Seq(S) /\ Len(v) = Len(s) + 1 /\ v[Len(s) + 1] = e /\ \A i \in 1..Len(s) : v[i] = s[i]
    OBVIOUS
  <2>4. LastOf(s, n) = t
    BY <1>2 DEF LastOf
  <2> HIDE DEF t, u, v
  <2>5. LastOf(u, n) = SubSeq(u, 2, n + 1) /\ LastOf(v, n) = SubSeq(v, Len(s) + 2 - n, Len(s) + 1)
    BY <1>2, <2>2, <2>3 DEF LastOf
  <2>6. /\ SubSeq(u, 2, n + 1) \in Seq(S) /\ Len(SubSeq(u, 2, n + 1)) = n
        /\ \A i \in 1..n : SubSeq(u, 2, n + 1)[i] = u[i + 1]
    BY <2>2
  <2>7. /\ SubSeq(v, Len(s) + 2 - n, Len(s) + 1) \in Seq(S) /\ Len(SubSeq(v, Len(s) + 2 - n, Len(s) + 1)) = n
        /\ \A i \in 1..n : SubSeq(v, Len(s) + 2 - n, Len(s) + 1)[i] = v[Len(s) + 1 - n + i]
    BY <1>2, <2>3
  <2>8. ASSUME NEW i \in 1..n PROVE u[i + 1] = v[Len(s) + 1 - n + i]
    <3>1. CASE i = n
      BY <1>2, <2>2, <2>3, <3>1
    <3>2. CASE i # n
      <4>1. i + 1 \in 1..n /\ Len(s) + 1 - n + i \in 1..Len(s)
        BY <1>2, <3>2
      <4>2. u[i + 1] = s[Len(s) - n + (i + 1)] /\ v[Len(s) + 1 - n + i] = s[Len(s) + 1 - n + i]
        BY <2>2, <2>3, <4>1
      <4>3. Len(s) - n + (i + 1) = Len(s) + 1 - n + i
        BY <1>2
      <4> QED BY <4>2, <4>3
    <3> QED BY <3>1, <3>2
  <2>9. SubSeq(u, 2, n + 1) = SubSeq(v, Len(s) + 2 - n, Len(s) + 1)
    <3> DEFINE x == SubSeq(u, 2, n + 1)
               y == SubSeq(v, Len(s) + 2 - n, Len(s) + 1)
    <3>1. x \in Seq(S) /\ Len(x) = n /\ y \in Seq(S) /\ Len(y) = n /\ \A i \in 1..n : x[i] = y[i]
      BY <2>6, <2>7, <2>8
    <3> HIDE DEF x, y
    <3>2. x \in [1..n -> S] /\ y \in [1..n -> S]
      BY <3>1
    <3>3. x = y
      BY <3>1, <3>2
    <3> QED BY <3>3 DEF x, y
  <2> QED BY <2>4, <2>5, <2>9 DEF u, v
<1> QED BY <1>1, <1>2

LEMMA SoundWhenLogged ==
  ASSUME NEW l, LogIsSound(l), NEW drift
  PROVE  LET k == Logged(l, drift)
         IN LogIsSound(k) /\ k.failed = l.failed /\ Written(k) = Written(l)
<1> DEFINE k == Logged(l, drift)
           s == l.appended
<1>1. /\ DOMAIN k = DOMAIN l
      /\ k.records = LastOf(Append(l.records, drift), MaxRecords) /\ k.unflushed = l.unflushed + 1
      /\ k.appended = Append(s, drift) /\ k.disk = l.disk /\ k.failed = l.failed
  BY DEF LogIsSound, Logged
<1> HIDE DEF k
<1>2. s \in Seq(ToSet(s)) /\ l.unflushed \in 0..Len(s) /\ l.failed \in BOOLEAN
  BY DEF LogIsSound
<1>3. Append(s, drift) \in Seq(ToSet(Append(s, drift))) /\ Len(Append(s, drift)) = Len(s) + 1 /\ Len(s) \in Nat
  BY <1>2, AppendTyped
<1>4. Written(k) = Written(l) /\ Written(l) \in 0..Len(s)
  BY <1>1, <1>2, <1>3 DEF Written
<1>5. \E S : s \in Seq(S) /\ drift \in S
  <2> DEFINE S == ToSet(s) \cup {drift}
  <2>1. s \in [1..Len(s) -> ToSet(s)]
    BY <1>2
  <2>2. s \in [1..Len(s) -> S]
    BY <2>1
  <2>3. s \in Seq(S)
    BY <1>3, <2>2
  <2> QED BY <2>3
<1>6. k.records = LastOf(k.appended, MaxRecords)
  <2>1. l.records = LastOf(s, MaxRecords) /\ MaxRecords \in Nat \ {0}
    BY ShadowAssumption DEF LogIsSound
  <2> QED BY <1>1, <1>5, <2>1, LastOfAppend
<1>7. SubSeq(Append(s, drift), 1, Written(l)) = SubSeq(s, 1, Written(l))
  <2> DEFINE n == Written(l)
  <2> HIDE DEF n
  <2>1. n \in 0..Len(s)
    BY <1>4 DEF n
  <2>2. PICK S : s \in Seq(S) /\ drift \in S
    BY <1>5
  <2>3. SubSeq(Append(s, drift), 1, n) = SubSeq(s, 1, n)
    BY <2>1, <2>2
  <2> QED BY <2>3 DEF n
<1>8. ~ k.failed => k.disk = LastOf(SubSeq(k.appended, 1, Written(k)), MaxRecords)
  BY <1>1, <1>4, <1>7 DEF LogIsSound
<1>9. LogIsSound(k)
  BY <1>1, <1>2, <1>3, <1>6, <1>8 DEF LogIsSound
<1> QED BY <1>1, <1>4, <1>9 DEF k

\* A flush writes all that was appended, or fails for good.
LEMMA SoundWhenFlushed ==
  ASSUME NEW l, LogIsSound(l), NEW f \in Flushed(l)
  PROVE  /\ LogIsSound(f) /\ f.appended = l.appended
         /\ ~ f.failed => ~ l.failed /\ Written(f) = Len(l.appended)
<1>1. /\ l.appended \in Seq(ToSet(l.appended)) /\ Len(l.appended) \in Nat
      /\ l.unflushed \in 0..Len(l.appended) /\ l.failed \in BOOLEAN
  BY DEF LogIsSound
<1>2. CASE l.unflushed = 0
  <2>1. f = l
    BY <1>2 DEF Flushed
  <2> QED BY <1>1, <1>2, <2>1 DEF Written
<1>3. CASE f = [l EXCEPT !.failed = TRUE]
  BY <1>1, <1>3 DEF LogIsSound, Written
<1>4. CASE f = [l EXCEPT !.disk = l.records, !.unflushed = 0]
  <2>1. /\ DOMAIN f = DOMAIN l /\ f.records = l.records /\ f.disk = l.records /\ f.unflushed = 0
        /\ f.appended = l.appended /\ f.failed = l.failed
    BY <1>4 DEF LogIsSound
  <2>2. SubSeq(l.appended, 1, Len(l.appended)) = l.appended
    BY <1>1
  <2>3. Written(f) = Len(l.appended)
    BY <1>1, <2>1 DEF Written
  <2>4. ~ f.failed => f.disk = LastOf(SubSeq(f.appended, 1, Written(f)), MaxRecords)
    BY <2>1, <2>2, <2>3 DEF LogIsSound
  <2> QED BY <1>1, <2>1, <2>3, <2>4 DEF LogIsSound
<1> QED BY <1>2, <1>3, <1>4 DEF Flushed

LEMMA InitLInv == Init => LInv
<1> SUFFICES ASSUME Init PROVE LInv
  OBVIOUS
<1>1. /\ log = [records |-> << >>, unflushed |-> 0, disk |-> << >>, failed |-> FALSE, appended |-> << >>]
      /\ place = "start" /\ due = 0
  BY DEF Init
<1>2. LastOf(<< >>, MaxRecords) = << >>
  BY ShadowAssumption DEF LastOf
<1>3. SubSeq(<< >>, 1, 0) = << >> /\ << >> \in Seq(ToSet(<< >>)) /\ Len(<< >>) = 0
  OBVIOUS
<1>4. Written(log) = 0
  BY <1>1, <1>3 DEF Written
<1>5. LogIsSound(log)
  <2>1. /\ DOMAIN log = {"records", "unflushed", "disk", "failed", "appended"}
        /\ log.appended = << >> /\ log.records = << >> /\ log.disk = << >>
        /\ log.unflushed = 0 /\ log.failed = FALSE
    BY <1>1
  <2>2. LastOf(log.appended, MaxRecords) = << >> /\ SubSeq(log.appended, 1, Written(log)) = << >>
    BY <1>2, <1>3, <1>4, <2>1
  <2>3. log.disk = LastOf(SubSeq(log.appended, 1, Written(log)), MaxRecords)
    BY <1>2, <2>1, <2>2
  <2>4. log.appended \in Seq(ToSet(log.appended)) /\ log.unflushed \in 0..Len(log.appended)
    BY <1>3, <2>1
  <2> QED BY <2>1, <2>2, <2>3, <2>4 DEF LogIsSound
<1> QED BY <1>1, <1>5 DEF LInv

\* A comparison that ends appends its record, and may flush.
LEMMA AppendStep == ASSUME LInv, ComparisonEnds, UNCHANGED <<place, due>> PROVE LInv'
<1>1. PICK i \in DOMAIN comparisons :
        LET l == Logged(log, Drift(comparisons[i]))
        IN log' \in (IF l.unflushed >= FlushEvery THEN Flushed(l) ELSE {l})
  BY DEF ComparisonEnds
<1> DEFINE l == Logged(log, Drift(comparisons[i]))
<1>2. log' \in Flushed(l) \/ log' = l
  BY <1>1
<1>3. LogIsSound(log) /\ LogIsSound(l) /\ l.failed = log.failed /\ Written(l) = Written(log)
  BY SoundWhenLogged DEF LInv
<1> HIDE DEF l
<1>4. Written(l) \in Nat /\ Written(l) <= Len(l.appended) /\ Len(l.appended) \in Nat
  BY <1>3 DEF LogIsSound, Written
<1>5. /\ LogIsSound(log') /\ (~ log'.failed => ~ log.failed)
      /\ ~ log'.failed => Written(log) <= Written(log') /\ Written(log') \in Nat
  <2>1. CASE log' = l
    BY <1>3, <1>4, <2>1
  <2>2. CASE log' \in Flushed(l)
    <3>1. /\ LogIsSound(log') /\ log'.appended = l.appended
          /\ ~ log'.failed => ~ l.failed /\ Written(log') = Len(l.appended)
      BY <1>3, <2>2, SoundWhenFlushed
    <3> QED BY <1>3, <1>4, <3>1
  <2> QED BY <1>2, <2>1, <2>2
<1> QED BY <1>3, <1>4, <1>5 DEF LInv, Written

LEMMA FlushStep == ASSUME LInv, RunEnds PROVE LInv'
<1>1. log' \in Flushed(log) /\ due' = Len(log.appended) /\ LogIsSound(log)
  BY DEF RunEnds, LastFlush, LInv
<1>2. /\ LogIsSound(log') /\ log'.appended = log.appended
      /\ ~ log'.failed => Written(log') = Len(log.appended)
  BY <1>1, SoundWhenFlushed
<1>3. Len(log.appended) \in Nat
  BY <1>1 DEF LogIsSound
<1> QED BY <1>1, <1>2, <1>3 DEF LInv, Written

\* What does not touch the log leaves it as it is, before the end of the run.
LEMMA UnloggedStep ==
  ASSUME LInv, UNCHANGED <<log, due>>, place' \in {"flushed", "closed"} => place \in {"flushed", "closed"}
  PROVE  LInv'
BY DEF LInv, LogIsSound, Written

LEMMA NextPlaceIsNoEnd ==
  ASSUME OwnCfg, NEW ok \in BOOLEAN
  PROVE  NextPlace(ok) \notin {"flushed", "closed"}
BY DEF NextPlace, HealGoesOn, OwnCfg

LEMMA AttemptsUnlogged ==
  ASSUME SInv, StepAttempts
  PROVE  UNCHANGED <<log, due>> /\ (place' \in {"flushed", "closed"} => place \in {"flushed", "closed"})
<1>1. CASE ValueMissing \/ ActsWithoutElement \/ NotFound \/ TouchesNothing \/ Acts
  <2>1. \E ok \in BOOLEAN : place' = NextPlace(ok)
    BY <1>1, GoneOrNot DEF ValueMissing, ActsWithoutElement, NotFound, TouchesNothing, Acts, Ends
  <2>2. UNCHANGED <<log, due>>
    BY <1>1 DEF ValueMissing, ActsWithoutElement, NotFound, TouchesNothing, Acts, AttemptOnly
  <2> QED BY <2>1, <2>2, NextPlaceIsNoEnd DEF SInv
<1>2. CASE LooksForElement \/ LookupGoesOn \/ Found
  BY <1>2 DEF LooksForElement, LookupGoesOn, Found, Goes, AttemptOnly, stepVars
<1> QED BY <1>1, <1>2 DEF StepAttempts

LEMMA HealsUnlogged ==
  ASSUME Heals
  PROVE  UNCHANGED <<log, due>> /\ place' \notin {"flushed", "closed"}
<1>1. UNCHANGED <<log, due>>
  BY DEF Heals, BridgeInjects, BridgePasses, Captures, Pins, HealsDirectly, AsksAI, HealOnly
<1>2. CASE AsksAI
  BY <1>1, <1>2 DEF AsksAI, Attempts, Goes
<1>3. CASE BridgeInjects \/ BridgePasses \/ Captures \/ Pins \/ HealsDirectly
  BY <1>1, <1>3 DEF BridgeInjects, BridgePasses, Captures, Pins, HealsDirectly, Attempts, Goes
<1> QED BY <1>1, <1>2, <1>3 DEF Heals

LEMMA LInvInductive == Spec => []LInv
<1>1. SInv /\ LInv /\ [Next]_vars => LInv'
  <2> SUFFICES ASSUME SInv, LInv, [Next]_vars PROVE LInv'
    OBVIOUS
  <2>1. CASE StepAttempts
    BY <2>1, AttemptsUnlogged, UnloggedStep
  <2>2. CASE Heals
    BY <2>2, HealsUnlogged, UnloggedStep
  <2>3. CASE RunEnds
    BY <2>3, FlushStep
  <2>4. CASE Closes
    <3>1. UNCHANGED <<log, due>> /\ place = "flushed"
      BY <2>4 DEF Closes
    <3> QED BY <3>1, UnloggedStep
  <2>5. CASE Over \/ UNCHANGED vars
    <3>1. UNCHANGED <<log, due, place>>
      BY <2>5 DEF Over, vars
    <3> QED BY <3>1, UnloggedStep
  <2>6. CASE PageMoves
    <3>1. UNCHANGED <<log, due, place>>
      BY <2>6 DEF PageMoves, stepVars
    <3> QED BY <3>1, UnloggedStep
  <2>7. CASE ShadowGoesOn
    <3>1. UNCHANGED <<due, place>>
      BY <2>7 DEF ShadowGoesOn, stepVars
    <3>2. CASE StrategyAnswers
      BY <3>1, <3>2, UnloggedStep DEF StrategyAnswers
    <3>3. CASE ComparisonEnds
      BY <3>1, <3>3, AppendStep
    <3> QED BY <2>7, <3>2, <3>3 DEF ShadowGoesOn, ShadowWorks
  <2> QED BY <2>1, <2>2, <2>3, <2>4, <2>5, <2>6, <2>7 DEF Next
<1> QED BY <1>1, InitLInv, SInvInductive, PTL DEF Spec

\* A comparison that ended before the last flush is in the file, as far as the
\* file reaches back, unless a write failed (DriftLog, execute_pipeline).
THEOREM ComparisonsAreWritten == Spec => []FinishedComparisonsAreWritten
<1>1. LInv => FinishedComparisonsAreWritten
  <2> SUFFICES ASSUME LInv, place \in {"flushed", "closed"}, ~ log.failed
               PROVE  \E n \in due..Len(log.appended) : log.disk = LastOf(SubSeq(log.appended, 1, n), MaxRecords)
    BY DEF FinishedComparisonsAreWritten
  <2>1. /\ due <= Written(log) /\ due \in Nat /\ log.unflushed \in 0..Len(log.appended)
        /\ log.appended \in Seq(ToSet(log.appended))
        /\ log.disk = LastOf(SubSeq(log.appended, 1, Written(log)), MaxRecords)
    BY DEF LInv, LogIsSound
  <2>2. Written(log) \in due..Len(log.appended)
    BY <2>1 DEF Written
  <2> QED BY <2>1, <2>2
<1> QED BY <1>1, LInvInductive, PTL

(***************************************************************************)
(* What may be chosen of several candidates                                *)
(***************************************************************************)

\* An element may be settled on: it takes the action, or, as one of several
\* matches, no rival does.
Good(guess, loc) ==
  \A e \in Target(loc) :
    IF guess THEN Takes(e)
    ELSE ~Strict /\ e \in Rivals(loc) /\ ~Takes(e) => \A f \in Rivals(loc) : ~Takes(f)

\* Places of a sequence can be put in order.
LEMMA PlacesOfSequence ==
  ASSUME NEW n \in Nat, NEW S \in SUBSET (1..n)
  PROVE  S \subseteq Nat /\ IsFiniteSet(S)
<1>1. IsFiniteSet(1..n)
  BY FS_Interval
<1>2. IsFiniteSet(S)
  BY <1>1, FS_Subset
<1> QED BY <1>2

LEMMA FirstOfTwo ==
  ASSUME NEW S, NEW s \in Seq(S), NEW t \in Seq(S), s # << >>
  PROVE  1 \in 1..Len(s) /\ (s \o t)[1] = s[1]
OBVIOUS

\* The candidates that can take the action, and the others.
LEMMA FittingLists ==
  ASSUME NEW seq, NEW n \in Nat, DOMAIN seq = 1..n
  PROVE  /\ Fitting(seq) \in Seq(ToSet(seq)) /\ Unfitting(seq) \in Seq(ToSet(seq))
         /\ \A k \in 1..Len(Fitting(seq)) :
              \E i \in 1..n : Fitting(seq)[k] = seq[i] /\ Fits(seq[i].loc)
         /\ Fitting(seq) = << >> <=> \A i \in 1..n : ~Fits(seq[i].loc)
<1> DEFINE able == {i \in DOMAIN seq : Fits(seq[i].loc)}
           others == {i \in DOMAIN seq : ~Fits(seq[i].loc)}
<1>1. able \in SUBSET (1..n) /\ others \in SUBSET (1..n)
  OBVIOUS
<1>2. /\ able \subseteq Nat /\ IsFiniteSet(able)
      /\ others \subseteq Nat /\ IsFiniteSet(others)
  BY <1>1, PlacesOfSequence
<1>3. Fitting(seq) = AtPlaces(seq, able) /\ Unfitting(seq) = AtPlaces(seq, others)
  BY DEF Fitting, Unfitting
<1>4. \A i \in 1..n : i \in able <=> Fits(seq[i].loc)
  OBVIOUS
<1> HIDE DEF able, others
<1>5. /\ AtPlaces(seq, able) \in Seq(ToSet(seq)) /\ (AtPlaces(seq, able) = << >> <=> able = {})
      /\ \A k \in 1..Len(AtPlaces(seq, able)) : \E i \in able : AtPlaces(seq, able)[k] = seq[i]
  BY <1>1, <1>2, AtPlacesLists
<1>6. AtPlaces(seq, others) \in Seq(ToSet(seq))
  BY <1>1, <1>2, AtPlacesLists
<1>7. able = {} <=> \A i \in 1..n : ~Fits(seq[i].loc)
  BY <1>1, <1>4
<1> QED BY <1>1, <1>3, <1>4, <1>5, <1>6, <1>7

\* A candidate fits when the element it stands for takes the action.
LEMMA FitsTakes ==
  ASSUME NEW loc, task.action \in FitActions
  PROVE  Fits(loc) <=> \A e \in Target(loc) : Takes(e)
BY DEF Fits, Takes

\* The elements a query's locators stand for.
LEMMA SelectedByNth ==
  ASSUME page \in Pages, NEW by, NEW of, NEW e \in Selected(by, of)
  PROVE  \E k \in 1..CountOfMatches(by, of) :
           /\ e \in Target(Nth(by, of, k))
           /\ \A f \in Target(Nth(by, of, k)) : f = e
<1>1. PICK k \in 1..CountOfMatches(by, of) : e \in Target(Nth(by, of, k))
  BY NthStandsForOne
<1>2. k \in Nat
  BY PlacesAreFinite
<1> QED BY <1>1, <1>2, NthStandsForOne

LEMMA RivalsAreSelected ==
  ASSUME NEW by, NEW of, NEW k
  PROVE  /\ Rivals(Nth(by, of, k)) \subseteq Selected(by, of)
         /\ ~ task.described => Rivals(Nth(by, of, k)) = Selected(by, of)
         /\ task.described =>
              \A e \in Rivals(Nth(by, of, k)) :
                /\ e.score >= SEMANTIC_THRESHOLD
                /\ \A f \in Selected(by, of) : f.score <= e.score + TieBreakWindow
BY DEF Rivals, Nth

\* A key with one match.
LEMMA OneMatchIsGood ==
  ASSUME page \in Pages, NEW by, NEW of, CountOfMatches(by, of) = 1
  PROVE  Good(FALSE, Nth(by, of, 1))
<1> SUFFICES ASSUME NEW e \in Target(Nth(by, of, 1)), ~Takes(e), NEW f \in Rivals(Nth(by, of, 1))
             PROVE  ~Takes(f)
  BY DEF Good
<1>1. f \in Selected(by, of)
  BY RivalsAreSelected
<1>2. PICK k \in 1..CountOfMatches(by, of) :
        /\ f \in Target(Nth(by, of, k))
        /\ \A g \in Target(Nth(by, of, k)) : g = f
  BY <1>1, SelectedByNth
<1>3. k = 1
  BY <1>2
<1> QED BY <1>2, <1>3

\* The matches of a key that has several, as candidates.
MatchesOf(by, of) == [i \in 1..CountOfMatches(by, of) |-> [loc |-> Nth(by, of, i), score |-> 0]]

\* Without a description the first match that can take the action is good.
LEMMA FirstIsGood ==
  ASSUME page \in Pages, task.action \in FitActions, ~task.described, NEW by, NEW of,
         CountOfMatches(by, of) > 1
  PROVE  Good(FALSE, FittingFirst(MatchesOf(by, of), FALSE)[1].loc)
<1> DEFINE n == CountOfMatches(by, of)
           seq == MatchesOf(by, of)
           first == FittingFirst(seq, FALSE)[1]
<1>1. n \in Nat /\ 1 \in 1..n
  BY PlacesAreFinite
<1>2. DOMAIN seq = 1..n /\ \A i \in 1..n : seq[i].loc = Nth(by, of, i)
  BY DEF MatchesOf
<1> HIDE DEF seq
<1>3. /\ Fitting(seq) \in Seq(ToSet(seq)) /\ Unfitting(seq) \in Seq(ToSet(seq))
      /\ \A k \in 1..Len(Fitting(seq)) : \E i \in 1..n : Fitting(seq)[k] = seq[i] /\ Fits(seq[i].loc)
      /\ Fitting(seq) = << >> <=> \A i \in 1..n : ~Fits(seq[i].loc)
  <2> HIDE DEF n
  <2> QED BY <1>1, <1>2, FittingLists
<1>4. CASE Fitting(seq) = << >>
  <2>1. first.loc = Nth(by, of, 1)
    BY <1>1, <1>2, <1>4 DEF FittingFirst
  <2>2. ASSUME NEW f \in Selected(by, of) PROVE ~Takes(f)
    <3>1. PICK k \in 1..n : /\ f \in Target(Nth(by, of, k))
                            /\ \A g \in Target(Nth(by, of, k)) : g = f
      BY SelectedByNth
    <3>2. ~Fits(Nth(by, of, k))
      BY <1>2, <1>3, <1>4
    <3> QED BY <3>1, <3>2, FitsTakes
  <2>3. \A f \in Rivals(Nth(by, of, 1)) : ~Takes(f)
    BY <2>2, RivalsAreSelected
  <2> QED BY <2>1, <2>3 DEF Good, seq
<1>5. CASE Fitting(seq) # << >>
  <2>1. first = Fitting(seq)[1] /\ 1 \in 1..Len(Fitting(seq))
    <3>1. FittingFirst(seq, FALSE) = Fitting(seq) \o Unfitting(seq)
      BY <1>5 DEF FittingFirst
    <3>2. 1 \in 1..Len(Fitting(seq)) /\ (Fitting(seq) \o Unfitting(seq))[1] = Fitting(seq)[1]
      BY <1>3, <1>5, FirstOfTwo
    <3> QED BY <3>1, <3>2
  <2>2. Fits(first.loc)
    BY <1>3, <2>1
  <2> QED BY <2>2, FitsTakes DEF Good, seq
<1> QED BY <1>4, <1>5

(***************************************************************************)
(* The shortlist                                                           *)
(***************************************************************************)

\* The candidates of some similarity.
LEMMA AtLeastLists ==
  ASSUME NEW seq, NEW n \in Nat, DOMAIN seq = 1..n, NEW min
  PROVE  /\ AtLeast(seq, min) \in Seq(ToSet(seq))
         /\ \A k \in 1..Len(AtLeast(seq, min)) :
              \E i \in 1..n : AtLeast(seq, min)[k] = seq[i] /\ seq[i].score >= min
         /\ \A i \in 1..n : seq[i].score >= min =>
              \E k \in 1..Len(AtLeast(seq, min)) : AtLeast(seq, min)[k] = seq[i]
<1> DEFINE like == {i \in DOMAIN seq : seq[i].score >= min}
<1>1. like \in SUBSET (1..n) /\ like \subseteq DOMAIN seq
  OBVIOUS
<1>2. like \subseteq Nat /\ IsFiniteSet(like)
  BY <1>1, PlacesOfSequence
<1>3. AtLeast(seq, min) = AtPlaces(seq, like)
  BY DEF AtLeast
<1>4. \A i \in 1..n : i \in like <=> seq[i].score >= min
  OBVIOUS
<1> HIDE DEF like
<1>5. /\ AtPlaces(seq, like) \in Seq(ToSet(seq))
      /\ \A k \in 1..Len(AtPlaces(seq, like)) : \E i \in like : AtPlaces(seq, like)[k] = seq[i]
      /\ \A i \in like : \E k \in 1..Len(AtPlaces(seq, like)) : AtPlaces(seq, like)[k] = seq[i]
  BY <1>1, <1>2, AtPlacesLists
<1>6. \A k \in 1..Len(AtPlaces(seq, like)) :
        \E i \in 1..n : AtPlaces(seq, like)[k] = seq[i] /\ seq[i].score >= min
  BY <1>1, <1>4, <1>5
<1>7. \A i \in 1..n : seq[i].score >= min =>
        \E k \in 1..Len(AtPlaces(seq, like)) : AtPlaces(seq, like)[k] = seq[i]
  BY <1>4, <1>5
<1> QED BY <1>3, <1>5, <1>6, <1>7

\* How many they are.
LEMMA AtLeastCounts ==
  ASSUME NEW seq, NEW n \in Nat, DOMAIN seq = 1..n, NEW min, NEW S \in SUBSET (1..n),
         \A i \in S : seq[i].score >= min
  PROVE  /\ Len(AtLeast(seq, min)) \in Nat /\ IsFiniteSet(S) /\ Cardinality(S) \in Nat
         /\ Cardinality(S) <= Len(AtLeast(seq, min))
<1> DEFINE like == {i \in DOMAIN seq : seq[i].score >= min}
<1>1. like \in SUBSET (1..n) /\ like \subseteq DOMAIN seq /\ S \in SUBSET like
  OBVIOUS
<1>2. AtLeast(seq, min) = AtPlaces(seq, like)
  BY DEF AtLeast
<1> HIDE DEF like
<1>3. like \subseteq Nat /\ IsFiniteSet(like)
  BY <1>1, PlacesOfSequence
<1>4. Len(AtPlaces(seq, like)) = Cardinality(like) /\ Cardinality(like) \in Nat
  BY <1>1, <1>3, AtPlacesLists
<1>5. IsFiniteSet(S) /\ Cardinality(S) <= Cardinality(like)
  BY <1>1, <1>3, FS_Subset
<1> QED BY <1>2, <1>4, <1>5, FS_CardinalityType

\* Of candidates in the order of their scores, the ones behind the best are not
\* among the best.
LEMMA BestComeFirst ==
  ASSUME NEW seq, NEW n \in Nat, DOMAIN seq = 1..n, \A i \in 1..n : seq[i].score \in Int,
         \A k, l \in 1..n : k < l => seq[k].score >= seq[l].score,
         NEW min \in Int, NEW k \in 1..n, Len(AtLeast(seq, min)) < k
  PROVE  seq[k].score < min
<1> SUFFICES ASSUME seq[k].score >= min PROVE FALSE
  OBVIOUS
<1>1. \A i \in 1..k : i \in 1..n /\ seq[i].score >= seq[k].score
  <2> SUFFICES ASSUME NEW i \in 1..k PROVE i \in 1..n /\ seq[i].score >= seq[k].score
    OBVIOUS
  <2>1. i \in 1..n /\ (i < k \/ i = k)
    OBVIOUS
  <2> QED BY <2>1
<1>2. \A i \in 1..k : i \in 1..n /\ seq[i].score >= min
  <2> SUFFICES ASSUME NEW i \in 1..k PROVE i \in 1..n /\ seq[i].score >= min
    OBVIOUS
  <2>1. i \in 1..n /\ seq[i].score >= seq[k].score /\ seq[i].score \in Int
    BY <1>1
  <2>2. seq[i].score >= min
    BY <2>1
  <2> QED BY <2>1, <2>2
<1>3. 1..k \in SUBSET (1..n) /\ \A i \in 1..k : seq[i].score >= min
  BY <1>1, <1>2
<1>4. Cardinality(1..k) = k
  BY FS_Interval
<1>5. Cardinality(1..k) <= Len(AtLeast(seq, min)) /\ Len(AtLeast(seq, min)) \in Nat
  BY <1>3, AtLeastCounts
<1> QED BY <1>4, <1>5

\* The similarity of a candidate is that of the element it stands for.
LEMMA ScoresAreKnown ==
  ASSUME page \in Pages, NEW by, NEW of, NEW k \in Nat
  PROVE  /\ ScoreOf(Nth(by, of, k)) \in Int
         /\ \A e \in Target(Nth(by, of, k)) : ScoreOf(Nth(by, of, k)) = e.score
         /\ ScoreOf(Nth(by, of, k)) # 0 => Target(Nth(by, of, k)) # {}
<1> DEFINE loc == Nth(by, of, k)
<1>1. \A e, f \in Target(loc) : e = f /\ e \in Selected(by, of)
  BY NthStandsForOne
<1>2. \A e \in Selected(by, of) : e.score \in Int
  BY PageTyped DEF Selected, PlacesOf
<1> HIDE DEF loc
<1>3. CASE Target(loc) = {}
  BY <1>3 DEF ScoreOf, loc
<1>4. CASE Target(loc) # {}
  <2>1. PICK e \in Target(loc) : TRUE
    BY <1>4
  <2>2. (CHOOSE f \in Target(loc) : TRUE) \in Target(loc)
    BY <2>1
  <2>3. (CHOOSE f \in Target(loc) : TRUE) = e
    BY <1>1, <2>1, <2>2
  <2>4. ScoreOf(loc) = e.score
    BY <1>4, <2>3 DEF ScoreOf
  <2> QED BY <1>1, <1>2, <2>1, <2>4 DEF loc
<1> QED BY <1>3, <1>4 DEF loc

\* The candidates with their similarity, and the ones like the description, best
\* first, as Shortlist has them.
ScoredMatches(by, of) ==
  [i \in 1..CountOfMatches(by, of) |-> [loc |-> Nth(by, of, i), score |-> ScoreOf(Nth(by, of, i))]]

LikedMatches(by, of) == Ranked(AtLeast(ScoredMatches(by, of), SEMANTIC_THRESHOLD))

\* They stand for matches of the query, all that are like the description, best first.
LEMMA LikedMatchesAreSorted ==
  ASSUME page \in Pages, NEW by, NEW of
  PROVE  LET good == LikedMatches(by, of)
             n == CountOfMatches(by, of)
         IN /\ good \in Seq(ToSet(good)) /\ Len(good) \in Nat
            /\ \A k \in 1..Len(good) :
                 \E i \in 1..n : /\ good[k].loc = Nth(by, of, i) /\ good[k].score = ScoreOf(Nth(by, of, i))
                                 /\ good[k].score >= SEMANTIC_THRESHOLD /\ good[k].score \in Int
            /\ \A i \in 1..n : ScoreOf(Nth(by, of, i)) >= SEMANTIC_THRESHOLD =>
                 \E k \in 1..Len(good) : good[k].loc = Nth(by, of, i) /\ good[k].score = ScoreOf(Nth(by, of, i))
            /\ \A k, l \in 1..Len(good) : k < l => good[k].score >= good[l].score
<1> DEFINE n == CountOfMatches(by, of)
           scored == ScoredMatches(by, of)
           liked == AtLeast(scored, SEMANTIC_THRESHOLD)
           good == LikedMatches(by, of)
<1>1. n \in Nat
  BY PlacesAreFinite
<1>2. /\ DOMAIN scored = 1..n
      /\ \A i \in 1..n : /\ scored[i].loc = Nth(by, of, i) /\ scored[i].score = ScoreOf(Nth(by, of, i))
                         /\ scored[i].score \in Int
  BY <1>1, ScoresAreKnown DEF ScoredMatches
<1> HIDE DEF scored, n
<1>3. /\ liked \in Seq(ToSet(scored))
      /\ \A k \in 1..Len(liked) : \E i \in 1..n : liked[k] = scored[i] /\ scored[i].score >= SEMANTIC_THRESHOLD
      /\ \A i \in 1..n : scored[i].score >= SEMANTIC_THRESHOLD => \E k \in 1..Len(liked) : liked[k] = scored[i]
  BY <1>1, <1>2, AtLeastLists
<1>4. Len(liked) \in Nat /\ DOMAIN liked = 1..Len(liked)
  BY <1>3
<1>5. good = Ranked(liked)
  BY DEF LikedMatches, scored
<1> HIDE DEF liked, good
<1>6. \A k \in 1..Len(liked) : liked[k].score \in Int
  BY <1>2, <1>3
<1>7. /\ good \in Seq(ToSet(liked)) /\ Len(good) = Len(liked)
      /\ \A i \in 1..Len(liked) : \E k \in 1..Len(good) : good[k] = liked[i]
      /\ \A k, l \in 1..Len(good) : k < l => good[k].score >= good[l].score
  <2> DEFINE m == Len(liked)
  <2>1. m \in Nat /\ DOMAIN liked = 1..m /\ \A i \in 1..m : liked[i].score \in Int
    BY <1>4, <1>6
  <2> HIDE DEF m
  <2>2. /\ Ranked(liked) \in Seq(ToSet(liked)) /\ Len(Ranked(liked)) = m
        /\ \A i \in 1..m : \E k \in 1..m : Ranked(liked)[k] = liked[i]
        /\ \A k, l \in 1..m : k < l => Ranked(liked)[k].score >= Ranked(liked)[l].score
    BY <2>1, RankedLists
  <2> QED BY <1>5, <2>2 DEF m
<1>8. good \in Seq(ToSet(good)) /\ Len(good) \in Nat
  BY <1>7 DEF ToSet
<1>9. ASSUME NEW k \in 1..Len(good)
      PROVE  \E i \in 1..n : /\ good[k].loc = Nth(by, of, i) /\ good[k].score = ScoreOf(Nth(by, of, i))
                             /\ good[k].score >= SEMANTIC_THRESHOLD /\ good[k].score \in Int
  <2>1. good[k] \in ToSet(liked)
    BY <1>7
  <2>2. PICK m \in 1..Len(liked) : good[k] = liked[m]
    BY <1>4, <2>1 DEF ToSet
  <2>3. PICK i \in 1..n : liked[m] = scored[i] /\ scored[i].score >= SEMANTIC_THRESHOLD
    BY <1>3
  <2> QED BY <1>2, <2>2, <2>3
<1>10. ASSUME NEW i \in 1..n, ScoreOf(Nth(by, of, i)) >= SEMANTIC_THRESHOLD
       PROVE  \E k \in 1..Len(good) : good[k].loc = Nth(by, of, i) /\ good[k].score = ScoreOf(Nth(by, of, i))
  <2>1. PICK m \in 1..Len(liked) : liked[m] = scored[i]
    BY <1>2, <1>3, <1>10
  <2>2. PICK k \in 1..Len(good) : good[k] = liked[m]
    BY <1>7
  <2> QED BY <1>2, <2>1, <2>2
<1> QED BY <1>7, <1>8, <1>9, <1>10 DEF good, n

LEMMA PlaceIn ==
  ASSUME NEW S, NEW s \in Seq(S), NEW c \in ToSet(s)
  PROVE  \E i \in 1..Len(s) : c = s[i]
BY DEF ToSet

LEMMA RestOfIt ==
  ASSUME NEW S, NEW s \in Seq(S), NEW n \in Nat
  PROVE  /\ SubSeq(s, n + 1, Len(s)) \in Seq(S)
         /\ \A c \in ToSet(SubSeq(s, n + 1, Len(s))) : \E k \in 1..Len(s) : c = s[k] /\ n < k
<1> DEFINE r == SubSeq(s, n + 1, Len(s))
<1>1. CASE n < Len(s)
  <2>1. r \in Seq(S) /\ Len(r) = Len(s) - n /\ \A i \in 1..Len(r) : r[i] = s[n + i]
    BY <1>1
  <2>2. ASSUME NEW c \in ToSet(r) PROVE \E k \in 1..Len(s) : c = s[k] /\ n < k
    <3> HIDE DEF r
    <3>1. PICK i \in 1..Len(r) : c = r[i]
      BY <2>1, PlaceIn
    <3>2. n + i \in 1..Len(s) /\ n < n + i /\ c = s[n + i]
      BY <2>1, <3>1
    <3> QED BY <3>2
  <2> QED BY <2>1, <2>2
<1>2. CASE n >= Len(s)
  <2>1. r = << >>
    BY <1>2
  <2>2. ToSet(r) = {}
    BY <2>1 DEF ToSet
  <2> QED BY <2>1, <2>2
<1> QED BY <1>1, <1>2

LEMMA EitherOfTwo ==
  ASSUME NEW S, NEW s \in Seq(S), NEW t \in Seq(S), NEW c \in ToSet(s \o t)
  PROVE  c \in ToSet(s) \/ c \in ToSet(t)
<1>1. PICK i \in 1..(Len(s) + Len(t)) : c = (s \o t)[i]
  BY DEF ToSet
<1>2. CASE i <= Len(s)
  BY <1>1, <1>2 DEF ToSet
<1>3. CASE i > Len(s)
  <2>1. i - Len(s) \in 1..Len(t) /\ c = t[i - Len(s)]
    BY <1>1, <1>3
  <2> QED BY <2>1 DEF ToSet
<1> QED BY <1>1, <1>2, <1>3

LEMMA BothInOne ==
  ASSUME NEW U, NEW s \in Seq(U), NEW t \in Seq(U)
  PROVE  s \o t \in Seq(U)
OBVIOUS

\* The shortlist: what the description cannot tell apart from the best comes
\* without the ones that cannot take the action, as long as there are others.
LEMMA ShortlistIsGood ==
  ASSUME page \in Pages, task.action \in FitActions, task.described, NEW by, NEW of,
         lookup.found = MatchesOf(by, of)
  PROVE  Shortlist \in Seq(ToSet(Shortlist)) /\ \A c \in ToSet(Shortlist) : Good(FALSE, c.loc)
<1> DEFINE n == CountOfMatches(by, of)
           good == LikedMatches(by, of)
           least == good[1].score - TieBreakWindow
           tied == AtLeast(good, least)
           rest == SubSeq(good, Len(tied) + 1, Len(good))
<1>1. n \in Nat
  BY PlacesAreFinite
<1>2. Shortlist = IF Len(tied) > 1 THEN FittingFirst(tied, TRUE) \o rest ELSE good
  <2>1. [i \in DOMAIN lookup.found |-> [loc |-> lookup.found[i].loc, score |-> ScoreOf(lookup.found[i].loc)]]
        = ScoredMatches(by, of)
    <3> HIDE DEF n
    <3> QED BY <1>1 DEF MatchesOf, ScoredMatches, n
  <2> QED BY <2>1 DEF Shortlist, LikedMatches
<1>3. /\ good \in Seq(ToSet(good)) /\ Len(good) \in Nat
      /\ \A k \in 1..Len(good) :
           \E i \in 1..n : /\ good[k].loc = Nth(by, of, i) /\ good[k].score = ScoreOf(Nth(by, of, i))
                           /\ good[k].score >= SEMANTIC_THRESHOLD /\ good[k].score \in Int
      /\ \A i \in 1..n : ScoreOf(Nth(by, of, i)) >= SEMANTIC_THRESHOLD =>
           \E k \in 1..Len(good) : good[k].loc = Nth(by, of, i) /\ good[k].score = ScoreOf(Nth(by, of, i))
      /\ \A k, l \in 1..Len(good) : k < l => good[k].score >= good[l].score
  BY LikedMatchesAreSorted
<1> HIDE DEF n, good
<1>4. DOMAIN good = 1..Len(good)
  BY <1>3
\* What is good enough and as good as the best is among the best.
<1>5. ASSUME NEW k \in 1..Len(good), NEW e \in Target(good[k].loc), e \in Rivals(good[k].loc), ~Takes(e),
             NEW f \in Rivals(good[k].loc), Takes(f)
      PROVE  /\ least \in Int /\ good[k].score >= least
             /\ \E m \in 1..Len(good) : /\ good[m].score >= least /\ m # k
                                        /\ Fits(good[m].loc) /\ ~Fits(good[k].loc)
  <2>1. PICK i \in 1..n : good[k].loc = Nth(by, of, i) /\ good[k].score = ScoreOf(Nth(by, of, i))
    BY <1>3
  <2>2. i \in Nat /\ 1 \in 1..Len(good)
    BY <1>1, <1>3
  <2>3. good[k].score = e.score
    BY <1>5, <2>1, <2>2, ScoresAreKnown
  <2>4. PICK b \in 1..n : /\ good[1].loc = Nth(by, of, b) /\ good[1].score = ScoreOf(Nth(by, of, b))
                          /\ good[1].score >= SEMANTIC_THRESHOLD /\ good[1].score \in Int
    BY <1>3, <2>2
  <2>5. b \in Nat /\ ScoreOf(Nth(by, of, b)) # 0
    BY <1>1, <2>4 DEF SEMANTIC_THRESHOLD
  <2>6. PICK g \in Target(Nth(by, of, b)) : g.score = good[1].score
    BY <2>4, <2>5, ScoresAreKnown
  <2>7. g \in Selected(by, of)
    BY <2>5, <2>6, NthStandsForOne
  <2>8. least \in Int /\ TieBreakWindow \in Int
    BY <2>4 DEF TieBreakWindow
  <2>9. /\ good[1].score <= e.score + TieBreakWindow /\ good[1].score <= f.score + TieBreakWindow
        /\ f.score >= SEMANTIC_THRESHOLD /\ f \in Selected(by, of)
    BY <1>5, <2>1, <2>6, <2>7, RivalsAreSelected
  <2>10. PICK j \in 1..n : f \in Target(Nth(by, of, j)) /\ \A h \in Target(Nth(by, of, j)) : h = f
    BY <2>9, SelectedByNth DEF n
  <2>11. j \in Nat /\ ScoreOf(Nth(by, of, j)) = f.score
    BY <1>1, <2>10, ScoresAreKnown
  <2>12. PICK m \in 1..Len(good) : good[m].loc = Nth(by, of, j) /\ good[m].score = f.score
    BY <1>3, <2>9, <2>11
  <2>13. Fits(good[m].loc) /\ ~Fits(good[k].loc)
    BY <1>5, <2>10, <2>12, FitsTakes
  <2>14. good[k].score \in Int /\ good[m].score \in Int
    BY <1>3
  <2>15. good[k].score >= least /\ good[m].score >= least
    BY <2>3, <2>4, <2>8, <2>9, <2>12, <2>14
  <2> QED BY <2>8, <2>12, <2>13, <2>15
<1>6. /\ tied \in Seq(ToSet(good))
      /\ \A k \in 1..Len(tied) : \E i \in 1..Len(good) : tied[k] = good[i] /\ good[i].score >= least
      /\ \A i \in 1..Len(good) : good[i].score >= least => \E k \in 1..Len(tied) : tied[k] = good[i]
  <2> DEFINE m == Len(good)
  <2>1. m \in Nat /\ DOMAIN good = 1..m
    BY <1>3, <1>4
  <2> HIDE DEF least, m
  <2>2. /\ AtLeast(good, least) \in Seq(ToSet(good))
        /\ \A k \in 1..Len(AtLeast(good, least)) :
             \E i \in 1..m : AtLeast(good, least)[k] = good[i] /\ good[i].score >= least
        /\ \A i \in 1..m : good[i].score >= least =>
             \E k \in 1..Len(AtLeast(good, least)) : AtLeast(good, least)[k] = good[i]
    <3>1. AtLeast(good, least) \in Seq(ToSet(good))
      BY <2>1, AtLeastLists
    <3>2. \A k \in 1..Len(AtLeast(good, least)) :
             \E i \in 1..m : AtLeast(good, least)[k] = good[i] /\ good[i].score >= least
      BY <2>1, AtLeastLists
    <3>3. \A i \in 1..m : good[i].score >= least =>
             \E k \in 1..Len(AtLeast(good, least)) : AtLeast(good, least)[k] = good[i]
      BY <2>1, AtLeastLists
    <3> QED BY <3>1, <3>2, <3>3
  <2> QED BY <2>2 DEF m
<1>7. Len(tied) \in Nat /\ DOMAIN tied = 1..Len(tied)
  BY <1>6
<1>8. ASSUME NEW k \in 1..Len(good), NEW m \in 1..Len(good), m # k, good[k].score >= least, good[m].score >= least
      PROVE  Len(tied) > 1
  <2>1. {k, m} \in SUBSET (1..Len(good)) /\ \A i \in {k, m} : good[i].score >= least
    BY <1>8
  <2>2. Cardinality({k, m}) = 2
    BY <1>8, TwoAreTwo
  <2> HIDE DEF least
  <2>3. Cardinality({k, m}) <= Len(tied)
    BY <1>3, <1>4, <2>1, AtLeastCounts
  <2> QED BY <1>7, <2>2, <2>3
<1>9. ASSUME NEW k \in 1..Len(good), Len(tied) < k, least \in Int
      PROVE  good[k].score < least
  <2> HIDE DEF least
  <2> QED BY <1>3, <1>4, <1>9, BestComeFirst
<1> HIDE DEF tied, least, rest
<1>10. /\ Fitting(tied) \in Seq(ToSet(tied))
      /\ \A k \in 1..Len(Fitting(tied)) : \E i \in 1..Len(tied) : Fitting(tied)[k] = tied[i] /\ Fits(tied[i].loc)
  <2> DEFINE m == Len(tied)
  <2>1. m \in Nat /\ DOMAIN tied = 1..m
    BY <1>7
  <2> HIDE DEF m
  <2>2. /\ Fitting(tied) \in Seq(ToSet(tied))
        /\ \A k \in 1..Len(Fitting(tied)) : \E i \in 1..m : Fitting(tied)[k] = tied[i] /\ Fits(tied[i].loc)
    BY <2>1, FittingLists
  <2> QED BY <2>2 DEF m
<1>11. FittingFirst(tied, TRUE) = IF Fitting(tied) = << >> THEN tied ELSE Fitting(tied)
  BY <1>10 DEF FittingFirst
<1>12. /\ FittingFirst(tied, TRUE) \in Seq(ToSet(good) \cup ToSet(tied))
      /\ rest \in Seq(ToSet(good) \cup ToSet(tied))
  <2> DEFINE U == ToSet(good) \cup ToSet(tied)
  <2>1. tied \in Seq(U) /\ Fitting(tied) \in Seq(U) /\ good \in Seq(U)
    <3>1. ToSet(good) \subseteq U /\ ToSet(tied) \subseteq U
      OBVIOUS
    <3> HIDE DEF U
    <3> QED BY <1>3, <1>6, <1>10, <3>1
  <2> HIDE DEF U
  <2>2. FittingFirst(tied, TRUE) \in Seq(U)
    BY <1>11, <2>1
  <2>3. rest \in Seq(U)
    BY <1>7, <2>1, RestOfIt DEF rest
  <2> QED BY <2>2, <2>3 DEF U
<1>13. ASSUME NEW c \in ToSet(Shortlist)
       PROVE  \E k \in 1..Len(good) :
                /\ c = good[k]
                /\ \/ Len(tied) <= 1
                   \/ Fitting(tied) = << >>
                   \/ Fits(c.loc)
                   \/ Len(tied) < k
  <2>1. CASE Len(tied) > 1
    <3>1. Shortlist = FittingFirst(tied, TRUE) \o rest
      BY <1>2, <2>1
    <3>2. c \in ToSet(FittingFirst(tied, TRUE)) \/ c \in ToSet(rest)
      BY <1>12, <1>13, <3>1, EitherOfTwo
    <3>3. CASE c \in ToSet(rest)
      BY <1>3, <1>7, <3>3, RestOfIt DEF rest
    <3>4. CASE c \in ToSet(FittingFirst(tied, TRUE)) /\ Fitting(tied) = << >>
      <4>1. PICK i \in 1..Len(tied) : c = tied[i]
        BY <1>7, <1>11, <3>4 DEF ToSet
      <4> QED BY <1>6, <3>4, <4>1
    <3>5. CASE c \in ToSet(FittingFirst(tied, TRUE)) /\ Fitting(tied) # << >>
      <4>1. c \in ToSet(Fitting(tied))
        BY <1>11, <3>5
      <4>2. PICK i \in 1..Len(Fitting(tied)) : c = Fitting(tied)[i]
        BY <1>10, <4>1, PlaceIn
      <4>3. PICK m \in 1..Len(tied) : c = tied[m] /\ Fits(c.loc)
        BY <1>10, <4>2
      <4> QED BY <1>6, <4>3
    <3> QED BY <3>2, <3>3, <3>4, <3>5
  <2>2. CASE Len(tied) <= 1
    <3>1. ~(Len(tied) > 1)
      BY <1>7, <2>2
    <3>2. Shortlist = good
      BY <1>2, <3>1
    <3>3. c \in ToSet(good)
      BY <1>13, <3>2
    <3> QED BY <1>4, <2>2, <3>3 DEF ToSet
  <2> QED BY <1>7, <2>1, <2>2
<1>14. Shortlist \in Seq(ToSet(Shortlist))
  <2>1. CASE Len(tied) > 1
    <3> DEFINE U == ToSet(good) \cup ToSet(tied)
    <3>1. Shortlist = FittingFirst(tied, TRUE) \o rest
      BY <1>2, <2>1
    <3>2. FittingFirst(tied, TRUE) \in Seq(U) /\ rest \in Seq(U)
      BY <1>12
    <3> HIDE DEF U
    <3>3. Shortlist \in Seq(U)
      BY <3>1, <3>2, BothInOne
    <3> QED BY <3>3 DEF ToSet
  <2>2. CASE Len(tied) <= 1
    <3>1. ~(Len(tied) > 1)
      BY <1>7, <2>2
    <3> QED BY <1>2, <1>3, <3>1
  <2> QED BY <1>7, <2>1, <2>2
<1> QED
  <2> SUFFICES ASSUME NEW c \in ToSet(Shortlist), NEW e \in Target(c.loc), e \in Rivals(c.loc), ~Takes(e),
                      NEW f \in Rivals(c.loc), Takes(f)
               PROVE  FALSE
    BY <1>14 DEF Good
  <2>1. PICK k \in 1..Len(good) :
          /\ c = good[k]
          /\ Len(tied) <= 1 \/ Fitting(tied) = << >> \/ Fits(c.loc) \/ Len(tied) < k
    BY <1>13
  <2>2. PICK m \in 1..Len(good) : /\ good[m].score >= least /\ m # k
                                  /\ Fits(good[m].loc) /\ ~Fits(good[k].loc)
    BY <1>5, <2>1
  <2>3. least \in Int /\ good[k].score >= least /\ good[k].score \in Int
    BY <1>3, <1>5, <2>1
  <2>4. ~(Len(tied) <= 1)
    BY <1>7, <1>8, <2>2, <2>3
  <2>5. ~Fits(c.loc)
    BY <2>1, <2>2
  <2>6. ~(Len(tied) < k)
    BY <1>9, <2>3
  <2>7. Fitting(tied) # << >>
    <3>1. PICK i \in 1..Len(tied) : tied[i] = good[m]
      BY <1>6, <2>2
    <3> DEFINE t == Len(tied)
    <3>2. t \in Nat /\ DOMAIN tied = 1..t /\ i \in 1..t /\ Fits(tied[i].loc)
      BY <1>7, <2>2, <3>1
    <3> HIDE DEF t
    <3> QED BY <3>2, FittingLists
  <2> QED BY <2>1, <2>4, <2>5, <2>6, <2>7

(***************************************************************************)
(* Words and nodes                                                         *)
(***************************************************************************)

\* What the keywords and the tree of accessible names give can take the action.
LEMMA FitsIsGood ==
  ASSUME task.action \in FitActions, NEW loc, Fits(loc)
  PROVE  Good(TRUE, loc)
BY FitsTakes DEF Good

\* The locators of a query, one for each match.
LEMMA CollectLists ==
  ASSUME page \in Pages, NEW by, NEW of
  PROVE  /\ Collect(by, of) \in Seq(ToSet(Collect(by, of)))
         /\ Len(Collect(by, of)) = CountOfMatches(by, of)
         /\ \A i \in 1..CountOfMatches(by, of) : Collect(by, of)[i] = Nth(by, of, i)
<1> DEFINE n == CountOfMatches(by, of)
<1>1. n \in Nat
  BY PlacesAreFinite
<1>2. Collect(by, of) = [i \in 1..n |-> Nth(by, of, i)]
  BY DEF Collect, Nth
<1> HIDE DEF n
<1> QED BY <1>1, <1>2 DEF ToSet, n

\* What the keywords give can take the action.
LEMMA WordsFit ==
  ASSUME page \in Pages
  PROVE  /\ Len(WordMatches) \in Nat
         /\ \A k \in 1..Len(WordMatches) : Fits(WordMatches[k])
<1> DEFINE all == Collect("word", 1) \o Collect("word", 2)
           n == Len(all)
           able == {i \in DOMAIN all : Fits(all[i])}
           reads(i) == {e.text : e \in Target(all[i])}
           fresh == {i \in able : reads(i) # {""} /\ \A j \in able : j < i => reads(j) # reads(i)}
<1>1. n \in Nat /\ DOMAIN all = 1..n
  <2> DEFINE U == ToSet(Collect("word", 1)) \cup ToSet(Collect("word", 2))
  <2>1. Collect("word", 1) \in Seq(U) /\ Collect("word", 2) \in Seq(U)
    <3>1. ToSet(Collect("word", 1)) \subseteq U /\ ToSet(Collect("word", 2)) \subseteq U
      OBVIOUS
    <3> HIDE DEF U
    <3> QED BY <3>1, CollectLists
  <2> HIDE DEF U
  <2>2. all \in Seq(U)
    BY <2>1, BothInOne
  <2> HIDE DEF all
  <2> QED BY <2>2
<1>2. WordMatches = AtPlaces(all, fresh)
  BY DEF WordMatches
<1> HIDE DEF all, n
<1>3. fresh \in SUBSET (1..n) /\ \A i \in fresh : Fits(all[i])
  BY <1>1
<1> HIDE DEF fresh
<1>4. fresh \subseteq Nat /\ IsFiniteSet(fresh)
  BY <1>1, <1>3, PlacesOfSequence
<1>5. /\ AtPlaces(all, fresh) \in Seq(ToSet(all))
      /\ \A k \in 1..Len(AtPlaces(all, fresh)) : \E i \in fresh : AtPlaces(all, fresh)[k] = all[i]
  BY <1>1, <1>3, <1>4, AtPlacesLists
<1> QED BY <1>2, <1>3, <1>5

\* What the tree of accessible names gives can take the action.
LEMMA NodesFit ==
  ASSUME page \in Pages
  PROVE  /\ NodeMatches \in Seq(ToSet(NodeMatches))
         /\ \A c \in ToSet(NodeMatches) : Fits(c.loc) /\ c.score \in 0..100
<1> DEFINE alike(e) == e.is # "" /\ e.state # "hidden" /\ e.score >= MIN_SIMILARITY
           places == {i \in DOMAIN page : alike(page[i])}
           nodes == AtPlaces(page, places)
           n == Len(nodes)
           all == [i \in DOMAIN nodes |->
                     [loc |-> [by |-> "node", of |-> nodes[i].is, nth |-> 1], score |-> nodes[i].score]]
           fit == Fitting(all)
           kept == Ranked(fit)
           most == IF Len(kept) < TOP_K THEN Len(kept) ELSE TOP_K
<1>1. NodeMatches = SubSeq(kept, 1, most)
  BY DEF NodeMatches
<1>2. places \in SUBSET (1..Len(page)) /\ Len(page) \in Nat /\ places \subseteq DOMAIN page
  BY PageTyped
<1> HIDE DEF places
<1>3. places \subseteq Nat /\ IsFiniteSet(places)
  BY <1>2, PlacesOfSequence
<1>4. /\ nodes \in Seq(ToSet(page))
      /\ \A k \in 1..n : \E i \in places : nodes[k] = page[i]
  BY <1>2, <1>3, AtPlacesLists
<1>5. n \in Nat /\ DOMAIN nodes = 1..n /\ \A k \in 1..n : nodes[k].score \in Int
  BY <1>2, <1>4, PageTyped
<1>15. \A k \in 1..n : nodes[k].score \in 0..100
  BY <1>2, <1>4, PageTyped
<1> HIDE DEF nodes, n
<1>6. DOMAIN all = 1..n /\ \A i \in 1..n : all[i].score \in Int
  BY <1>5
<1>16. \A i \in 1..n : all[i].score \in 0..100
  BY <1>5, <1>15
<1> HIDE DEF all
<1>7. /\ fit \in Seq(ToSet(all))
      /\ \A k \in 1..Len(fit) : \E i \in 1..n : fit[k] = all[i] /\ Fits(all[i].loc)
  BY <1>5, <1>6, FittingLists
<1> DEFINE m == Len(fit)
<1>8. m \in Nat /\ DOMAIN fit = 1..m /\ \A k \in 1..m : fit[k].score \in Int /\ Fits(fit[k].loc)
  BY <1>6, <1>7
<1>17. \A k \in 1..m : fit[k].score \in 0..100
  BY <1>7, <1>16
<1> HIDE DEF fit, m
<1>9. kept \in Seq(ToSet(fit)) /\ Len(kept) = m
  BY <1>8, RankedLists
<1>10. \A c \in ToSet(fit) : Fits(c.loc) /\ c.score \in 0..100
  BY <1>8, <1>17 DEF ToSet
<1> HIDE DEF kept
<1>11. most \in Nat /\ most <= Len(kept)
  BY <1>8, <1>9 DEF TOP_K
<1> HIDE DEF most
<1>12. SubSeq(kept, 1, most) \in Seq(ToSet(fit))
  BY <1>8, <1>9, <1>11
<1>13. ToSet(SubSeq(kept, 1, most)) \subseteq ToSet(fit)
  BY <1>12 DEF ToSet
<1>14. SubSeq(kept, 1, most) \in Seq(ToSet(SubSeq(kept, 1, most)))
  BY <1>12 DEF ToSet
<1> QED BY <1>1, <1>10, <1>13, <1>14

(***************************************************************************)
(* The stages of a lookup                                                  *)
(***************************************************************************)

\* An attempt touches at its end, with what the lookup found; a lookup guesses
\* as soon as the keys have given nothing.
Stages ==
  /\ place \notin {"over", "flushed", "closed"} => acted = {}
  /\ place = "act" => lookup.at = "found"
  /\ lookup.guess \in BOOLEAN
  /\ place = "lookup" /\ lookup.at \in {"words", "nodes", "visual"} => lookup.guess = TRUE
  /\ place = "lookup" /\ lookup.at \in {"cascade", "filter"} => lookup.guess = FALSE

\* What a lookup has collected is good at every stage.
CandidatesOf(l) ==
  /\ l.at = "found" => \A loc \in l.loc : Good(l.guess, loc)
  /\ l.at = "pick" =>
       /\ l.found \in Seq(ToSet(l.found)) /\ l.found # << >>
       /\ \A c \in ToSet(l.found) : Good(l.guess, c.loc)
  /\ l.at = "filter" =>
       \E by \in DOMAIN l.cfg : /\ CountOfMatches(by, l.cfg[by]) > 1
                                /\ l.found = MatchesOf(by, l.cfg[by])

Candidates ==
  place \in {"lookup", "act"} /\ ~lookup.moved /\ task.action \in FitActions => CandidatesOf(lookup)

\* A page that stands still gives the same answers.
LEMMA SameTargets ==
  ASSUME page' = page
  PROVE  /\ \A loc : Target(loc)' = Target(loc)
         /\ \A by, of : Selected(by, of)' = Selected(by, of)
         /\ \A by, of : CountOfMatches(by, of)' = CountOfMatches(by, of)
BY DEF Target, Selected, PlacesOf, CountOfMatches

LEMMA SameGood ==
  ASSUME page' = page, task' = task
  PROVE  \A guess, loc : Good(guess, loc)' <=> Good(guess, loc)
<1>1. \A loc : Rivals(loc)' = Rivals(loc)
  BY SameTargets DEF Rivals
<1>2. \A e : Takes(e)' <=> Takes(e)
  BY DEF Takes, Reached
<1>3. Strict' <=> Strict
  BY DEF Strict
<1> QED BY <1>1, <1>2, <1>3, SameTargets DEF Good

\* What is good now is good after a step that leaves the page alone.
LEMMA CandidatesKept ==
  ASSUME page' = page, task' = task, CandidatesOf(lookup')
  PROVE  Candidates'
<1>1. \A by, of : MatchesOf(by, of)' = MatchesOf(by, of)
  BY SameTargets DEF MatchesOf, Nth
<1>2. CandidatesOf(lookup)'
  BY <1>1, SameTargets, SameGood DEF CandidatesOf
<1> QED BY <1>2 DEF Candidates

\* What was touched was good when the lookup settled on it, and still is.
TouchedIsGood ==
  ~lookup.moved /\ task.action \in FitActions =>
    \A a \in acted : a.e \in Target(a.loc) /\ Good(lookup.guess, a.loc)

CInv == Stages /\ Candidates /\ TouchedIsGood

\* The matches of the key whose turn it is.
LEMMA MatchesAreOf ==
  ASSUME page \in Pages, Matches # << >>
  PROVE  /\ Key \in DOMAIN lookup.cfg
         /\ Matches = Collect(Key, lookup.cfg[Key])
         /\ Len(Matches) = CountOfMatches(Key, lookup.cfg[Key])
         /\ CountOfMatches(Key, lookup.cfg[Key]) \in Nat \ {0}
         /\ Matches[1] = Nth(Key, lookup.cfg[Key], 1)
         /\ [i \in DOMAIN Matches |-> [loc |-> Matches[i], score |-> 0]] = MatchesOf(Key, lookup.cfg[Key])
<1>1. Key \in DOMAIN lookup.cfg /\ Matches = Collect(Key, lookup.cfg[Key])
  BY DEF Matches
<1> DEFINE by == Key
           of == lookup.cfg[Key]
           n == CountOfMatches(by, of)
<1> HIDE DEF by, of
<1>2. /\ Collect(by, of) \in Seq(ToSet(Collect(by, of))) /\ Len(Collect(by, of)) = n
      /\ \A i \in 1..n : Collect(by, of)[i] = Nth(by, of, i)
  BY CollectLists
<1>3. n \in Nat /\ Collect(by, of) # << >>
  BY <1>1, PlacesAreFinite DEF by, of
<1>4. n \in Nat \ {0} /\ DOMAIN Collect(by, of) = 1..n
  BY <1>2, <1>3
<1>5. [i \in DOMAIN Collect(by, of) |-> [loc |-> Collect(by, of)[i], score |-> 0]] = MatchesOf(by, of)
  <2> HIDE DEF n
  <2>1. [i \in DOMAIN Collect(by, of) |-> [loc |-> Collect(by, of)[i], score |-> 0]]
        = [i \in 1..n |-> [loc |-> Nth(by, of, i), score |-> 0]]
    BY <1>2, <1>4
  <2> QED BY <2>1 DEF MatchesOf, n
<1> QED BY <1>1, <1>2, <1>4, <1>5 DEF by, of

\* A key gives nothing, one match, the first of several, or all of them.
LEMMA KeyStage ==
  ASSUME SInv, CInv, KeyMisses \/ KeyHits \/ KeyIsAmbiguous, place = "lookup", task.action \in FitActions
  PROVE  CandidatesOf(lookup')
<1>1. page \in Pages /\ lookup.guess = FALSE
  BY DEF SInv, Shapes, CInv, Stages, KeyMisses, KeyHits, KeyIsAmbiguous, AtKey
<1> DEFINE by == Key
           of == lookup.cfg[Key]
<1>2. CASE KeyMisses
  <2>1. lookup'.at = "cascade"
    BY <1>2 DEF KeyMisses, AtKey, SInv, Shapes
  <2> QED BY <2>1 DEF CandidatesOf
<1>3. CASE KeyHits
  <2>1. /\ Matches # << >> /\ (Len(Matches) = 1 \/ Strict)
        /\ lookup'.at = "found" /\ lookup'.loc = {Matches[1]} /\ lookup'.guess = FALSE
    BY <1>1, <1>3 DEF KeyHits, Finds, SInv, Shapes
  <2>2. Matches[1] = Nth(by, of, 1) /\ Len(Matches) = CountOfMatches(by, of)
    BY <1>1, <2>1, MatchesAreOf
  <2> HIDE DEF by, of
  <2>3. CASE CountOfMatches(by, of) = 1
    BY <1>1, <2>1, <2>2, <2>3, OneMatchIsGood DEF CandidatesOf
  <2>4. CASE Strict
    BY <2>1, <2>4 DEF CandidatesOf, Good
  <2> QED BY <2>1, <2>2, <2>3, <2>4
<1>4. CASE KeyIsAmbiguous
  <2>1. /\ Len(Matches) > 1 /\ lookup'.at = "filter" /\ lookup'.cfg = lookup.cfg
        /\ lookup'.found = [i \in DOMAIN Matches |-> [loc |-> Matches[i], score |-> 0]]
    BY <1>4 DEF KeyIsAmbiguous, SInv, Shapes
  <2>2. Matches # << >>
    BY <2>1
  <2>3. /\ Key \in DOMAIN lookup'.cfg /\ lookup'.cfg[Key] = lookup.cfg[Key]
        /\ CountOfMatches(Key, lookup.cfg[Key]) > 1
        /\ lookup'.found = MatchesOf(Key, lookup.cfg[Key])
    BY <1>1, <2>1, <2>2, MatchesAreOf
  <2> QED BY <2>1, <2>3 DEF CandidatesOf
<1> QED BY <1>2, <1>3, <1>4

LEMMA FirstIsIn ==
  ASSUME NEW S, NEW s \in Seq(S), s # << >>
  PROVE  s[1] \in S
OBVIOUS

\* Several matches of a key: the first, none, one, or the ones like the description.
LEMMA FilterStage ==
  ASSUME SInv, CInv, FirstOfSeveral \/ SemanticMiss \/ SemanticHit \/ StillAmbiguous, place = "lookup",
         task.action \in FitActions, ~lookup.moved
  PROVE  CandidatesOf(lookup')
<1>1. page \in Pages /\ lookup.guess = FALSE /\ lookup.at = "filter"
  BY DEF SInv, Shapes, CInv, Stages, FirstOfSeveral, SemanticMiss, SemanticHit, StillAmbiguous
<1>2. PICK by \in DOMAIN lookup.cfg : /\ CountOfMatches(by, lookup.cfg[by]) > 1
                                      /\ lookup.found = MatchesOf(by, lookup.cfg[by])
  BY <1>1 DEF CInv, Candidates, CandidatesOf
<1> DEFINE of == lookup.cfg[by]
<1> HIDE DEF of
<1>3. CASE FirstOfSeveral
  <2>1. /\ ~task.described /\ lookup'.at = "found" /\ lookup'.guess = FALSE
        /\ lookup'.loc = {FittingFirst(lookup.found, FALSE)[1].loc}
    BY <1>1, <1>3 DEF FirstOfSeveral, Finds, SInv, Shapes
  <2>2. Good(FALSE, FittingFirst(lookup.found, FALSE)[1].loc)
    BY <1>1, <1>2, <2>1, FirstIsGood DEF of
  <2> QED BY <2>1, <2>2 DEF CandidatesOf
<1>4. CASE SemanticMiss
  <2>1. lookup'.at = "cascade"
    BY <1>4 DEF SemanticMiss, SInv, Shapes
  <2> QED BY <2>1 DEF CandidatesOf
<1>5. CASE SemanticHit \/ StillAmbiguous
  <2>1. task.described
    BY <1>5 DEF SemanticHit, StillAmbiguous
  <2>2. Shortlist \in Seq(ToSet(Shortlist)) /\ \A c \in ToSet(Shortlist) : Good(FALSE, c.loc)
    BY <1>1, <1>2, <2>1, ShortlistIsGood DEF of
  <2>3. CASE SemanticHit
    <3>1. /\ Len(Shortlist) = 1 /\ lookup'.at = "found" /\ lookup'.guess = FALSE
          /\ lookup'.loc = {Shortlist[1].loc}
      BY <1>1, <2>3 DEF SemanticHit, Finds, SInv, Shapes
    <3>2. Shortlist[1] \in ToSet(Shortlist)
      <4>1. Shortlist \in Seq(ToSet(Shortlist)) /\ Shortlist # << >>
        BY <2>2, <3>1
      <4> QED BY <4>1, FirstIsIn
    <3> QED BY <2>2, <3>1, <3>2 DEF CandidatesOf
  <2>4. CASE StillAmbiguous
    <3>1. /\ Len(Shortlist) > 1 /\ lookup'.at = "pick" /\ lookup'.guess = FALSE
          /\ lookup'.found = Shortlist
      BY <1>1, <2>4 DEF StillAmbiguous, SInv, Shapes
    <3>2. Shortlist # << >>
      BY <3>1
    <3> QED BY <2>2, <3>1, <3>2 DEF CandidatesOf
  <2> QED BY <1>5, <2>3, <2>4
<1> QED BY <1>3, <1>4, <1>5

\* What the description alone leads to can take the action.
LEMMA GuessStage ==
  ASSUME SInv, CInv, CascadeFails \/ WordHits \/ WordsFail \/ NodesFail \/ NodeHits \/ NodesAreMany \/ Looks,
         place = "lookup", task.action \in FitActions
  PROVE  CandidatesOf(lookup')
<1>1. page \in Pages /\ DOMAIN lookup = {"at", "cfg", "key", "found", "loc", "confidence", "guess", "moved"}
  BY DEF SInv, Shapes
<1>2. CASE CascadeFails \/ WordsFail \/ NodesFail
  <2>1. lookup'.at \in {"missed", "words", "visual", "nodes"}
    BY <1>1, <1>2 DEF CascadeFails, WordsFail, NodesFail, GoesTo
  <2> QED BY <2>1 DEF CandidatesOf
<1>3. CASE WordHits
  <2>1. /\ Len(WordMatches) = 1 /\ lookup'.at = "found" /\ lookup'.guess = TRUE
        /\ lookup'.loc = {WordMatches[1]}
    BY <1>1, <1>3 DEF WordHits, Finds, CInv, Stages
  <2>2. Fits(WordMatches[1])
    BY <1>1, <2>1, WordsFit
  <2> QED BY <2>1, <2>2, FitsIsGood DEF CandidatesOf
<1>4. CASE NodeHits \/ NodesAreMany
  <2>1. NodeMatches \in Seq(ToSet(NodeMatches)) /\ \A c \in ToSet(NodeMatches) : Good(TRUE, c.loc)
    BY <1>1, NodesFit, FitsIsGood
  <2>2. CASE NodeHits
    <3>1. /\ Len(NodeMatches) = 1 /\ lookup'.at = "found" /\ lookup'.guess = TRUE
          /\ lookup'.loc = {NodeMatches[1].loc}
      BY <1>1, <2>2 DEF NodeHits, Finds, CInv, Stages
    <3>2. NodeMatches[1] \in ToSet(NodeMatches)
      BY <2>1, <3>1
    <3> QED BY <2>1, <3>1, <3>2 DEF CandidatesOf
  <2>3. CASE NodesAreMany
    <3>1. /\ Len(NodeMatches) > 1 /\ lookup'.at = "pick" /\ lookup'.guess = TRUE
          /\ lookup'.found = NodeMatches
      BY <1>1, <2>3 DEF NodesAreMany, CInv, Stages
    <3>2. NodeMatches # << >>
      BY <3>1
    <3> QED BY <2>1, <3>1, <3>2 DEF CandidatesOf
  <2> QED BY <1>4, <2>2, <2>3
<1>5. CASE Looks
  <2>1. CASE Misses
    <3>1. lookup'.at = "missed"
      BY <1>1, <2>1 DEF Misses
    <3> QED BY <3>1 DEF CandidatesOf
  <2>2. CASE \E loc, confidence : Fits(loc) /\ Finds(loc, confidence)
    <3>1. PICK loc, confidence : Fits(loc) /\ Finds(loc, confidence)
      BY <2>2
    <3>2. lookup'.at = "found" /\ lookup'.guess = TRUE /\ lookup'.loc = {loc}
      BY <1>1, <1>5, <3>1 DEF Looks, Finds, CInv, Stages
    <3> QED BY <3>1, <3>2, FitsIsGood DEF CandidatesOf
  <2> QED BY <1>5, <2>1, <2>2 DEF Looks
<1> QED BY <1>2, <1>3, <1>4, <1>5

\* The AI's answer names a candidate there is.
LEMMA AnswersAreChoices ==
  ASSUME NEW n, NEW answer \in PickAnswers(n), NEW a \in answer
  PROVE  a.choice \in 1..n
<1>1. answer # {}
  OBVIOUS
<1>2. \E choice, c : answer = ParsePick(choice, c, n)
  BY <1>1 DEF PickAnswers
<1> QED BY <1>2 DEF ParsePick

\* The choice among good candidates is good, whatever the answer.
LEMMA PickStage ==
  ASSUME SInv, CInv, Picks, place = "lookup", task.action \in FitActions, ~lookup.moved
  PROVE  CandidatesOf(lookup')
<1>1. DOMAIN lookup = {"at", "cfg", "key", "found", "loc", "confidence", "guess", "moved"} /\ lookup.at = "pick"
  BY DEF SInv, Shapes, Picks
<1>2. /\ lookup.found \in Seq(ToSet(lookup.found)) /\ lookup.found # << >>
      /\ \A c \in ToSet(lookup.found) : Good(lookup.guess, c.loc)
  BY <1>1 DEF CInv, Candidates, CandidatesOf
<1>3. ASSUME NEW i \in 1..Len(lookup.found), NEW confidence, Finds(lookup.found[i].loc, confidence)
      PROVE  CandidatesOf(lookup')
  <2>1. lookup.found[i] \in ToSet(lookup.found)
    BY <1>2
  <2>2. lookup'.at = "found" /\ lookup'.guess = lookup.guess /\ lookup'.loc = {lookup.found[i].loc}
    BY <1>1, <1>3 DEF Finds
  <2> QED BY <1>2, <2>1, <2>2 DEF CandidatesOf
<1>4. PICK answer \in PickAnswers(Len(lookup.found)) :
        \/ answer = {} /\ Finds(lookup.found[1].loc, lookup.found[1].score)
        \/ \E a \in answer :
             \/ a.confidence >= AI_PICK_THRESHOLD /\ Finds(lookup.found[a.choice].loc, a.confidence)
             \/ /\ a.confidence < AI_PICK_THRESHOLD
                /\ IF lookup.guess THEN Misses
                   ELSE lookup' = [lookup EXCEPT !.at = "cascade", !.key = @ + 1, !.found = << >>]
  BY DEF Picks
<1>5. CASE Finds(lookup.found[1].loc, lookup.found[1].score)
  <2>1. 1 \in 1..Len(lookup.found)
    BY <1>2
  <2> QED BY <1>3, <1>5, <2>1
<1>6. CASE \E a \in answer : Finds(lookup.found[a.choice].loc, a.confidence)
  BY <1>3, <1>6, AnswersAreChoices
<1>7. CASE Misses \/ lookup' = [lookup EXCEPT !.at = "cascade", !.key = @ + 1, !.found = << >>]
  <2>1. lookup'.at \in {"missed", "cascade"}
    BY <1>1, <1>7 DEF Misses
  <2> QED BY <2>1 DEF CandidatesOf
<1> QED BY <1>4, <1>5, <1>6, <1>7

\* A stage says whether it guesses.
LEMMA StageFields ==
  ASSUME SInv, Stages, Resolves, place = "lookup"
  PROVE  /\ lookup'.moved = lookup.moved /\ lookup'.guess \in BOOLEAN
         /\ lookup'.at \in {"words", "nodes", "visual"} => lookup'.guess = TRUE
         /\ lookup'.at \in {"cascade", "filter"} => lookup'.guess = FALSE
<1>1. DOMAIN lookup = {"at", "cfg", "key", "found", "loc", "confidence", "guess", "moved"} /\ lookup.guess \in BOOLEAN
  BY DEF SInv, Shapes, Stages
<1>2. CASE KeyMisses \/ KeyIsAmbiguous \/ SemanticMiss
  BY <1>1, <1>2 DEF KeyMisses, KeyIsAmbiguous, SemanticMiss, AtKey, Stages
<1>3. CASE \E loc, confidence : Finds(loc, confidence)
  BY <1>1, <1>3 DEF Finds
<1>4. CASE Misses
  BY <1>1, <1>4 DEF Misses
<1>5. CASE StillAmbiguous \/ NodesAreMany
  <2>1. \E seq : lookup' = [lookup EXCEPT !.at = "pick", !.found = seq]
    BY <1>5 DEF StillAmbiguous, NodesAreMany
  <2>2. lookup'.moved = lookup.moved /\ lookup'.guess = lookup.guess /\ lookup'.at = "pick"
    BY <1>1, <2>1
  <2> QED BY <1>1, <2>2
<1>8. CASE CascadeFails
  <2>1. /\ lookup'.moved = lookup.moved /\ lookup'.guess = TRUE
        /\ lookup'.at \in {"missed", "words", "visual"}
    BY <1>1, <1>8 DEF CascadeFails
  <2> QED BY <2>1
<1>6. CASE WordsFail \/ NodesFail
  BY <1>1, <1>6 DEF WordsFail, NodesFail, GoesTo, Stages
<1>7. CASE ~lookup.guess /\ lookup' = [lookup EXCEPT !.at = "cascade", !.key = @ + 1, !.found = << >>]
  <2>1. lookup.guess = FALSE
    BY <1>1, <1>7
  <2> QED BY <1>1, <1>7, <2>1
<1> QED
  BY <1>2, <1>3, <1>4, <1>5, <1>6, <1>7, <1>8
     DEF Resolves, KeyHits, FirstOfSeveral, SemanticHit, WordHits, NodeHits, Looks, Picks

(***************************************************************************)
(* What the resolver settles on                                            *)
(***************************************************************************)

LEMMA InitCInv == Init => CInv
<1> SUFFICES ASSUME Init PROVE CInv
  OBVIOUS
<1>1. place = "start" /\ acted = {} /\ lookup = NoLookup
  BY DEF Init
<1> QED BY <1>1 DEF CInv, Stages, Candidates, TouchedIsGood, NoLookup

LEMMA TouchedKept ==
  ASSUME SInv, CInv, UNCHANGED <<page, task>>, lookup'.guess = lookup.guess, lookup'.moved = lookup.moved,
         acted' = acted \/ acted' = {}
  PROVE  TouchedIsGood'
BY SameGood, SameTargets DEF CInv, TouchedIsGood

\* A step that neither begins a lookup nor goes on with one, nor interacts.
LEMMA CQuietStep ==
  ASSUME SInv, CInv, UNCHANGED <<page, task, lookup, acted>>,
         place' = place \/ place' \notin {"lookup", "act"},
         place' \in {"over", "flushed", "closed"} \/ acted = {}
  PROVE  CInv'
<1>1. Stages'
  BY DEF CInv, Stages
<1>2. Candidates'
  <2>1. CASE place' \notin {"lookup", "act"} \/ lookup.moved \/ task.action \notin FitActions
    BY <2>1 DEF Candidates
  <2>2. CASE place' \in {"lookup", "act"} /\ ~lookup.moved /\ task.action \in FitActions
    <3>1. CandidatesOf(lookup')
      BY <2>2 DEF CInv, Candidates
    <3> QED BY <3>1, CandidatesKept
  <2> QED BY <2>1, <2>2
<1>3. TouchedIsGood'
  BY TouchedKept
<1> QED BY <1>1, <1>2, <1>3 DEF CInv

LEMMA CMoves == ASSUME SInv, CInv, PageMoves PROVE CInv'
<1>1. lookup' = [lookup EXCEPT !.moved = TRUE] /\ UNCHANGED <<place, acted>>
  BY DEF PageMoves, stepVars
<1>2. lookup'.moved = TRUE /\ lookup'.at = lookup.at /\ lookup'.guess = lookup.guess
  BY <1>1 DEF SInv, Shapes
<1> QED BY <1>1, <1>2 DEF CInv, Stages, Candidates, TouchedIsGood

LEMMA CFails ==
  ASSUME SInv, CInv, ValueMissing \/ ActsWithoutElement \/ NotFound \/ TouchesNothing
  PROVE  CInv'
<1>1. /\ UNCHANGED <<page, task, lookup, acted>> /\ place \in {"start", "lookup", "act"}
      /\ \E ok \in BOOLEAN : place' = NextPlace(ok)
  <2>1. CASE ValueMissing
    BY <2>1 DEF ValueMissing, AttemptOnly, Ends
  <2>2. CASE ActsWithoutElement
    BY <2>2 DEF ActsWithoutElement, AttemptOnly, Ends
  <2>3. CASE NotFound
    BY <2>3 DEF NotFound, AttemptOnly, Ends
  <2>4. CASE TouchesNothing
    BY <2>4, GoneOrNot DEF TouchesNothing, AttemptOnly, Ends
  <2> QED BY <2>1, <2>2, <2>3, <2>4
<1>2. place' \notin {"lookup", "act"}
  BY <1>1, NextPlaceIsQuiet DEF SInv
<1>3. acted = {}
  BY <1>1 DEF CInv, Stages
<1> QED BY <1>1, <1>2, <1>3, CQuietStep

LEMMA CLooks == ASSUME SInv, CInv, LooksForElement PROVE CInv'
<1>1. /\ place = "start" /\ place' = "lookup" /\ UNCHANGED <<page, task, acted>> /\ Begin(attempt.cfg)
  BY DEF LooksForElement, Goes, AttemptOnly
<1> DEFINE at == IF DOMAIN attempt.cfg # {} THEN "cascade"
                 ELSE IF ~Strict /\ task.described THEN "words" ELSE "missed"
<1>2. lookup' = [NoLookup EXCEPT !.at = at, !.cfg = attempt.cfg, !.guess = at = "words"]
  BY <1>1 DEF Begin
<1>3. at \in {"cascade", "words", "missed"}
  OBVIOUS
<1> HIDE DEF at
<1>4. lookup'.at = at /\ lookup'.guess = (at = "words") /\ acted' = {}
  BY <1>1, <1>2 DEF NoLookup, CInv, Stages
<1>5. Stages'
  BY <1>1, <1>3, <1>4 DEF Stages
<1>6. Candidates' /\ TouchedIsGood'
  BY <1>1, <1>3, <1>4 DEF Candidates, CandidatesOf, TouchedIsGood
<1> QED BY <1>5, <1>6 DEF CInv

\* A stage of a lookup leaves what it has collected good.
LEMMA CLookup == ASSUME SInv, CInv, LookupGoesOn PROVE CInv'
<1>1. place = "lookup" /\ place' = "lookup" /\ Resolves /\ acted = {} /\ acted' = {}
  BY DEF LookupGoesOn, stepVars, CInv, Stages
<1>2. UNCHANGED <<page, task>>
  BY <1>1, StageShapes
<1>3. /\ lookup'.moved = lookup.moved /\ lookup'.guess \in BOOLEAN
      /\ lookup'.at \in {"words", "nodes", "visual"} => lookup'.guess = TRUE
      /\ lookup'.at \in {"cascade", "filter"} => lookup'.guess = FALSE
  BY <1>1, StageFields DEF CInv
<1>4. Stages' /\ TouchedIsGood'
  BY <1>1, <1>3 DEF Stages, TouchedIsGood
<1>5. Candidates'
  <2>1. CASE lookup.moved \/ task.action \notin FitActions
    BY <1>2, <1>3, <2>1 DEF Candidates
  <2>2. CASE ~lookup.moved /\ task.action \in FitActions
    <3>1. CandidatesOf(lookup')
      BY <1>1, <2>2, KeyStage, FilterStage, GuessStage, PickStage DEF Resolves
    <3> QED BY <1>2, <3>1, CandidatesKept
  <2> QED BY <2>1, <2>2
<1> QED BY <1>4, <1>5 DEF CInv

LEMMA CFound == ASSUME SInv, CInv, Found PROVE CInv'
<1>1. /\ place = "lookup" /\ lookup.at = "found" /\ place' = "act"
      /\ UNCHANGED <<page, task, lookup, acted>>
  BY DEF Found, Goes, AttemptOnly
<1>2. Stages'
  BY <1>1 DEF CInv, Stages
<1>3. Candidates'
  <2>1. CASE lookup.moved \/ task.action \notin FitActions
    BY <1>1, <2>1 DEF Candidates
  <2>2. CASE ~lookup.moved /\ task.action \in FitActions
    <3>1. CandidatesOf(lookup')
      BY <1>1, <2>2 DEF CInv, Candidates
    <3> QED BY <1>1, <3>1, CandidatesKept
  <2> QED BY <2>1, <2>2
<1>4. TouchedIsGood'
  BY <1>1, TouchedKept
<1> QED BY <1>2, <1>3, <1>4 DEF CInv

\* The interaction is with what the lookup settled on.
LEMMA CActs == ASSUME SInv, CInv, Acts PROVE CInv'
<1>1. /\ place = "act" /\ place' = NextPlace(TRUE) /\ UNCHANGED <<page, task, lookup>>
      /\ \E loc \in lookup.loc : \E e \in Target(loc) : acted' = {[e |-> e, loc |-> loc]}
  BY DEF Acts, Ends, AttemptOnly
<1>2. place' = "over"
  BY <1>1 DEF NextPlace
<1>3. Stages' /\ Candidates'
  BY <1>1, <1>2 DEF CInv, Stages, Candidates
<1>4. TouchedIsGood'
  <2> SUFFICES ASSUME ~lookup.moved, task.action \in FitActions, NEW a \in acted'
               PROVE  a.e \in Target(a.loc) /\ Good(lookup.guess, a.loc)
    BY <1>1, SameGood, SameTargets DEF TouchedIsGood
  <2>1. PICK loc \in lookup.loc : \E e \in Target(loc) : acted' = {[e |-> e, loc |-> loc]}
    BY <1>1
  <2>2. a.loc = loc /\ a.e \in Target(loc)
    BY <2>1
  <2>3. Good(lookup.guess, loc)
    BY <1>1 DEF CInv, Stages, Candidates, CandidatesOf
  <2> QED BY <2>2, <2>3
<1> QED BY <1>3, <1>4 DEF CInv

\* A new attempt has nothing in hand.
LEMMA CAttempt ==
  ASSUME SInv, CInv, NEW phase, NEW cfg, Attempts(phase, cfg)
  PROVE  CInv'
<1>1. acted' = {} /\ lookup' = NoLookup /\ place' = "start"
  BY DEF Attempts, Goes
<1> QED BY <1>1 DEF CInv, Stages, Candidates, TouchedIsGood, NoLookup

LEMMA CHeals == ASSUME SInv, CInv, Heals PROVE CInv'
<1>1. /\ UNCHANGED <<page, task>> /\ place \in {"bridge", "capture", "pin", "heal"}
      /\ \/ \E phase, cfg : Attempts(phase, cfg)
         \/ UNCHANGED <<lookup, acted>> /\ place' \in {"over", "bridge", "capture", "pin", "heal"}
  <2>1. CASE BridgeInjects
    BY <2>1 DEF BridgeInjects, HealOnly
  <2>2. CASE BridgePasses
    BY <2>2 DEF BridgePasses, HealOnly, Goes
  <2>3. CASE Captures
    BY <2>3 DEF Captures, HealOnly, Goes
  <2>4. CASE Pins
    BY <2>4 DEF Pins, HealOnly, Goes
  <2>5. CASE HealsDirectly
    BY <2>5 DEF HealsDirectly, HealOnly
  <2>6. CASE AsksAI
    BY <2>6 DEF AsksAI, HealOnly, Goes
  <2> QED BY <2>1, <2>2, <2>3, <2>4, <2>5, <2>6 DEF Heals
<1>2. CASE \E phase, cfg : Attempts(phase, cfg)
  BY <1>2, CAttempt
<1>3. CASE UNCHANGED <<lookup, acted>> /\ place' \in {"over", "bridge", "capture", "pin", "heal"}
  <2>1. acted = {}
    BY <1>1 DEF CInv, Stages
  <2> QED BY <1>1, <1>3, <2>1, CQuietStep
<1> QED BY <1>1, <1>2, <1>3

LEMMA CEnds == ASSUME SInv, CInv, RunEnds \/ Closes \/ Over \/ ShadowGoesOn \/ UNCHANGED vars PROVE CInv'
<1>1. CASE RunEnds \/ Closes
  <2>1. UNCHANGED <<page, task, lookup, acted>> /\ place' \in {"flushed", "closed"}
    BY <1>1 DEF RunEnds, Closes, Goes
  <2> QED BY <2>1, CQuietStep
<1>2. CASE Over \/ ShadowGoesOn \/ UNCHANGED vars
  <2>1. UNCHANGED <<page, task, lookup, acted, place>>
    BY <1>2 DEF Over, vars, ShadowGoesOn, ShadowWorks, stepVars
  <2>2. place' \in {"over", "flushed", "closed"} \/ acted = {}
    BY <2>1 DEF CInv, Stages
  <2> QED BY <2>1, <2>2, CQuietStep
<1> QED BY <1>1, <1>2

LEMMA CInvInductive == Spec => []CInv
<1>1. SInv /\ CInv /\ [Next]_vars => CInv'
  BY CFails, CLooks, CLookup, CFound, CActs, CHeals, CEnds, CMoves DEF Next, StepAttempts
<1> QED BY <1>1, InitCInv, SInvInductive, PTL DEF Spec

\* While the page stands still, an element found by the description alone can
\* take the action, and of several matches of a key that are equally like it one
\* that cannot take the action is chosen only if none can (element_resolver.py).
THEOREM ChosenFit == Spec => []ChosenTakeTheAction
<1>1. CInv => ChosenTakeTheAction
  <2> SUFFICES ASSUME CInv, ~lookup.moved, task.action \in FitActions, NEW a \in acted
               PROVE  /\ lookup.guess => Takes(a.e)
                      /\ ~lookup.guess /\ ~Strict /\ a.e \in Rivals(a.loc) /\ ~Takes(a.e) =>
                           \A e \in Rivals(a.loc) : ~Takes(e)
    BY DEF ChosenTakeTheAction, GuessesTakeTheAction, TiesGoToTheFitting
  <2>1. a.e \in Target(a.loc) /\ Good(lookup.guess, a.loc)
    BY DEF CInv, TouchedIsGood
  <2> QED BY <2>1 DEF Good
<1> QED BY <1>1, CInvInductive, PTL

(***************************************************************************)
(* The capture                                                             *)
(***************************************************************************)

\* The candidates of a capture: elements of the page with a similarity.
Rated == [e : OnPage, score : Int]

\* Ranking, reranking and cutting leave the candidates of a capture what they are.
LEMMA RankedRated ==
  ASSUME NEW seq \in Seq(Rated)
  PROVE  Ranked(seq) \in Seq(Rated)
<1> DEFINE n == Len(seq)
<1>1. n \in Nat /\ DOMAIN seq = 1..n /\ \A i \in 1..n : seq[i] \in Rated
  OBVIOUS
<1>2. \A i \in 1..n : seq[i].score \in Int
  BY <1>1 DEF Rated
<1>3. ToSet(seq) \subseteq Rated
  BY <1>1 DEF ToSet
<1> HIDE DEF n
<1>4. Ranked(seq) \in Seq(ToSet(seq))
  BY <1>1, <1>2, RankedLists
<1> QED BY <1>3, <1>4

LEMMA RerankedRated ==
  ASSUME page \in Pages, NEW seq \in Seq(Rated)
  PROVE  Reranked(seq) \in Seq(Rated)
<1> DEFINE anew == [i \in DOMAIN seq |-> [seq[i] EXCEPT !.score = seq[i].e.cross]]
           n == Len(seq)
<1>1. n \in Nat /\ DOMAIN seq = 1..n /\ \A i \in 1..n : seq[i] \in Rated
  OBVIOUS
<1>2. \A i \in 1..n : anew[i] \in Rated
  <2> SUFFICES ASSUME NEW i \in 1..n PROVE anew[i] \in Rated
    OBVIOUS
  <2>1. anew[i] = [e |-> seq[i].e, score |-> seq[i].e.cross] /\ seq[i].e \in OnPage
    BY <1>1 DEF Rated
  <2>2. seq[i].e.cross \in Int
    <3>1. page \in Seq(Element)
      BY PageTyped
    <3>2. seq[i].e \in Element
      BY <2>1, <3>1 DEF OnPage
    <3>3. seq[i].e.cross \in 0..100
      BY <3>2 DEF Element
    <3>4. \A x \in 0..100 : x \in Int
      OBVIOUS
    <3> QED BY <3>3, <3>4
  <2> QED BY <2>1, <2>2 DEF Rated
<1>3. anew \in Seq(Rated)
  <2>1. anew \in [1..n -> Rated]
    BY <1>1, <1>2
  <2> QED BY <1>1, <2>1
<1> HIDE DEF anew
<1>4. Ranked(anew) \in Seq(Rated)
  BY <1>3, RankedRated
<1> QED BY <1>4 DEF Reranked, anew

LEMMA BestRated ==
  ASSUME NEW seq \in Seq(Rated)
  PROVE  Best(seq) \in Seq(Rated)
<1> DEFINE most == IF Len(seq) < TOP_N THEN Len(seq) ELSE TOP_N
<1>1. most \in Nat /\ most <= Len(seq)
  BY DEF TOP_N
<1> HIDE DEF most
<1>2. SubSeq(seq, 1, most) \in Seq(Rated)
  BY <1>1
<1> QED BY <1>2 DEF Best, most

\* A capture that chooses, chooses an element of the page; one that does not
\* leaves nothing chosen.
LEMMA CapturedOnPage ==
  ASSUME page \in Pages, NEW skip_direct
  PROVE  /\ Captured(skip_direct).strategy = "embed_direct" =>
              \E e \in OnPage : Captured(skip_direct).chosen = {e}
         /\ Captured(skip_direct).strategy # "embed_direct" => Captured(skip_direct).chosen = {}
<1> DEFINE places == {i \in DOMAIN page : page[i].control}
           controls == AtPlaces(page, places)
           ranked == Ranked(Scored(controls))
           reranked == Reranked(Best(ranked))
           rest == SubSeq(ranked, Len(reranked) + 1, Len(ranked))
           merged == reranked \o rest
           high == IF merged # << >> /\ merged[1].score >= HIGH_THRESHOLD
                   THEN AtLeast(merged, HIGH_THRESHOLD) ELSE << >>
           winner == IF Len(high) = 1 THEN {high[1].e}
                     ELSE IF high = << >> THEN ClearWinner(ranked, reranked) ELSE {}
<1>1. places \in SUBSET (1..Len(page)) /\ Len(page) \in Nat /\ places \subseteq DOMAIN page
  BY PageTyped
<1> HIDE DEF places
<1>2. places \subseteq Nat /\ IsFiniteSet(places)
  BY <1>1, PlacesOfSequence
<1>3. controls \in Seq(ToSet(page)) /\ \A k \in 1..Len(controls) : \E i \in places : controls[k] = page[i]
  BY <1>1, <1>2, AtPlacesLists
<1> HIDE DEF controls
<1>4. Scored(controls) \in Seq(Rated)
  <2> DEFINE n == Len(controls)
  <2>1. n \in Nat /\ DOMAIN controls = 1..n
    BY <1>3
  <2>2. \A k \in 1..n : controls[k] \in OnPage /\ controls[k].score \in Int
    BY <1>1, <1>3, PageTyped DEF OnPage
  <2>3. \A k \in 1..n : [e |-> controls[k], score |-> controls[k].score] \in Rated
    BY <2>2 DEF Rated
  <2>4. Scored(controls) \in [1..n -> Rated]
    BY <2>1, <2>3 DEF Scored
  <2> HIDE DEF n
  <2> QED BY <2>1, <2>4
<1>5. ranked \in Seq(Rated)
  BY <1>4, RankedRated
<1> HIDE DEF ranked
<1>6. reranked \in Seq(Rated)
  <2>1. Best(ranked) \in Seq(Rated)
    BY <1>5, BestRated
  <2> QED BY <2>1, RerankedRated
<1> HIDE DEF reranked
<1>7. rest \in Seq(Rated)
  <2>1. Len(reranked) \in Nat
    BY <1>6
  <2> QED BY <1>5, <2>1
<1> HIDE DEF rest
<1>8. merged \in Seq(Rated)
  BY <1>6, <1>7, BothInOne
<1> HIDE DEF merged
<1>9. high \in Seq(Rated)
  <2> DEFINE n == Len(merged)
  <2>1. n \in Nat /\ DOMAIN merged = 1..n /\ ToSet(merged) \subseteq Rated
    BY <1>8 DEF ToSet
  <2> HIDE DEF n
  <2>2. AtLeast(merged, HIGH_THRESHOLD) \in Seq(ToSet(merged)) /\ << >> \in Seq(ToSet(merged))
    BY <2>1, AtLeastLists
  <2>3. high \in Seq(ToSet(merged))
    BY <2>2
  <2> HIDE DEF high
  <2> QED BY <2>1, <2>3
<1> HIDE DEF high
<1>10. ranked # << >> /\ winner # {} => \E e \in OnPage : winner = {e}
  <2>1. CASE Len(high) = 1
    <3>1. high[1] \in Rated
      BY <1>9, <2>1
    <3> QED BY <2>1, <3>1 DEF Rated
  <2>2. CASE Len(high) # 1 /\ ranked # << >> /\ winner # {}
    <3>1. winner \subseteq {ranked[1].e}
      BY <2>2 DEF ClearWinner
    <3>2. ranked[1] \in Rated
      BY <1>5, <2>2
    <3>3. ranked[1].e \in OnPage
      BY <3>2 DEF Rated
    <3> HIDE DEF winner
    <3> QED BY <2>2, <3>1, <3>3
  <2> QED BY <2>1, <2>2
<1> HIDE DEF winner
<1>11. \/ Captured(skip_direct) = [strategy |-> "embed_direct", chosen |-> winner] /\ ranked # << >> /\ winner # {}
       \/ \E strategy \in {"aria", "embed_candidates", "scoped"} :
            Captured(skip_direct) = [strategy |-> strategy, chosen |-> {}]
  BY DEF Captured, winner, high, merged, rest, reranked, ranked, controls, places
<1>12. CASE Captured(skip_direct) = [strategy |-> "embed_direct", chosen |-> winner] /\ ranked # << >> /\ winner # {}
  BY <1>10, <1>12
<1>13. CASE \E strategy \in {"aria", "embed_candidates", "scoped"} :
              Captured(skip_direct) = [strategy |-> strategy, chosen |-> {}]
  BY <1>13
<1> QED BY <1>11, <1>12, <1>13

(***************************************************************************)
(* The direct heal                                                         *)
(***************************************************************************)

\* The selector of an element pins it.
LEMMA CssIsUnique ==
  ASSUME page \in Pages, NEW e \in OnPage
  PROVE  CountOfMatches("css", e.name) = 1 /\ Selected("css", e.name) = {e}
<1>1. PICK i \in DOMAIN page : e = page[i]
  BY DEF OnPage
<1>2. /\ \A j \in DOMAIN page : page[i].name = page[j].name => i = j
      /\ e.name # "asked"
  BY <1>1, PageTyped
<1>3. PlacesOf("css", e.name) = {i}
  BY <1>1, <1>2 DEF PlacesOf, Selects
<1>4. Cardinality({i}) = 1
  BY FS_Singleton
<1> QED BY <1>1, <1>3, <1>4 DEF CountOfMatches, Selected

\* A pinned cfg selects its element with each of its keys, and nothing else.
LEMMA PinnedSelects ==
  ASSUME page \in Pages, NEW e \in OnPage
  PROVE  /\ DOMAIN PinnedCfg(e) \subseteq {"css", "role"} /\ "css" \in DOMAIN PinnedCfg(e)
         /\ \A k \in DOMAIN PinnedCfg(e) :
              /\ CountOfMatches(k, PinnedCfg(e)[k]) = 1
              /\ Selected(k, PinnedCfg(e)[k]) = {e}
<1>1. CASE e.raw # "" /\ CountOfMatches("role", e.raw) = 1 /\ Selected("role", e.raw) = {e}
  <2>1. PinnedCfg(e) = [k \in {"css", "role"} |-> IF k = "css" THEN e.name ELSE e.raw]
    BY <1>1 DEF PinnedCfg, CfgOf
  <2>2. DOMAIN PinnedCfg(e) = {"css", "role"} /\ PinnedCfg(e)["css"] = e.name /\ PinnedCfg(e)["role"] = e.raw
    BY <2>1
  <2> QED BY <1>1, <2>2, CssIsUnique
<1>2. CASE ~(e.raw # "" /\ CountOfMatches("role", e.raw) = 1 /\ Selected("role", e.raw) = {e})
  <2>1. PinnedCfg(e) = [k \in {"css"} |-> e.name]
    BY <1>2 DEF PinnedCfg, CssOf
  <2>2. DOMAIN PinnedCfg(e) = {"css"} /\ PinnedCfg(e)["css"] = e.name
    BY <2>1
  <2> QED BY <2>2, CssIsUnique
<1> QED BY <1>1, <1>2

\* The lookup of a direct heal's replacement: before its keys, or with a locator
\* of the chosen element.
DirectLookup(l, e) ==
  /\ l.cfg = PinnedCfg(e) /\ l.at \in {"cascade", "found"}
  /\ l.at = "cascade" => l.key \in 1..6 /\ ("role" \in DOMAIN PinnedCfg(e) => l.key = 1)
  /\ \A loc \in l.loc : Target(loc) \subseteq {e}

\* From the capture to the interaction a direct heal has one element in hand.
DirectHeal(e) ==
  /\ heal.chosen = {e}
  /\ place = "heal" => heal.pinned = PinnedCfg(e)
  /\ attempt.phase = "replacement" /\ place \in {"start", "lookup", "act"} =>
       /\ attempt.cfg = PinnedCfg(e)
       /\ place # "start" => DirectLookup(lookup, e)

DirectPlaces ==
  place \in {"pin", "heal"} \/ (attempt.phase = "replacement" /\ place \in {"start", "lookup", "act"})

Pinning == ~heal.moved /\ heal.chosen # {} /\ DirectPlaces => \E e \in OnPage : DirectHeal(e)

HealShape ==
  DOMAIN heal = {"counted", "free_used", "tried", "strategy", "chosen", "pinned", "moved"}

HInv == HealShape /\ Pinning /\ DirectHealsHitTheChosen

\* A page that stands still pins an element the same way.
LEMMA SamePinned ==
  ASSUME page' = page
  PROVE  OnPage' = OnPage /\ \A e : PinnedCfg(e)' = PinnedCfg(e)
BY SameTargets DEF OnPage, PinnedCfg, CfgOf, CssOf

LEMMA InitHInv == Init => HInv
<1> SUFFICES ASSUME Init PROVE HInv
  OBVIOUS
<1>1. heal = NoHeal /\ acted = {}
  BY DEF Init
<1> QED BY <1>1 DEF HInv, HealShape, Pinning, DirectHealsHitTheChosen, NoHeal

\* A step that leaves the lookup of a direct heal, or is not of one.
LEMMA HQuietStep ==
  ASSUME SInv, HInv, UNCHANGED <<page, heal, attempt, lookup, acted>>,
         place' = place \/ place' \notin {"start", "lookup", "act", "pin", "heal"}
  PROVE  HInv'
<1>1. HealShape' /\ DirectHealsHitTheChosen'
  BY DEF HInv, HealShape, DirectHealsHitTheChosen
<1>2. Pinning'
  <2> SUFFICES ASSUME ~heal.moved, heal.chosen # {}, DirectPlaces'
               PROVE  \E e \in OnPage : DirectHeal(e)'
    BY SamePinned DEF Pinning
  <2>1. place' = place /\ DirectPlaces
    BY DEF DirectPlaces
  <2>2. PICK e \in OnPage : DirectHeal(e)
    BY <2>1 DEF HInv, Pinning
  <2>3. DirectHeal(e)'
    BY <2>1, <2>2, SamePinned, SameTargets DEF DirectHeal, DirectLookup
  <2> QED BY <2>3
<1> QED BY <1>1, <1>2 DEF HInv

LEMMA HMoves == ASSUME SInv, HInv, PageMoves PROVE HInv'
<1>1. heal' = [heal EXCEPT !.moved = TRUE]
  BY DEF PageMoves
<1>2. heal'.moved = TRUE /\ DOMAIN heal' = DOMAIN heal
  BY <1>1 DEF HInv, HealShape
<1> QED BY <1>2 DEF HInv, HealShape, Pinning, DirectHealsHitTheChosen

LEMMA HFails ==
  ASSUME SInv, HInv, ValueMissing \/ ActsWithoutElement \/ NotFound \/ TouchesNothing
  PROVE  HInv'
<1>1. /\ UNCHANGED <<page, heal, lookup, acted, attempt>>
      /\ \E ok \in BOOLEAN : place' = NextPlace(ok)
  <2>1. CASE ValueMissing
    BY <2>1 DEF ValueMissing, AttemptOnly, Ends
  <2>2. CASE ActsWithoutElement
    BY <2>2 DEF ActsWithoutElement, AttemptOnly, Ends
  <2>3. CASE NotFound
    BY <2>3 DEF NotFound, AttemptOnly, Ends
  <2>4. CASE TouchesNothing
    BY <2>4, GoneOrNot DEF TouchesNothing, AttemptOnly, Ends
  <2> QED BY <2>1, <2>2, <2>3, <2>4
<1>2. place' \in {"over", "bridge", "capture"}
  BY <1>1 DEF NextPlace, HealGoesOn, SInv, OwnCfg
<1> QED BY <1>1, <1>2, HQuietStep

\* A step with the lookup of a direct heal in hand.
LEMMA HAttemptStep ==
  ASSUME SInv, HInv, UNCHANGED <<page, heal, attempt>>, acted' = {},
         \A e \in OnPage : DirectPlaces /\ DirectHeal(e) /\ DirectPlaces' => DirectHeal(e)',
         DirectPlaces' => DirectPlaces
  PROVE  HInv'
<1>1. HealShape' /\ DirectHealsHitTheChosen'
  BY DEF HInv, HealShape, DirectHealsHitTheChosen
<1>2. Pinning'
  BY SamePinned DEF HInv, Pinning
<1> QED BY <1>1, <1>2 DEF HInv

LEMMA HLooks == ASSUME SInv, CInv, HInv, LooksForElement PROVE HInv'
<1>1. /\ place = "start" /\ place' = "lookup" /\ UNCHANGED <<page, heal, attempt, acted>> /\ Begin(attempt.cfg)
  BY DEF LooksForElement, Goes, AttemptOnly
<1>2. acted' = {}
  BY <1>1 DEF CInv, Stages
<1>3. ASSUME NEW e \in OnPage, DirectPlaces, DirectHeal(e), DirectPlaces'
      PROVE  DirectHeal(e)'
  <2>1. attempt.phase = "replacement" /\ attempt.cfg = PinnedCfg(e) /\ "css" \in DOMAIN attempt.cfg
    BY <1>1, <1>3, PinnedSelects DEF DirectPlaces, DirectHeal, SInv, Shapes
  <2>2. lookup' = [NoLookup EXCEPT !.at = "cascade", !.cfg = attempt.cfg, !.guess = FALSE]
    <3>1. DOMAIN attempt.cfg # {}
      BY <2>1
    <3> QED BY <1>1, <3>1 DEF Begin
  <2>3. lookup'.at = "cascade" /\ lookup'.cfg = attempt.cfg /\ lookup'.key = 1 /\ lookup'.loc = {}
    BY <2>2 DEF NoLookup
  <2> QED BY <1>1, <1>3, <2>1, <2>3, SamePinned DEF DirectHeal, DirectLookup
<1>4. DirectPlaces' => DirectPlaces
  BY <1>1 DEF DirectPlaces
<1> QED BY <1>1, <1>2, <1>3, <1>4, HAttemptStep

\* A key of a pinned cfg has one match, which stands for the chosen element.
LEMMA DirectStage ==
  ASSUME SInv, Resolves, NEW e \in OnPage, DirectLookup(lookup, e)
  PROVE  DirectLookup(lookup', e)
<1>1. page \in Pages /\ DOMAIN lookup = {"at", "cfg", "key", "found", "loc", "confidence", "guess", "moved"}
  BY DEF SInv, Shapes
<1>2. lookup.cfg = PinnedCfg(e)
  BY DEF DirectLookup
<1>3. lookup.at = "cascade" /\ lookup.key \in 1..6 /\ ("role" \in DOMAIN PinnedCfg(e) => lookup.key = 1)
  BY DEF DirectLookup, Resolves, KeyMisses, KeyHits, KeyIsAmbiguous, AtKey, FirstOfSeveral, SemanticMiss, SemanticHit,
         StillAmbiguous, CascadeFails, WordHits, WordsFail, NodesFail, NodeHits, NodesAreMany, Picks, Looks
<1>4. KeyMisses \/ KeyHits \/ KeyIsAmbiguous
  BY <1>3 DEF Resolves, FirstOfSeveral, SemanticMiss, SemanticHit, StillAmbiguous, CascadeFails, Cascade,
              WordHits, WordsFail, NodesFail, NodeHits, NodesAreMany, Picks, Looks
<1>5. ASSUME Key \in DOMAIN PinnedCfg(e)
      PROVE  /\ Matches # << >> /\ Len(Matches) = 1
             /\ Target(Matches[1]) \subseteq {e}
  <2> DEFINE by == Key
             of == PinnedCfg(e)[Key]
  <2>1. CountOfMatches(by, of) = 1 /\ Selected(by, of) = {e} /\ Matches = Collect(by, of)
    BY <1>1, <1>2, <1>5, PinnedSelects DEF Matches
  <2> HIDE DEF by, of
  <2>2. /\ Collect(by, of) \in Seq(ToSet(Collect(by, of))) /\ Len(Collect(by, of)) = 1
        /\ Collect(by, of)[1] = Nth(by, of, 1)
    <3>1. 1 \in 1..CountOfMatches(by, of)
      BY <2>1
    <3>2. Collect(by, of) \in Seq(ToSet(Collect(by, of)))
      BY <1>1, CollectLists
    <3>3. Len(Collect(by, of)) = CountOfMatches(by, of)
      BY <1>1, CollectLists
    <3>4. Collect(by, of)[1] = Nth(by, of, 1)
      BY <1>1, <3>1, CollectLists
    <3> QED BY <2>1, <3>2, <3>3, <3>4
  <2>3. Target(Nth(by, of, 1)) \subseteq {e}
    BY <1>1, <2>1, NthStandsForOne
  <2> QED BY <2>1, <2>2, <2>3
<1>6. CASE KeyMisses
  <2>1. Key \notin DOMAIN PinnedCfg(e)
    BY <1>5, <1>6 DEF KeyMisses
  <2>2. "role" \notin DOMAIN PinnedCfg(e) /\ lookup.key # 6
    BY <1>1, <1>3, <2>1, PinnedSelects DEF Key, Cascade
  <2>3. lookup' = [lookup EXCEPT !.key = @ + 1]
    BY <1>6 DEF KeyMisses
  <2>4. /\ lookup'.at = lookup.at /\ lookup'.cfg = lookup.cfg /\ lookup'.loc = lookup.loc
        /\ lookup'.key = lookup.key + 1
    BY <1>1, <2>3
  <2> QED BY <1>3, <2>2, <2>4 DEF DirectLookup
<1>7. CASE KeyHits
  <2>1. Matches # << >> /\ lookup'.at = "found" /\ lookup'.cfg = lookup.cfg /\ lookup'.loc = {Matches[1]}
    BY <1>1, <1>7 DEF KeyHits, Finds
  <2>2. Key \in DOMAIN PinnedCfg(e)
    BY <1>2, <2>1 DEF Matches
  <2> QED BY <1>2, <1>5, <2>1, <2>2 DEF DirectLookup
<1>8. CASE KeyIsAmbiguous
  <2>1. Len(Matches) > 1
    BY <1>8 DEF KeyIsAmbiguous
  <2>2. Key \in DOMAIN PinnedCfg(e)
    BY <1>2, <2>1 DEF Matches
  <2>3. Len(Matches) = 1
    BY <1>5, <2>2
  <2> QED BY <2>1, <2>3
<1> QED BY <1>4, <1>6, <1>7, <1>8

\* A stage of the lookup leads to the chosen element.
LEMMA HLookup == ASSUME SInv, CInv, HInv, LookupGoesOn PROVE HInv'
<1>1. /\ place = "lookup" /\ place' = "lookup" /\ UNCHANGED <<heal, attempt>> /\ Resolves /\ acted' = {}
  BY DEF LookupGoesOn, stepVars, CInv, Stages
<1>2. UNCHANGED <<page, task>>
  BY <1>1, StageShapes
<1>3. ASSUME NEW e \in OnPage, DirectPlaces, DirectHeal(e), DirectPlaces'
      PROVE  DirectHeal(e)'
  <2>1. attempt.phase = "replacement" /\ attempt.cfg = PinnedCfg(e) /\ DirectLookup(lookup, e)
    BY <1>1, <1>3 DEF DirectPlaces, DirectHeal
  <2>2. DirectLookup(lookup', e)
    BY <1>1, <2>1, DirectStage
  <2>3. DirectLookup(lookup, e)'
    BY <1>2, <2>2, SamePinned, SameTargets DEF DirectLookup
  <2> QED BY <1>1, <1>2, <1>3, <2>1, <2>3, SamePinned DEF DirectHeal
<1>4. DirectPlaces' => DirectPlaces
  BY <1>1 DEF DirectPlaces
<1> QED BY <1>1, <1>2, <1>3, <1>4, HAttemptStep

LEMMA HFound == ASSUME SInv, CInv, HInv, Found PROVE HInv'
<1>1. /\ place = "lookup" /\ place' = "act" /\ UNCHANGED <<page, heal, attempt, lookup>> /\ acted' = {}
  BY DEF Found, Goes, AttemptOnly, CInv, Stages
<1>2. ASSUME NEW e \in OnPage, DirectPlaces, DirectHeal(e), DirectPlaces'
      PROVE  DirectHeal(e)'
  BY <1>1, <1>2, SamePinned, SameTargets DEF DirectHeal, DirectLookup
<1>3. DirectPlaces' => DirectPlaces
  BY <1>1 DEF DirectPlaces
<1> QED BY <1>1, <1>2, <1>3, HAttemptStep

\* The interaction is with the chosen element.
LEMMA HActs == ASSUME SInv, HInv, Acts PROVE HInv'
<1>1. /\ place = "act" /\ place' = NextPlace(TRUE) /\ UNCHANGED <<page, heal, attempt, lookup>>
      /\ \E loc \in lookup.loc : \E e \in Target(loc) : acted' = {[e |-> e, loc |-> loc]}
  BY DEF Acts, Ends, AttemptOnly
<1>2. place' = "over"
  BY <1>1 DEF NextPlace
<1>3. HealShape' /\ Pinning'
  BY <1>1, <1>2 DEF HInv, HealShape, Pinning, DirectPlaces
<1>4. DirectHealsHitTheChosen'
  <2> SUFFICES ASSUME attempt.phase = "replacement", heal.chosen # {}, ~heal.moved, NEW a \in acted'
               PROVE  a.e \in heal.chosen
    BY <1>1 DEF DirectHealsHitTheChosen
  <2>1. PICK e \in OnPage : DirectHeal(e)
    BY <1>1 DEF HInv, Pinning, DirectPlaces
  <2>2. heal.chosen = {e} /\ \A loc \in lookup.loc : Target(loc) \subseteq {e}
    BY <1>1, <2>1 DEF DirectHeal, DirectLookup
  <2> QED BY <1>1, <2>2
<1> QED BY <1>3, <1>4 DEF HInv

\* An attempt for another reason than a direct heal.
LEMMA HOther ==
  ASSUME HInv, DOMAIN heal' = DOMAIN heal, acted' = {}, ~DirectPlaces' \/ heal'.chosen = {}
  PROVE  HInv'
BY DEF HInv, HealShape, Pinning, DirectHealsHitTheChosen

LEMMA HBridge == ASSUME SInv, CInv, HInv, BridgeInjects \/ BridgePasses PROVE HInv'
<1>1. heal' = [heal EXCEPT !.counted = @ + 1] /\ place = "bridge"
  BY DEF BridgeInjects, BridgePasses
<1>2. DOMAIN heal' = DOMAIN heal
  BY <1>1
<1>3. CASE BridgeInjects
  <2>1. acted' = {} /\ attempt'.phase = BridgeAnswer /\ BridgeAnswer # "replacement" /\ place' = "start"
    BY <1>3 DEF BridgeInjects, Attempts, Goes
  <2> QED BY <1>2, <2>1, HOther DEF DirectPlaces
<1>4. CASE BridgePasses
  <2>1. acted' = {} /\ place' = "capture"
    BY <1>1, <1>4 DEF BridgePasses, Goes, CInv, Stages
  <2> QED BY <1>2, <2>1, HOther DEF DirectPlaces
<1> QED BY <1>3, <1>4

\* A capture chooses an element of the page, or nothing.
LEMMA HCaptures == ASSUME SInv, CInv, HInv, Captures PROVE HInv'
<1> DEFINE dom == Captured(SkipDirect)
<1>1. /\ place = "capture" /\ UNCHANGED <<page, attempt, acted>>
      /\ heal' = [heal EXCEPT !.strategy = dom.strategy, !.chosen = dom.chosen, !.pinned = << >>, !.moved = FALSE]
      /\ place' = IF dom.strategy = "embed_direct" THEN "pin" ELSE "heal"
  BY DEF Captures, HealOnly, Goes
<1>2. /\ dom.strategy = "embed_direct" => \E e \in OnPage : dom.chosen = {e}
      /\ dom.strategy # "embed_direct" => dom.chosen = {}
  BY CapturedOnPage DEF SInv, Shapes
<1> HIDE DEF dom
<1>3. DOMAIN heal' = DOMAIN heal /\ heal'.chosen = dom.chosen
  BY <1>1 DEF HInv, HealShape
<1>4. acted' = {}
  BY <1>1 DEF CInv, Stages
<1>5. CASE dom.strategy # "embed_direct"
  BY <1>2, <1>3, <1>4, <1>5, HOther
<1>6. CASE dom.strategy = "embed_direct"
  <2>1. PICK e \in OnPage : dom.chosen = {e}
    BY <1>2, <1>6
  <2>2. DirectHeal(e)'
    BY <1>1, <1>3, <1>6, <2>1 DEF DirectHeal
  <2>3. Pinning'
    BY <1>1, <2>2, SamePinned DEF Pinning
  <2>4. HealShape' /\ DirectHealsHitTheChosen'
    BY <1>3, <1>4 DEF HInv, HealShape, DirectHealsHitTheChosen
  <2> QED BY <2>3, <2>4 DEF HInv
<1> QED BY <1>5, <1>6

\* The cfg is made of the chosen element.
LEMMA HPins == ASSUME SInv, CInv, HInv, Pins PROVE HInv'
<1>1. /\ place = "pin" /\ place' = "heal" /\ UNCHANGED <<page, attempt, acted>>
      /\ \E e \in heal.chosen : heal' = [heal EXCEPT !.pinned = PinnedCfg(e)]
  BY DEF Pins, HealOnly, Goes
<1>2. PICK f \in heal.chosen : heal' = [heal EXCEPT !.pinned = PinnedCfg(f)]
  BY <1>1
<1>3. /\ DOMAIN heal' = DOMAIN heal /\ heal'.chosen = heal.chosen /\ heal'.moved = heal.moved
      /\ heal'.pinned = PinnedCfg(f)
  BY <1>2 DEF HInv, HealShape
<1>4. acted' = {}
  BY <1>1 DEF CInv, Stages
<1>5. Pinning'
  <2> SUFFICES ASSUME ~heal.moved PROVE \E e \in OnPage : DirectHeal(e)'
    BY <1>1, <1>3, SamePinned DEF Pinning
  <2>1. PICK e \in OnPage : heal.chosen = {e}
    BY <1>1, <1>2 DEF HInv, Pinning, DirectPlaces, DirectHeal
  <2>2. f = e
    BY <2>1
  <2>3. DirectHeal(e)'
    BY <1>1, <1>3, <2>1, <2>2, SamePinned DEF DirectHeal
  <2> QED BY <2>3
<1> QED BY <1>3, <1>4, <1>5 DEF HInv, HealShape, DirectHealsHitTheChosen

LEMMA TriedKeeps ==
  ASSUME HealShape
  PROVE  /\ DOMAIN Tried = DOMAIN heal /\ Tried.chosen = heal.chosen
         /\ Tried.pinned = heal.pinned /\ Tried.moved = heal.moved
BY DEF Tried, HealShape

\* The replacement begins with the cfg of the chosen element.
LEMMA HDirect == ASSUME SInv, CInv, HInv, HealsDirectly PROVE HInv'
<1>1. /\ place = "heal" /\ place' = "start" /\ UNCHANGED page /\ heal' = Tried
      /\ attempt' = [phase |-> "replacement", cfg |-> heal.pinned] /\ acted' = {}
  BY DEF HealsDirectly, HealOnly, Attempts, Goes
<1>2. DOMAIN heal' = DOMAIN heal /\ heal'.chosen = heal.chosen /\ heal'.moved = heal.moved
  BY <1>1, TriedKeeps DEF HInv
<1>3. Pinning'
  <2> SUFFICES ASSUME ~heal.moved, heal.chosen # {} PROVE \E e \in OnPage : DirectHeal(e)'
    BY <1>1, <1>2, SamePinned DEF Pinning
  <2>1. PICK e \in OnPage : DirectHeal(e)
    BY <1>1 DEF HInv, Pinning, DirectPlaces
  <2>2. heal.chosen = {e} /\ heal.pinned = PinnedCfg(e)
    BY <1>1, <2>1 DEF DirectHeal
  <2>3. DirectHeal(e)'
    BY <1>1, <1>2, <2>2, SamePinned DEF DirectHeal
  <2> QED BY <2>3
<1> QED BY <1>1, <1>2, <1>3 DEF HInv, HealShape, DirectHealsHitTheChosen

\* An answer of the AI is no direct heal.
LEMMA HAsks == ASSUME SInv, CInv, HInv, AsksAI PROVE HInv'
<1>1. place = "heal" /\ heal' = [Tried EXCEPT !.chosen = {}]
  BY DEF AsksAI
<1>2. DOMAIN heal' = DOMAIN heal /\ heal'.chosen = {}
  BY <1>1, TriedKeeps DEF HInv, HealShape
<1>3. acted' = {}
  <2>1. acted = {}
    BY <1>1 DEF CInv, Stages
  <2>2. acted' = {} \/ acted' = acted
    BY DEF AsksAI, Attempts
  <2> QED BY <2>1, <2>2
<1> QED BY <1>2, <1>3, HOther

LEMMA HEnds == ASSUME SInv, HInv, RunEnds \/ Closes \/ Over \/ ShadowGoesOn \/ UNCHANGED vars PROVE HInv'
<1>1. CASE RunEnds \/ Closes
  <2>1. UNCHANGED <<page, heal, attempt, lookup, acted>> /\ place' \in {"flushed", "closed"}
    BY <1>1 DEF RunEnds, Closes, Goes
  <2> QED BY <2>1, HQuietStep
<1>2. CASE Over \/ ShadowGoesOn \/ UNCHANGED vars
  <2>1. UNCHANGED <<page, heal, attempt, lookup, acted, place>>
    BY <1>2 DEF Over, vars, ShadowGoesOn, ShadowWorks, stepVars, healVars
  <2> QED BY <2>1, HQuietStep
<1> QED BY <1>1, <1>2

LEMMA HInvInductive == Spec => []HInv
<1>1. SInv /\ CInv /\ HInv /\ [Next]_vars => HInv'
  BY HFails, HLooks, HLookup, HFound, HActs, HBridge, HCaptures, HPins, HDirect, HAsks, HEnds, HMoves
     DEF Next, StepAttempts, Heals
<1> QED BY <1>1, InitHInv, SInvInductive, CInvInductive, PTL DEF Spec

\* While the page stands still after a capture, the replacement of a direct heal
\* touches the element that was chosen, whatever the page (_pinned_cfg).
THEOREM DirectHealsHit == Spec => []DirectHealsHitTheChosen
<1>1. HInv => DirectHealsHitTheChosen
  BY DEF HInv
<1> QED BY <1>1, HInvInductive, PTL

(***************************************************************************)
(* Types                                                                   *)
(***************************************************************************)

\* A similarity is a percentage, also that of a locator that has no element left.
LEMMA ScoresArePercent ==
  ASSUME page \in Pages, NEW loc
  PROVE  ScoreOf(loc) \in 0..100
<1>1. \A e \in Target(loc) : e.score \in 0..100
  BY PageTyped DEF Target
<1>2. CASE Target(loc) = {}
  BY <1>2 DEF ScoreOf
<1>3. CASE Target(loc) # {}
  <2>1. (CHOOSE e \in Target(loc) : TRUE) \in Target(loc)
    BY <1>3
  <2> QED BY <1>1, <1>3, <2>1 DEF ScoreOf
<1> QED BY <1>2, <1>3

\* The shortlist is one, of candidates that were collected, with percentages.
LEMMA ShortlistIsRated ==
  ASSUME page \in Pages, NEW n \in Nat, DOMAIN lookup.found = 1..n
  PROVE  Shortlist \in Seq(ToSet(Shortlist)) /\ \A c \in ToSet(Shortlist) : c.score \in 0..100
<1> DEFINE scored == [i \in DOMAIN lookup.found |->
                        [loc |-> lookup.found[i].loc, score |-> ScoreOf(lookup.found[i].loc)]]
           U == ToSet(scored)
           like == AtLeast(scored, SEMANTIC_THRESHOLD)
           good == Ranked(like)
           tied == AtLeast(good, good[1].score - TieBreakWindow)
           rest == SubSeq(good, Len(tied) + 1, Len(good))
<1>1. Shortlist = IF task.action \in FitActions /\ Len(tied) > 1 THEN FittingFirst(tied, TRUE) \o rest ELSE good
  BY DEF Shortlist
<1>2. DOMAIN scored = 1..n /\ \A i \in 1..n : scored[i].score \in 0..100
  BY ScoresArePercent
<1> HIDE DEF scored
<1>3. \A c \in U : c.score \in 0..100
  BY <1>2 DEF ToSet
<1> HIDE DEF U
<1>4. like \in Seq(U)
  BY <1>2, AtLeastLists DEF U
<1>5. good \in Seq(U)
  <2> HIDE DEF like
  <2> DEFINE m == Len(like)
  <2>1. m \in Nat /\ DOMAIN like = 1..m /\ \A i \in 1..m : like[i] \in U
    BY <1>4
  <2>2. \A i \in 1..m : like[i].score \in Int
    <3> SUFFICES ASSUME NEW i \in 1..m PROVE like[i].score \in Int
      OBVIOUS
    <3>1. like[i].score \in 0..100 /\ \A x \in 0..100 : x \in Int
      BY <1>3, <2>1
    <3> DEFINE x == like[i].score
    <3> HIDE DEF x
    <3>2. x \in Int
      BY <3>1 DEF x
    <3> QED BY <3>2 DEF x
  <2> HIDE DEF m
  <2>3. good \in Seq(ToSet(like))
    BY <2>1, <2>2, RankedLists
  <2>4. ToSet(like) \subseteq U
    BY <2>1 DEF ToSet
  <2> HIDE DEF good
  <2> QED BY <2>3, <2>4
<1> HIDE DEF like, good
<1>6. tied \in Seq(U)
  <2> DEFINE m == Len(good)
             least == good[1].score - TieBreakWindow
  <2>1. m \in Nat /\ DOMAIN good = 1..m /\ ToSet(good) \subseteq U
    BY <1>5 DEF ToSet
  <2> HIDE DEF m, least
  <2>2. AtLeast(good, least) \in Seq(ToSet(good))
    BY <2>1, AtLeastLists
  <2> QED BY <2>1, <2>2 DEF least
<1> HIDE DEF tied
<1>7. Len(tied) \in Nat /\ rest \in Seq(U)
  BY <1>5, <1>6, RestOfIt
<1> HIDE DEF rest
<1>8. FittingFirst(tied, TRUE) \in Seq(U)
  <2> DEFINE m == Len(tied)
  <2>1. m \in Nat /\ DOMAIN tied = 1..m /\ ToSet(tied) \subseteq U
    BY <1>6 DEF ToSet
  <2> HIDE DEF m
  <2>2. Fitting(tied) \in Seq(ToSet(tied))
    BY <2>1, FittingLists
  <2>3. Fitting(tied) \in Seq(U)
    BY <2>1, <2>2
  <2>4. FittingFirst(tied, TRUE) = IF Fitting(tied) = << >> THEN tied ELSE Fitting(tied)
    BY <2>3 DEF FittingFirst
  <2> QED BY <1>6, <2>3, <2>4
<1>9. Shortlist \in Seq(U)
  BY <1>1, <1>5, <1>7, <1>8, BothInOne
<1> QED BY <1>3, <1>9 DEF ToSet

\* A choice comes with a confidence that is clamped.
LEMMA AnswersAreSure ==
  ASSUME NEW n, NEW answer \in PickAnswers(n), NEW a \in answer
  PROVE  a.confidence \in 0..100
<1>1. PICK choice \in 0..(n + 1), c \in {30, 90} : answer = ParsePick(choice, c, n)
  BY DEF PickAnswers
<1>2. a.confidence = Clamped(c)
  BY <1>1 DEF ParsePick
<1> QED BY <1>2 DEF Clamped, MIN_CONFIDENCE, MAX_CONFIDENCE

\* A lookup that has several candidates in hand came to them by a key, or guesses.
Collected(l) ==
  /\ l.at = "filter" \/ (l.at = "pick" /\ ~l.guess) => l.key \in 1..7
  /\ l.at = "filter" => \E n \in Nat : DOMAIN l.found = 1..n
  /\ l.at = "pick" => /\ l.found \in Seq(ToSet(l.found)) /\ l.found # << >>
                     /\ \A c \in ToSet(l.found) : c.score \in 0..100

\* An iteration of the heal loop is counted before its direct heal is uncounted.
CountedFirst ==
  place \in {"capture", "pin", "heal"} \/ (attempt.phase = "hidden" /\ place \in {"start", "lookup", "act"})
    => heal.counted # 0

CfgsAreKnown == DOMAIN attempt.cfg \subseteq Keys

\* The comparisons are a list, updated field by field.
ComparisonsListed ==
  /\ comparisons \in Seq(ToSet(comparisons))
  /\ \A c \in ToSet(comparisons) :
       IsComparison(c) /\ DOMAIN c = {"cfg", "loc", "left", "agree", "disagree"}

LookupTyped == IsLookup(lookup) /\ Collected(lookup)

HealTyped == IsHeal(heal) /\ CountedFirst

Rest ==
  /\ moves \in 0..MaxMoves
  /\ place \in {"start", "lookup", "act", "bridge", "capture", "pin", "heal", "over", "flushed", "closed"}
  /\ outcome \in {"none", "passed", "failed", "healed"}
  /\ CfgsAreKnown

TInv == LookupTyped /\ HealTyped /\ ComparisonsListed /\ Rest

LEMMA KeysAreSeven ==
  /\ Len(Cascade) = 7 /\ DOMAIN Cascade = 1..7
  /\ \A i \in 1..7 : Cascade[i] \in DOMAIN KeyConfidence /\ KeyConfidence[Cascade[i]] \in 0..100
  /\ "css" \in Keys /\ "role" \in Keys
<1>1. Len(Cascade) = 7 /\ DOMAIN Cascade = 1..7
  BY DEF Cascade
<1>2. \A i \in 1..7 : Cascade[i] \in {"role", "label", "placeholder", "text", "id", "css", "xpath"}
  BY DEF Cascade
<1>3. \A k \in {"role", "label", "placeholder", "text", "id", "css", "xpath"} :
        k \in DOMAIN KeyConfidence /\ KeyConfidence[k] \in 0..100
  BY DEF KeyConfidence
<1>4. "css" \in Keys /\ "role" \in Keys
  BY DEF Cascade, Keys, ToSet
<1> QED BY <1>1, <1>2, <1>3, <1>4

\* The cfgs of heals have keys the cascade knows.
LEMMA HealedCfgsAreKnown ==
  /\ \A e : DOMAIN PinnedCfg(e) \subseteq Keys
  /\ \A answer \in AnswersOfAI : \A cfg \in answer : DOMAIN cfg \subseteq Keys
<1>1. \A e : DOMAIN CssOf(e) \subseteq Keys /\ DOMAIN CfgOf(e) \subseteq Keys
  BY KeysAreSeven DEF CssOf, CfgOf
<1>2. DOMAIN [k \in {"css"} |-> "nothing"] \subseteq Keys
  BY KeysAreSeven
<1> QED BY <1>1, <1>2 DEF PinnedCfg, AnswersOfAI

\* Finding and missing keep the types.
LEMMA FindsTyped ==
  ASSUME SInv, LookupTyped, NEW loc, NEW confidence \in 0..100, Finds(loc, confidence)
  PROVE  LookupTyped'
<1>1. DOMAIN lookup = {"at", "cfg", "key", "found", "loc", "confidence", "guess", "moved"}
  BY DEF SInv, Shapes
<1>2. /\ lookup'.at = "found" /\ lookup'.cfg = lookup.cfg /\ lookup'.key = lookup.key
      /\ lookup'.confidence = confidence /\ lookup'.moved = lookup.moved /\ lookup'.guess = lookup.guess
  BY <1>1 DEF Finds
<1> QED BY <1>2 DEF LookupTyped, IsLookup, Collected

LEMMA GoesTyped ==
  ASSUME SInv, LookupTyped, NEW at \in {"words", "nodes", "visual", "missed"}, GoesTo(at)
  PROVE  LookupTyped'
<1>1. DOMAIN lookup = {"at", "cfg", "key", "found", "loc", "confidence", "guess", "moved"}
  BY DEF SInv, Shapes
<1>2. /\ lookup'.at = at /\ lookup'.cfg = lookup.cfg /\ lookup'.key = lookup.key
      /\ lookup'.confidence = lookup.confidence /\ lookup'.moved = lookup.moved /\ lookup'.guess = lookup.guess
  BY <1>1 DEF GoesTo
<1> QED BY <1>2 DEF LookupTyped, IsLookup, Collected

\* The next key has its turn.
LEMMA NextKeyTyped ==
  ASSUME SInv, LookupTyped, lookup.key \in 1..7,
         \/ lookup' = [lookup EXCEPT !.key = @ + 1] /\ lookup.at = "cascade"
         \/ lookup' = [lookup EXCEPT !.at = "cascade", !.key = @ + 1, !.found = << >>]
  PROVE  LookupTyped'
<1>1. DOMAIN lookup = {"at", "cfg", "key", "found", "loc", "confidence", "guess", "moved"}
  BY DEF SInv, Shapes
<1>2. /\ lookup'.at = "cascade" /\ lookup'.cfg = lookup.cfg /\ lookup'.key = lookup.key + 1
      /\ lookup'.confidence = lookup.confidence /\ lookup'.moved = lookup.moved /\ lookup'.guess = lookup.guess
  BY <1>1
<1>3. lookup'.key \in 1..8
  BY <1>2
<1> QED BY <1>2, <1>3, KeysAreSeven DEF LookupTyped, IsLookup, Collected

\* Several candidates go to the next choice.
LEMMA ListTyped ==
  ASSUME SInv, LookupTyped, NEW seq,
         \/ /\ lookup' = [lookup EXCEPT !.at = "filter", !.found = seq]
            /\ lookup.key \in 1..7 /\ \E n \in Nat : DOMAIN seq = 1..n
         \/ /\ lookup' = [lookup EXCEPT !.at = "pick", !.found = seq]
            /\ ~lookup.guess => lookup.key \in 1..7
            /\ seq \in Seq(ToSet(seq)) /\ seq # << >> /\ \A c \in ToSet(seq) : c.score \in 0..100
  PROVE  LookupTyped'
<1>1. DOMAIN lookup = {"at", "cfg", "key", "found", "loc", "confidence", "guess", "moved"}
  BY DEF SInv, Shapes
<1>2. /\ lookup'.at \in {"filter", "pick"} /\ lookup'.cfg = lookup.cfg /\ lookup'.key = lookup.key
      /\ lookup'.confidence = lookup.confidence /\ lookup'.moved = lookup.moved /\ lookup'.guess = lookup.guess
      /\ lookup'.found = seq
  BY <1>1
<1>3. IsLookup(lookup)'
  BY <1>2 DEF LookupTyped, IsLookup
<1>4. CASE lookup' = [lookup EXCEPT !.at = "filter", !.found = seq]
  <2>1. lookup'.at = "filter" /\ lookup.key \in 1..7 /\ \E n \in Nat : DOMAIN seq = 1..n
    BY <1>1, <1>4
  <2> QED BY <1>2, <1>3, <2>1 DEF LookupTyped, Collected
<1>5. CASE lookup' = [lookup EXCEPT !.at = "pick", !.found = seq]
  <2>1. /\ lookup'.at = "pick"
        /\ ~lookup.guess => lookup.key \in 1..7
        /\ seq \in Seq(ToSet(seq)) /\ seq # << >> /\ \A c \in ToSet(seq) : c.score \in 0..100
    BY <1>1, <1>5
  <2>2. ~lookup'.guess => lookup'.key \in 1..7
    BY <1>2, <2>1
  <2> QED BY <1>2, <1>3, <2>1, <2>2 DEF LookupTyped, Collected
<1> QED BY <1>4, <1>5

\* Every stage of a lookup keeps its types.
LEMMA StageTyped ==
  ASSUME SInv, CInv, LookupTyped, Resolves, place = "lookup"
  PROVE  LookupTyped'
<1> DEFINE next == [lookup EXCEPT !.at = "cascade", !.key = @ + 1, !.found = << >>]
<1>1. /\ page \in Pages /\ lookup.key \in 1..8
      /\ DOMAIN lookup = {"at", "cfg", "key", "found", "loc", "confidence", "guess", "moved"}
  BY KeysAreSeven DEF SInv, Shapes, LookupTyped, IsLookup
<1>2. CASE KeyMisses \/ KeyHits \/ KeyIsAmbiguous
  <2>1. lookup.key \in 1..7 /\ lookup.at = "cascade"
    BY <1>1, <1>2, KeysAreSeven DEF KeyMisses, KeyHits, KeyIsAmbiguous, AtKey
  <2>2. CASE KeyMisses
    BY <2>1, <2>2, NextKeyTyped DEF KeyMisses
  <2>3. CASE KeyHits
    <3>1. KeyConfidence[Key] \in 0..100 /\ Finds(Matches[1], KeyConfidence[Key])
      BY <2>1, <2>3, KeysAreSeven DEF KeyHits, Key
    <3> QED BY <3>1, FindsTyped
  <2>4. CASE KeyIsAmbiguous
    <3> DEFINE seq == [i \in DOMAIN Matches |-> [loc |-> Matches[i], score |-> 0]]
    <3>1. lookup' = [lookup EXCEPT !.at = "filter", !.found = seq]
      BY <2>4 DEF KeyIsAmbiguous
    <3>2. Matches # << >>
      BY <2>4 DEF KeyIsAmbiguous
    <3>3. \E n \in Nat : DOMAIN seq = 1..n
      <4>1. Matches = Collect(Key, lookup.cfg[Key])
        BY <1>1, <3>2, MatchesAreOf
      <4>2. CountOfMatches(Key, lookup.cfg[Key]) \in Nat
        BY <1>1, PlacesAreFinite
      <4>3. DOMAIN Matches = 1..CountOfMatches(Key, lookup.cfg[Key])
        BY <4>1 DEF Collect
      <4> QED BY <4>2, <4>3
    <3> HIDE DEF seq
    <3> QED BY <2>1, <3>1, <3>3, ListTyped
  <2> QED BY <1>2, <2>2, <2>3, <2>4
<1>3. CASE FirstOfSeveral
  <2>1. \E loc : Finds(loc, 70)
    BY <1>3 DEF FirstOfSeveral
  <2> QED BY <2>1, FindsTyped
<1>4. CASE SemanticMiss \/ SemanticHit \/ StillAmbiguous
  <2>1. lookup.at = "filter" /\ lookup.key \in 1..7 /\ \E n \in Nat : DOMAIN lookup.found = 1..n
    BY <1>4 DEF LookupTyped, Collected, SemanticMiss, SemanticHit, StillAmbiguous
  <2>2. Shortlist \in Seq(ToSet(Shortlist)) /\ \A c \in ToSet(Shortlist) : c.score \in 0..100
    BY <1>1, <2>1, ShortlistIsRated
  <2>3. CASE SemanticMiss
    BY <2>1, <2>3, NextKeyTyped DEF SemanticMiss
  <2>4. CASE SemanticHit
    <3>1. Shortlist[1] \in ToSet(Shortlist)
      BY <2>2, <2>4 DEF SemanticHit
    <3>2. Shortlist[1].score \in 0..100 /\ Finds(Shortlist[1].loc, Shortlist[1].score)
      BY <2>2, <2>4, <3>1 DEF SemanticHit
    <3> QED BY <3>2, FindsTyped
  <2>5. CASE StillAmbiguous
    <3>1. Shortlist # << >> /\ lookup' = [lookup EXCEPT !.at = "pick", !.found = Shortlist]
      BY <2>2, <2>5 DEF StillAmbiguous
    <3> QED BY <2>1, <2>2, <3>1, ListTyped
  <2> QED BY <1>4, <2>3, <2>4, <2>5
<1>5. CASE CascadeFails
  <2>1. PICK at \in {"missed", "words", "visual"} :
          lookup' = [lookup EXCEPT !.at = at, !.guess = TRUE, !.found = << >>]
    BY <1>5 DEF CascadeFails
  <2>2. /\ lookup'.at = at /\ lookup'.cfg = lookup.cfg /\ lookup'.key = lookup.key
        /\ lookup'.confidence = lookup.confidence /\ lookup'.moved = lookup.moved /\ lookup'.guess = TRUE
    BY <1>1, <2>1
  <2> QED BY <2>2 DEF LookupTyped, IsLookup, Collected
<1>6. CASE WordHits
  BY <1>6, FindsTyped DEF WordHits
<1>7. CASE WordsFail \/ NodesFail
  BY <1>7, GoesTyped DEF WordsFail, NodesFail
<1>8. CASE NodeHits \/ NodesAreMany
  <2>1. NodeMatches \in Seq(ToSet(NodeMatches)) /\ \A c \in ToSet(NodeMatches) : c.score \in 0..100
    BY <1>1, NodesFit
  <2>2. CASE NodeHits
    <3> DEFINE score == NodeMatches[1].score
    <3>1. NodeMatches[1] \in ToSet(NodeMatches)
      <4>1. Len(NodeMatches) = 1
        BY <2>2 DEF NodeHits
      <4> QED BY <2>1, <4>1
    <3>4. Finds(NodeMatches[1].loc, (score * 9) \div 10)
      BY <2>2 DEF NodeHits
    <3>2. score \in 0..100
      BY <2>1, <3>1
    <3> HIDE DEF score
    <3>3. (score * 9) \div 10 \in 0..100
      BY <3>2
    <3> QED BY <3>3, <3>4, FindsTyped
  <2>3. CASE NodesAreMany
    <3>1. /\ NodeMatches # << >> /\ lookup' = [lookup EXCEPT !.at = "pick", !.found = NodeMatches]
          /\ lookup.at = "nodes"
      BY <2>1, <2>3 DEF NodesAreMany
    <3>2. lookup.guess = TRUE
      BY <3>1 DEF CInv, Stages
    <3> QED BY <2>1, <3>1, <3>2, ListTyped
  <2> QED BY <1>8, <2>2, <2>3
<1>9. CASE Picks
  <2>1. /\ lookup.at = "pick"
        /\ ~lookup.guess => lookup.key \in 1..7
        /\ lookup.found \in Seq(ToSet(lookup.found)) /\ lookup.found # << >>
        /\ \A c \in ToSet(lookup.found) : c.score \in 0..100
    BY <1>9 DEF LookupTyped, Collected, Picks
  <2>2. PICK answer \in PickAnswers(Len(lookup.found)) :
          \/ answer = {} /\ Finds(lookup.found[1].loc, lookup.found[1].score)
          \/ \E a \in answer :
               \/ a.confidence >= AI_PICK_THRESHOLD /\ Finds(lookup.found[a.choice].loc, a.confidence)
               \/ /\ a.confidence < AI_PICK_THRESHOLD
                  /\ IF lookup.guess THEN Misses ELSE lookup' = next
    BY <1>9 DEF Picks
  <2>3. CASE Finds(lookup.found[1].loc, lookup.found[1].score)
    <3>1. lookup.found[1] \in ToSet(lookup.found)
      BY <2>1
    <3>2. lookup.found[1].score \in 0..100
      BY <2>1, <3>1
    <3> QED BY <2>3, <3>2, FindsTyped
  <2>4. CASE \E a \in answer : Finds(lookup.found[a.choice].loc, a.confidence)
    BY <2>4, AnswersAreSure, FindsTyped
  <2>5. CASE Misses
    BY <2>5, GoesTyped DEF Misses, GoesTo
  <2>6. CASE ~lookup.guess /\ lookup' = next
    BY <2>1, <2>6, NextKeyTyped
  <2> QED BY <2>2, <2>3, <2>4, <2>5, <2>6
<1>10. CASE Looks
  <2>1. CASE Misses
    BY <2>1, GoesTyped DEF Misses, GoesTo
  <2>2. CASE \E loc, confidence : confidence \in {45, 85} /\ Finds(loc, confidence)
    <3>1. PICK loc, confidence : confidence \in {45, 85} /\ Finds(loc, confidence)
      BY <2>2
    <3>2. confidence \in 0..100
      BY <3>1
    <3> QED BY <3>1, <3>2, FindsTyped
  <2> QED BY <1>10, <2>1, <2>2 DEF Looks
<1> QED
  BY <1>2, <1>3, <1>4, <1>5, <1>6, <1>7, <1>8, <1>9, <1>10 DEF Resolves

\* A find sets off a comparison of the keys of its cfg that did not win.
LEMMA ComparesListed ==
  ASSUME ComparisonsListed, NEW cfg, NEW loc, DOMAIN cfg \subseteq Keys, Compares(cfg, loc)
  PROVE  ComparisonsListed'
<1> DEFINE others == DOMAIN cfg \ (IF lookup.guess THEN {} ELSE {loc.by})
           c == [cfg |-> cfg, loc |-> loc, left |-> others, agree |-> {}, disagree |-> {}]
<1>1. CASE UNCHANGED comparisons
  BY <1>1 DEF ComparisonsListed
<1>2. CASE comparisons' = Append(comparisons, c)
  <2>1. IsComparison(c) /\ DOMAIN c = {"cfg", "loc", "left", "agree", "disagree"}
    BY DEF IsComparison
  <2> HIDE DEF c
  <2>2. comparisons' \in Seq(ToSet(comparisons'))
    BY <1>2, AppendTyped DEF ComparisonsListed
  <2>3. ToSet(comparisons') \subseteq ToSet(comparisons) \cup {c}
    BY <1>2 DEF ToSet, ComparisonsListed
  <2> QED BY <2>1, <2>2, <2>3 DEF ComparisonsListed
<1> QED BY <1>1, <1>2 DEF Compares

\* A strategy answers once; the comparison leaves the list when all have.
LEMMA ShadowListed == ASSUME ComparisonsListed, StrategyAnswers \/ ComparisonEnds PROVE ComparisonsListed'
<1>1. CASE StrategyAnswers
  <2>1. PICK i \in DOMAIN comparisons : \E k \in comparisons[i].left :
               comparisons' = [comparisons EXCEPT ![i] = Asked(@, k)]
    BY <1>1 DEF StrategyAnswers
  <2>2. PICK k \in comparisons[i].left : comparisons' = [comparisons EXCEPT ![i] = Asked(@, k)]
    BY <2>1
  <2> DEFINE c == comparisons[i]
             a == Asked(c, k)
  <2>3. IsComparison(c) /\ DOMAIN c = {"cfg", "loc", "left", "agree", "disagree"}
    BY <2>1 DEF ComparisonsListed, ToSet
  <2>4. /\ DOMAIN a = DOMAIN c /\ a.cfg = c.cfg /\ a.left = c.left \ {k}
        /\ \/ a.agree = c.agree \cup {k} /\ a.disagree = c.disagree
           \/ a.agree = c.agree /\ a.disagree = c.disagree \cup {k}
    <3> HIDE DEF c
    <3> QED BY <2>3 DEF Asked
  <2>5. k \in c.left
    BY <2>2
  <2> HIDE DEF c, a
  <2>6. IsComparison(a)
    BY <2>3, <2>4, <2>5 DEF IsComparison
  <2>7. comparisons' = [comparisons EXCEPT ![i] = a]
    BY <2>2 DEF a, c
  <2>8. /\ comparisons' \in Seq(ToSet(comparisons) \cup {a})
        /\ DOMAIN comparisons' = DOMAIN comparisons
        /\ \A j \in DOMAIN comparisons : comparisons'[j] \in ToSet(comparisons) \cup {a}
    BY <2>1, <2>7 DEF ComparisonsListed, ToSet
  <2>9. comparisons' \in Seq(ToSet(comparisons')) /\ ToSet(comparisons') \subseteq ToSet(comparisons) \cup {a}
    BY <2>8 DEF ToSet
  <2> QED BY <2>3, <2>4, <2>6, <2>9 DEF ComparisonsListed
<1>2. CASE ComparisonEnds
  <2>1. PICK i \in DOMAIN comparisons : comparisons' = RemoveAt(comparisons, i)
    BY <1>2 DEF ComparisonEnds
  <2> DEFINE S == ToSet(comparisons)
             before == SubSeq(comparisons, 1, i - 1)
             after == SubSeq(comparisons, i + 1, Len(comparisons))
  <2>2. comparisons' = before \o after
    BY <2>1 DEF RemoveAt
  <2>3. comparisons \in Seq(S) /\ i \in 1..Len(comparisons) /\ Len(comparisons) \in Nat
    BY <2>1 DEF ComparisonsListed
  <2> HIDE DEF S
  <2>4. before \in Seq(S) /\ after \in Seq(S)
    BY <2>3, RestOfIt
  <2> HIDE DEF before, after
  <2>5. comparisons' \in Seq(S)
    BY <2>2, <2>4, BothInOne
  <2>6. comparisons' \in Seq(ToSet(comparisons')) /\ ToSet(comparisons') \subseteq S
    BY <2>5 DEF ToSet
  <2> QED BY <2>6 DEF ComparisonsListed, S
<1> QED BY <1>1, <1>2

\* What a capture says.
LEMMA CapturedStrategies ==
  ASSUME NEW skip_direct
  PROVE  Captured(skip_direct).strategy \in {"embed_direct", "embed_candidates", "scoped", "aria"}
BY DEF Captured

LEMMA TierIsKnown == Tier \in Tiers
BY DEF Tier, TierFor, Tiers

\* What an iteration was and the tier it took.
LEMMA TriedTyped ==
  ASSUME HInv, IsHeal(heal), heal.counted # 0
  PROVE  /\ Tried.counted \in Nat /\ Tried.free_used \in BOOLEAN /\ Tried.tried \in Seq(Tiers)
         /\ Tried.strategy = heal.strategy /\ Tried.pinned = heal.pinned /\ Tried.chosen = heal.chosen
         /\ DOMAIN Tried = DOMAIN heal
<1> DEFINE free == setup.strict_order /\ Tier = "embed_direct" /\ ~heal.free_used
<1>1. DOMAIN heal = {"counted", "free_used", "tried", "strategy", "chosen", "pinned", "moved"}
  BY DEF HInv, HealShape
<1>2. Tried = [heal EXCEPT !.tried = IF setup.strict_order THEN Append(@, Tier) ELSE @,
                           !.free_used = @ \/ free, !.counted = IF free THEN @ - 1 ELSE @]
  BY DEF Tried
<1> HIDE DEF free
<1>3. /\ Tried.counted = IF free THEN heal.counted - 1 ELSE heal.counted
      /\ Tried.tried = IF setup.strict_order THEN Append(heal.tried, Tier) ELSE heal.tried
      /\ Tried.strategy = heal.strategy /\ Tried.pinned = heal.pinned /\ Tried.chosen = heal.chosen
      /\ DOMAIN Tried = DOMAIN heal
  BY <1>1, <1>2
<1>4. Tried.free_used \in BOOLEAN
  <2>1. Tried.free_used = (heal.free_used \/ free)
    BY <1>1, <1>2, Zenon
  <2> QED BY <2>1, Zenon
<1>5. heal.counted \in Nat \ {0} /\ heal.tried \in Seq(Tiers)
  BY DEF IsHeal
<1>6. Tried.counted \in Nat /\ Tried.tried \in Seq(Tiers)
  BY <1>3, <1>5, TierIsKnown
<1> QED BY <1>3, <1>4, <1>6

LEMMA InitTInv == Init => TInv
<1> SUFFICES ASSUME Init PROVE TInv
  OBVIOUS
<1>1. /\ lookup = NoLookup /\ heal = NoHeal /\ comparisons = << >> /\ moves = 0 /\ place = "start"
      /\ attempt.phase = "first" /\ attempt.cfg = [k \in task.keys |-> "asked"]
      /\ outcome = "none" /\ task \in Tasks
  BY DEF Init
<1>2. LookupTyped
  BY <1>1, KeysAreSeven DEF LookupTyped, IsLookup, Collected, NoLookup
<1>3. HealTyped
  <2>1. IsFiniteSet({}) /\ Cardinality({}) = 0
    BY FS_EmptySet
  <2> QED BY <1>1, <2>1 DEF HealTyped, IsHeal, CountedFirst, NoHeal
<1>4. ComparisonsListed
  BY <1>1 DEF ComparisonsListed, ToSet
<1>5. Rest
  <2>1. task.keys \subseteq Keys /\ 0 \in 0..MaxMoves
    BY <1>1, ResolutionAssumption DEF Task
  <2> QED BY <1>1, <2>1 DEF Rest, CfgsAreKnown
<1> QED BY <1>2, <1>3, <1>4, <1>5 DEF TInv

\* An attempt ends: with a heal to come that was counted, if it was the bridge's.
LEMMA TEnds ==
  ASSUME SInv, TInv, ValueMissing \/ ActsWithoutElement \/ NotFound \/ TouchesNothing \/ Acts
  PROVE  TInv'
<1>1. /\ UNCHANGED <<lookup, heal, comparisons, moves, attempt>> /\ place \in {"start", "lookup", "act"}
      /\ \E ok \in BOOLEAN : place' = NextPlace(ok)
      /\ outcome' \in {"passed", "failed", "healed"}
  <2>1. CASE ValueMissing
    BY <2>1 DEF ValueMissing, AttemptOnly, Ends
  <2>2. CASE ActsWithoutElement
    BY <2>2 DEF ActsWithoutElement, AttemptOnly, Ends
  <2>3. CASE NotFound
    BY <2>3 DEF NotFound, AttemptOnly, Ends
  <2>4. CASE TouchesNothing
    BY <2>4, GoneOrNot DEF TouchesNothing, AttemptOnly, Ends
  <2>5. CASE Acts
    BY <2>5 DEF Acts, AttemptOnly, Ends
  <2> QED BY <2>1, <2>2, <2>3, <2>4, <2>5
<1>2. place' \in {"over", "bridge", "capture"} /\ (place' = "capture" => attempt.phase = "hidden")
  BY <1>1 DEF NextPlace, HealGoesOn, SInv, OwnCfg
<1>3. HealTyped'
  BY <1>1, <1>2 DEF TInv, HealTyped, CountedFirst
<1> QED BY <1>1, <1>2, <1>3 DEF TInv, LookupTyped, ComparisonsListed, Rest, CfgsAreKnown

LEMMA TLooks == ASSUME SInv, TInv, LooksForElement PROVE TInv'
<1>1. /\ place = "start" /\ place' = "lookup" /\ Begin(attempt.cfg)
      /\ UNCHANGED <<heal, comparisons, moves, attempt, outcome>>
  BY DEF LooksForElement, Goes, AttemptOnly
<1>2. LookupTyped'
  <2>1. PICK at \in {"cascade", "words", "missed"} :
          lookup' = [NoLookup EXCEPT !.at = at, !.cfg = attempt.cfg, !.guess = at = "words"]
    BY <1>1 DEF Begin
  <2>2. /\ lookup'.at = at /\ lookup'.cfg = attempt.cfg /\ lookup'.key = 1 /\ lookup'.confidence = 0
        /\ lookup'.moved = FALSE
    BY <2>1 DEF NoLookup
  <2>3. lookup'.guess \in BOOLEAN
    <3>1. lookup'.guess = (at = "words")
      BY <2>1, Zenon DEF NoLookup
    <3> QED BY <3>1, Zenon
  <2>4. Collected(lookup)'
    BY <2>2 DEF Collected
  <2>5. DOMAIN lookup'.cfg \subseteq Keys /\ lookup'.key \in 1..(Len(Cascade) + 1)
    BY <2>2, KeysAreSeven DEF TInv, Rest, CfgsAreKnown
  <2>6. lookup'.confidence \in 0..100
    <3>1. lookup'.confidence = 0
      BY <2>2
    <3> QED BY <3>1
  <2>7. lookup'.at \in {"cascade", "words", "missed"} /\ lookup'.moved \in BOOLEAN
    BY <2>2, Zenon
  <2> QED BY <2>3, <2>4, <2>5, <2>6, <2>7, Zenon DEF LookupTyped, IsLookup
<1>3. HealTyped'
  BY <1>1 DEF TInv, HealTyped, CountedFirst
<1> QED BY <1>1, <1>2, <1>3 DEF TInv, ComparisonsListed, Rest, CfgsAreKnown

LEMMA TLookup == ASSUME SInv, CInv, TInv, LookupGoesOn PROVE TInv'
<1>1. /\ place = "lookup" /\ Resolves
      /\ UNCHANGED <<place, heal, comparisons, attempt, outcome>>
  BY DEF LookupGoesOn, stepVars
<1>2. UNCHANGED moves
  BY <1>1 DEF Resolves, KeyMisses, KeyHits, KeyIsAmbiguous, FirstOfSeveral, SemanticMiss, SemanticHit,
              StillAmbiguous, CascadeFails, WordHits, WordsFail, NodesFail, NodeHits, NodesAreMany, Picks,
              Looks, PageOnly
<1>3. LookupTyped'
  BY <1>1, StageTyped DEF TInv
<1> QED BY <1>1, <1>2, <1>3 DEF TInv, HealTyped, CountedFirst, ComparisonsListed, Rest, CfgsAreKnown

LEMMA TFound == ASSUME SInv, TInv, Found PROVE TInv'
<1>1. /\ place = "lookup" /\ place' = "act" /\ \E loc \in lookup.loc : Compares(attempt.cfg, loc)
      /\ UNCHANGED <<lookup, heal, moves, attempt, outcome>>
  BY DEF Found, Goes, AttemptOnly
<1>2. ComparisonsListed'
  BY <1>1, ComparesListed DEF TInv, Rest, CfgsAreKnown
<1>3. HealTyped'
  BY <1>1 DEF TInv, HealTyped, CountedFirst
<1> QED BY <1>1, <1>2, <1>3 DEF TInv, LookupTyped, Rest, CfgsAreKnown

\* A lookup that has not begun.
LEMMA NoLookupTyped == ASSUME lookup' = NoLookup PROVE LookupTyped'
BY KeysAreSeven DEF LookupTyped, IsLookup, Collected, NoLookup

LEMMA TBridge == ASSUME SInv, HInv, TInv, BridgeInjects \/ BridgePasses PROVE TInv'
<1>1. heal' = [heal EXCEPT !.counted = @ + 1] /\ UNCHANGED <<comparisons, moves, outcome>>
  BY DEF BridgeInjects, BridgePasses, HealOnly
<1>2. heal'.counted \in Nat \ {0} /\ IsHeal(heal')
  BY <1>1 DEF TInv, HealTyped, IsHeal, HInv, HealShape
<1>3. HealTyped'
  BY <1>2 DEF HealTyped, CountedFirst
<1>4. CASE BridgeInjects
  <2>1. lookup' = NoLookup /\ attempt'.cfg = WrittenCfg /\ place' = "start"
    BY <1>4 DEF BridgeInjects, Attempts, Goes
  <2>2. DOMAIN WrittenCfg \subseteq Keys
    BY ResolutionAssumption DEF WrittenCfg, SInv, Shapes, Task
  <2> QED BY <1>1, <1>3, <2>1, <2>2, NoLookupTyped DEF TInv, ComparisonsListed, Rest, CfgsAreKnown
<1>5. CASE BridgePasses
  <2>1. UNCHANGED <<lookup, attempt>> /\ place' = "capture"
    BY <1>5 DEF BridgePasses, Goes
  <2> QED BY <1>1, <1>3, <2>1 DEF TInv, LookupTyped, ComparisonsListed, Rest, CfgsAreKnown
<1> QED BY <1>4, <1>5

LEMMA TCaptures == ASSUME SInv, HInv, TInv, Captures PROVE TInv'
<1> DEFINE dom == Captured(SkipDirect)
<1>1. /\ place = "capture" /\ UNCHANGED <<lookup, comparisons, moves, attempt, outcome>>
      /\ heal' = [heal EXCEPT !.strategy = dom.strategy, !.chosen = dom.chosen, !.pinned = << >>, !.moved = FALSE]
      /\ place' \in {"pin", "heal"}
  BY DEF Captures, HealOnly, Goes
<1>2. /\ dom.strategy \in {"embed_direct", "embed_candidates", "scoped", "aria"}
      /\ dom.chosen = {} \/ \E e \in OnPage : dom.chosen = {e}
  BY CapturedOnPage, CapturedStrategies DEF SInv, Shapes
<1> HIDE DEF dom
<1>3. Cardinality(dom.chosen) <= 1
  <2>1. Cardinality({}) = 0 /\ \A e : Cardinality({e}) = 1
    BY FS_EmptySet, FS_Singleton
  <2> QED BY <1>2, <2>1
<1>4. /\ heal'.counted = heal.counted /\ heal'.free_used = heal.free_used /\ heal'.tried = heal.tried
      /\ heal'.strategy = dom.strategy /\ heal'.chosen = dom.chosen /\ heal'.pinned = << >>
  BY <1>1 DEF HInv, HealShape
<1>5. HealTyped'
  BY <1>1, <1>2, <1>3, <1>4 DEF TInv, HealTyped, IsHeal, CountedFirst
<1> QED BY <1>1, <1>5 DEF TInv, LookupTyped, ComparisonsListed, Rest, CfgsAreKnown

LEMMA TPins == ASSUME SInv, HInv, TInv, Pins PROVE TInv'
<1>1. /\ place = "pin" /\ place' = "heal" /\ UNCHANGED <<lookup, comparisons, moves, attempt, outcome>>
      /\ \E e \in heal.chosen : heal' = [heal EXCEPT !.pinned = PinnedCfg(e)]
  BY DEF Pins, HealOnly, Goes
<1>2. PICK e \in heal.chosen : heal' = [heal EXCEPT !.pinned = PinnedCfg(e)]
  BY <1>1
<1>3. /\ heal'.counted = heal.counted /\ heal'.free_used = heal.free_used /\ heal'.tried = heal.tried
      /\ heal'.strategy = heal.strategy /\ heal'.chosen = heal.chosen /\ heal'.pinned = PinnedCfg(e)
  BY <1>2 DEF HInv, HealShape
<1>4. HealTyped'
  BY <1>1, <1>3, HealedCfgsAreKnown DEF TInv, HealTyped, IsHeal, CountedFirst
<1> QED BY <1>1, <1>4 DEF TInv, LookupTyped, ComparisonsListed, Rest, CfgsAreKnown

LEMMA THeals == ASSUME SInv, HInv, TInv, HealsDirectly \/ AsksAI PROVE TInv'
<1>1. /\ place = "heal" /\ UNCHANGED <<comparisons, moves, outcome>>
      /\ heal' = Tried \/ heal' = [Tried EXCEPT !.chosen = {}]
  BY DEF HealsDirectly, AsksAI, HealOnly
<1>2. heal.counted # 0 /\ IsHeal(heal)
  BY <1>1 DEF TInv, HealTyped, CountedFirst
<1>3. /\ Tried.counted \in Nat /\ Tried.free_used \in BOOLEAN /\ Tried.tried \in Seq(Tiers)
      /\ Tried.strategy = heal.strategy /\ Tried.pinned = heal.pinned /\ Tried.chosen = heal.chosen
      /\ DOMAIN Tried = DOMAIN heal
  BY <1>2, TriedTyped
<1>4. IsHeal(heal')
  <2>1. CASE heal' = Tried
    BY <1>2, <1>3, <2>1 DEF IsHeal
  <2>2. CASE heal' = [Tried EXCEPT !.chosen = {}]
    <3>1. /\ heal'.counted = Tried.counted /\ heal'.free_used = Tried.free_used /\ heal'.tried = Tried.tried
          /\ heal'.strategy = Tried.strategy /\ heal'.pinned = Tried.pinned /\ heal'.chosen = {}
      BY <1>3, <2>2 DEF HInv, HealShape
    <3>2. Cardinality({}) = 0
      BY FS_EmptySet
    <3> QED BY <1>2, <1>3, <3>1, <3>2 DEF IsHeal
  <2> QED BY <1>1, <2>1, <2>2
<1>5. \/ \E cfg : /\ DOMAIN cfg \subseteq Keys /\ attempt' = [phase |-> "replacement", cfg |-> cfg]
                 /\ lookup' = NoLookup /\ place' = "start"
      \/ UNCHANGED <<lookup, attempt>> /\ place' \in {"bridge", "over"}
  <2>1. CASE HealsDirectly
    BY <1>2, <2>1 DEF HealsDirectly, Attempts, Goes, IsHeal
  <2>2. CASE AsksAI
    <3>1. PICK answer \in AnswersOfAI :
            \/ \E cfg \in answer : Attempts("replacement", cfg) /\ UNCHANGED outcome
            \/ /\ answer = {}
               /\ Goes(IF heal.counted < MaxHealAttempts THEN "bridge" ELSE "over")
               /\ UNCHANGED <<lookup, attempt, outcome, acted>>
      BY <2>2 DEF AsksAI
    <3> QED BY <3>1, HealedCfgsAreKnown DEF Attempts, Goes
  <2> QED BY <2>1, <2>2
<1>6. CASE UNCHANGED <<lookup, attempt>> /\ place' \in {"bridge", "over"}
  <2>1. HealTyped'
    BY <1>4, <1>6 DEF HealTyped, CountedFirst
  <2> QED BY <1>1, <1>6, <2>1 DEF TInv, LookupTyped, ComparisonsListed, Rest, CfgsAreKnown
<1>7. CASE \E cfg : /\ DOMAIN cfg \subseteq Keys /\ attempt' = [phase |-> "replacement", cfg |-> cfg]
                   /\ lookup' = NoLookup /\ place' = "start"
  <2>1. HealTyped'
    BY <1>4, <1>7 DEF HealTyped, CountedFirst
  <2>2. Rest'
    BY <1>1, <1>7 DEF TInv, Rest, CfgsAreKnown
  <2> QED BY <1>1, <1>7, <2>1, <2>2, NoLookupTyped DEF TInv, ComparisonsListed
<1> QED BY <1>5, <1>6, <1>7

LEMMA TMoves == ASSUME SInv, HInv, TInv, PageMoves PROVE TInv'
<1>1. /\ UNCHANGED <<comparisons, place, attempt, outcome>> /\ moves < MaxMoves /\ moves' = moves + 1
      /\ lookup' = [lookup EXCEPT !.moved = TRUE] /\ heal' = [heal EXCEPT !.moved = TRUE]
  BY DEF PageMoves, stepVars
<1>2. LookupTyped'
  <2>1. /\ lookup'.at = lookup.at /\ lookup'.cfg = lookup.cfg /\ lookup'.key = lookup.key /\ lookup'.moved = TRUE
        /\ lookup'.confidence = lookup.confidence /\ lookup'.guess = lookup.guess /\ lookup'.found = lookup.found
    BY <1>1 DEF SInv, Shapes
  <2> QED BY <2>1 DEF TInv, LookupTyped, IsLookup, Collected
<1>3. HealTyped'
  <2>1. /\ heal'.counted = heal.counted /\ heal'.free_used = heal.free_used /\ heal'.tried = heal.tried
        /\ heal'.strategy = heal.strategy /\ heal'.chosen = heal.chosen /\ heal'.pinned = heal.pinned
    BY <1>1 DEF HInv, HealShape
  <2> QED BY <1>1, <2>1 DEF TInv, HealTyped, IsHeal, CountedFirst
<1>4. moves' \in 0..MaxMoves
  BY <1>1, ResolutionAssumption DEF TInv, Rest
<1> QED BY <1>1, <1>2, <1>3, <1>4 DEF TInv, ComparisonsListed, Rest, CfgsAreKnown

LEMMA TCloses == ASSUME SInv, TInv, RunEnds \/ Closes \/ Over \/ ShadowGoesOn \/ UNCHANGED vars PROVE TInv'
<1>1. /\ UNCHANGED <<lookup, heal, moves, attempt, outcome>>
      /\ place' = place \/ place' \in {"flushed", "closed"}
      /\ comparisons' = comparisons \/ comparisons' = << >> \/ StrategyAnswers \/ ComparisonEnds
  BY DEF RunEnds, Closes, Over, vars, ShadowGoesOn, ShadowWorks, stepVars, healVars, Goes
<1>2. ComparisonsListed'
  <2>1. CASE comparisons' = comparisons
    BY <2>1 DEF TInv, ComparisonsListed
  <2>2. CASE comparisons' = << >>
    BY <2>2 DEF ComparisonsListed, ToSet
  <2> QED BY <1>1, <2>1, <2>2, ShadowListed DEF TInv
<1>3. HealTyped'
  BY <1>1 DEF TInv, HealTyped, CountedFirst
<1> QED BY <1>1, <1>2, <1>3 DEF TInv, LookupTyped, Rest, CfgsAreKnown

LEMMA TInvInductive == Spec => []TInv
<1>1. SInv /\ CInv /\ HInv /\ TInv /\ [Next]_vars => TInv'
  BY TEnds, TLooks, TLookup, TFound, TBridge, TCaptures, TPins, THeals, TMoves, TCloses
     DEF Next, StepAttempts, Heals
<1> QED BY <1>1, InitTInv, SInvInductive, CInvInductive, HInvInductive, PTL DEF Spec

\* Whatever the pages and the answers, the variables keep their types: similarity
\* and confidence are percentages, no lookup goes beyond the last key, and the heals
\* counted are never fewer than none, though the first direct one is uncounted.
THEOREM TypeCorrect == Spec => []TypeOK
<1>1. SInv /\ TInv => TypeOK
  <2> SUFFICES ASSUME SInv, TInv PROVE TypeOK
    OBVIOUS
  <2>1. \A i \in DOMAIN comparisons : IsComparison(comparisons[i])
    BY DEF TInv, ComparisonsListed, ToSet
  <2> QED BY <2>1 DEF TypeOK, TInv, LookupTyped, HealTyped, Rest, SInv, Shapes, OwnCfg
<1> QED BY <1>1, SInvInductive, TInvInductive, PTL
==============================================================================
