-------------------------- MODULE RunLifecycleProofs --------------------------
(***************************************************************************)
(* What RunLifecycle guarantees for all domains, adapters, plans and rows: *)
(* the safety properties of the run run_lifecycle, proved.                 *)
(*                                                                         *)
(* The argument: whatever is owed is what opens that raised left behind,   *)
(* and one of each layer the sessions in `opened' and the open or close    *)
(* under way hold (Accounts); the close chain is `opened' from its end     *)
(* (Chain); and an exception in flight is never forgotten (Rows).          *)
(***************************************************************************)
EXTENDS RunLifecycle, SequenceTheorems, TLAPS

\* The places outside of a row, and before its sessions.
Outer  == {"share", "prepare", "tee", "unshare", "ended"}
Before == {"share", "prepare", "tee", "open", "bind", "steps", "get", "report", "save"}

\* How many of its layers the session of `d' holds, the first ones.
HeldOf(d) ==
  IF pc = "close" /\ opened # <<>> /\ d = Last(opened) THEN got
  ELSE IF d \in Range(opened) THEN Len(LayersOf(d))
  ELSE IF pc \in {"open", "get"} /\ d = wants THEN got
  ELSE 0

Has(d, n, x) == \E i \in 1..n : LayersOf(d)[i] = x

One(b) == IF b THEN 1 ELSE 0

Accounts ==
  \A d \in Domains, x \in Resources :
    owed[d][x] = left[d][x] + One(Has(d, HeldOf(d), x))

\* What is opened, what is being opened, what is being closed.
Chain ==
  /\ IsInjective(opened)
  /\ pc \in Outer => opened = <<>>
  /\ pc \in {"open", "get"} => wants \notin Range(opened) /\ got <= Len(LayersOf(wants))
  /\ pc = "close" =>
       /\ pending = Reverse(opened)
       /\ got <= (IF opened = <<>> THEN 0 ELSE Len(LayersOf(Last(opened))))
  /\ pc = "get" => step <= Len(cfg.plan)

\* The rows done with, the exception in flight, the handler and the browser.
Rows ==
  /\ pc \notin {"unshare", "ended", "share"} => row <= cfg.rows
  /\ pc = "share" => row = 1 /\ cfg.data
  /\ pc \in Before => Ran /\ collected = 1..(row - 1)
  /\ pc = "close" /\ Ran => collected = 1..row
  /\ pc \in {"unshare", "ended"} /\ Ran => collected = 1..cfg.rows
  /\ pc = "unshare" => cfg.data
  /\ pc \in Outer => tee = 0
  /\ pc = "close" /\ ~cfg.data => tee = 0
  /\ RowsStayApart

IInv == TypeOK /\ Accounts /\ Chain /\ Rows

-----------------------------------------------------------------------------
(* Sequences of sessions and of layers *)

LEMMA LayersAreSequences ==
  ASSUME NEW d \in Domains
  PROVE  /\ LayersOf(d) \in Seq(Resources) /\ IsInjective(LayersOf(d))
         /\ Len(LayersOf(d)) \in Nat /\ DOMAIN LayersOf(d) = 1..Len(LayersOf(d))
         /\ \A i \in 1..Len(LayersOf(d)) : LayersOf(d)[i] \in Resources
<1>1. LayersOf(d) \in Seq(Resources) /\ IsInjective(LayersOf(d))
  BY LayersAssumption DEF LayersOf
<1> QED BY <1>1, LenProperties

LEMMA ConfigIsOne ==
  ASSUME cfg \in Configs
  PROVE  /\ cfg.rows \in Nat /\ cfg.primary \in Domains /\ cfg.data \in BOOLEAN
         /\ cfg.plan \in Seq(Request) /\ Len(cfg.plan) \in Nat
         /\ ~cfg.data => cfg.rows = 1
<1>1. cfg \in Config
  BY ConfigsAssumption
<1> QED BY <1>1, ConfigsAssumption, LenProperties DEF Config

\* The layers open() holds when it raises.
LEMMA HoldsThoseOpened ==
  ASSUME NEW d \in Domains, NEW n \in Nat, n <= Len(LayersOf(d)), NEW x
  PROVE  x \in Range(SubSeq(LayersOf(d), 1, n)) <=> Has(d, n, x)
<1> DEFINE L == LayersOf(d)
<1>1. L \in Seq(Resources) /\ Len(L) \in Nat /\ \A i \in 1..n : L[i] \in Resources
  BY LayersAreSequences
<1> HIDE DEF L
<1>2. /\ SubSeq(L, 1, n) \in Seq(Resources)
      /\ Len(SubSeq(L, 1, n)) = n
      /\ \A i \in 1..n : SubSeq(L, 1, n)[i] = L[i]
  <2>1. /\ SubSeq(L, 1, n) \in Seq(Resources)
        /\ Len(SubSeq(L, 1, n)) = IF 1 <= n THEN n - 1 + 1 ELSE 0
        /\ \A i \in 1..(n - 1 + 1) : SubSeq(L, 1, n)[i] = L[1 + i - 1]
    BY <1>1, SubSeqProperties
  <2>2. 1..(n - 1 + 1) = 1..n /\ \A i \in 1..n : 1 + i - 1 = i
    OBVIOUS
  <2> QED BY <2>1, <2>2
<1>3. Range(SubSeq(L, 1, n)) = {L[i] : i \in 1..n}
  <2>1. Range(SubSeq(L, 1, n)) = {SubSeq(L, 1, n)[i] : i \in 1..n}
    BY <1>2, RangeEquality
  <2> QED BY <1>2, <2>1
<1> QED BY <1>3 DEF Has, L

\* The close chain takes its sessions from the end of `opened'.
LEMMA ReversedOrder ==
  ASSUME NEW s \in Seq(Domains)
  PROVE  /\ Reverse(s) \in Seq(Domains) /\ Len(Reverse(s)) = Len(s)
         /\ \A i \in 1..Len(s) : Reverse(s)[i] = s[(Len(s) - i) + 1]
         /\ s = <<>> <=> Reverse(s) = <<>>
         /\ s # <<>> => Head(Reverse(s)) = Last(s) /\ Last(s) \in Domains /\ Len(s) > 0
<1>1. Len(s) \in Nat /\ \A i \in 1..Len(s) : s[i] \in Domains
  BY LenProperties
<1>2. \A i \in 1..Len(s) : (Len(s) - i) + 1 \in 1..Len(s)
  BY <1>1
<1>3. Reverse(s) \in [1..Len(s) -> Domains]
  BY <1>1, <1>2 DEF Reverse
<1>4. Reverse(s) \in Seq(Domains)
  BY <1>1, <1>3, SeqDef
<1>5. Len(Reverse(s)) = Len(s)
  BY <1>1, <1>3, <1>4, LenProperties
<1>6. \A i \in 1..Len(s) : Reverse(s)[i] = s[(Len(s) - i) + 1]
  BY DEF Reverse
<1>7. s = <<>> <=> Len(s) = 0
  BY EmptySeq
<1>8. Reverse(s) = <<>> <=> Len(Reverse(s)) = 0
  BY <1>4, EmptySeq
<1>9. s # <<>> => Head(Reverse(s)) = Last(s) /\ Last(s) \in Domains /\ Len(s) > 0
  <2> SUFFICES ASSUME s # <<>>
               PROVE  Head(Reverse(s)) = Last(s) /\ Last(s) \in Domains /\ Len(s) > 0
    OBVIOUS
  <2>1. Len(s) > 0 /\ 1 \in 1..Len(s) /\ Len(s) \in 1..Len(s) /\ (Len(s) - 1) + 1 = Len(s)
    BY <1>1, <1>7
  <2>2. Head(Reverse(s)) = Reverse(s)[1]
    BY <1>4, <1>5, <1>8, <2>1
  <2> QED BY <1>1, <1>6, <2>1, <2>2 DEF Last
<1> QED BY <1>4, <1>5, <1>6, <1>7, <1>8, <1>9

\* Popping the last session takes it off the end.
LEMMA PopsTheLast ==
  ASSUME NEW s \in Seq(Domains), s # <<>>, IsInjective(s)
  PROVE  /\ RemoveFirst(s, Last(s)) \in Seq(Domains)
         /\ Len(RemoveFirst(s, Last(s))) = Len(s) - 1
         /\ \A i \in 1..(Len(s) - 1) : RemoveFirst(s, Last(s))[i] = s[i]
<1> DEFINE n == Len(s)
           r == RemoveFirst(s, Last(s))
<1>1. n \in Nat /\ n > 0 /\ DOMAIN s = 1..n /\ \A i \in 1..n : s[i] \in Domains
  BY LenProperties, EmptySeq
<1>2. {i \in 1..n : s[i] = Last(s)} = {n}
  BY <1>1 DEF Last, IsInjective
<1>3. SelectInSeq(s, LAMBDA v : v = Last(s)) = n
  <2>1. SelectInSeq(s, LAMBDA v : v = Last(s)) = Min({n})
    BY <1>2 DEF SelectInSeq
  <2>2. Min({n}) = n
    BY <1>1 DEF Min
  <2> QED BY <2>1, <2>2
<1>4. r = SubSeq(s, 1, n - 1) \o SubSeq(s, n + 1, n)
  <2>1. \E i \in 1..n : s[i] = Last(s)
    BY <1>1 DEF Last
  <2>2. r = RemoveAt(s, SelectInSeq(s, LAMBDA v : v = Last(s)))
    BY <2>1 DEF RemoveFirst
  <2>3. r = RemoveAt(s, n)
    BY <1>3, <2>2
  <2> QED BY <2>3 DEF RemoveAt
<1>5. SubSeq(s, n + 1, n) = <<>>
  BY <1>1, SubSeqEmpty
<1>6. /\ SubSeq(s, 1, n - 1) \in Seq(Domains)
      /\ Len(SubSeq(s, 1, n - 1)) = n - 1
      /\ \A i \in 1..(n - 1) : SubSeq(s, 1, n - 1)[i] = s[i]
  <2>1. /\ SubSeq(s, 1, n - 1) \in Seq(Domains)
        /\ Len(SubSeq(s, 1, n - 1)) = IF 1 <= n - 1 THEN (n - 1) - 1 + 1 ELSE 0
        /\ \A i \in 1..((n - 1) - 1 + 1) : SubSeq(s, 1, n - 1)[i] = s[1 + i - 1]
    BY <1>1, SubSeqProperties
  <2>2. 1..((n - 1) - 1 + 1) = 1..(n - 1) /\ \A i \in 1..(n - 1) : 1 + i - 1 = i
    BY <1>1
  <2> QED BY <1>1, <2>1, <2>2
<1>7. r = SubSeq(s, 1, n - 1)
  BY <1>4, <1>5, <1>6, ConcatEmptySeq
<1> QED BY <1>6, <1>7

-----------------------------------------------------------------------------
(* The sessions *)

Quiet == Place \ {"open", "get", "close"}

\* No session changes hands.
LEMMA AccountsStay ==
  ASSUME Accounts, UNCHANGED <<cfg, owed, left>>, \A d \in Domains : HeldOf(d)' = HeldOf(d)
  PROVE  Accounts'
<1>1. \A d \in Domains : LayersOf(d)' = LayersOf(d)
  BY DEF LayersOf
<1>2. \A d \in Domains, x \in Resources : Has(d, HeldOf(d), x)' = Has(d, HeldOf(d), x)
  BY <1>1 DEF Has
<1> QED BY <1>2 DEF Accounts

LEMMA QuietKeeps ==
  ASSUME Accounts, Chain, UNCHANGED <<cfg, opened, owed, left>>,
         pc \in Quiet, pc' \in Quiet, pc' \in Outer => opened = <<>>
  PROVE  Accounts' /\ Chain'
<1>1. \A d \in Domains : LayersOf(d)' = LayersOf(d)
  BY DEF LayersOf
<1>2. \A d \in Domains : HeldOf(d)' = HeldOf(d)
  BY <1>1 DEF HeldOf, Quiet
<1>3. Accounts'
  BY <1>2, AccountsStay
<1>4. Chain'
  BY DEF Chain, Quiet
<1> QED BY <1>3, <1>4

LEMMA StartOpenKeeps ==
  ASSUME Accounts, Chain, UNCHANGED cfg, pc \in Quiet,
         NEW d \in Domains, d \notin Range(opened), NEW p \in {"open", "get"}, StartOpen(d, p),
         p = "get" => step' <= Len(cfg.plan)
  PROVE  Accounts' /\ Chain'
<1>1. \A e \in Domains : LayersOf(e)' = LayersOf(e)
  BY DEF LayersOf
<1>2. \A e \in Domains : HeldOf(e)' = HeldOf(e)
  BY <1>1 DEF HeldOf, Quiet, StartOpen
<1>3. Accounts'
  BY <1>2, AccountsStay DEF StartOpen
<1>4. Chain'
  <2>1. Len(LayersOf(d)) \in Nat
    BY LayersAreSequences
  <2> QED BY <1>1, <2>1 DEF Chain, StartOpen, Outer
<1> QED BY <1>3, <1>4

LEMMA OpenLayerKeeps ==
  ASSUME TypeOK, Accounts, Chain, OpenLayer
  PROVE  Accounts' /\ Chain' /\ owed' \in Counts
<1> DEFINE y == LayersOf(wants)[got + 1]
<1>1. /\ UNCHANGED <<cfg, pc, wants, opened, step, left>> /\ got' = got + 1
      /\ owed' = [owed EXCEPT ![wants][y] = @ + 1] /\ pc \in {"open", "get"}
      /\ got < Len(LayersOf(wants))
  BY DEF OpenLayer, stepVars
<1>2. wants \in Domains /\ got \in Nat /\ wants \notin Range(opened)
  BY <1>1 DEF TypeOK, Chain
<1>3. /\ Len(LayersOf(wants)) \in Nat /\ got + 1 \in 1..Len(LayersOf(wants))
      /\ y \in Resources /\ ~Has(wants, got, y)
      /\ \A i \in 1..got : i \in DOMAIN LayersOf(wants)
  BY <1>1, <1>2, LayersAreSequences DEF IsInjective, Has
<1>4. /\ \A d \in Domains : LayersOf(d)' = LayersOf(d)
      /\ \A d \in Domains : d # wants => HeldOf(d)' = HeldOf(d)
      /\ HeldOf(wants) = got /\ HeldOf(wants)' = got + 1
  BY <1>1, <1>2 DEF LayersOf, HeldOf
<1>5. owed' \in Counts
  BY <1>1, <1>2, <1>3 DEF TypeOK, Counts
<1>6. PICK w \in Domains : w = wants /\ w = wants'
  BY <1>1, <1>2
<1>7. ASSUME NEW x
      PROVE  Has(w, HeldOf(w), x)' <=> Has(w, HeldOf(w), x) \/ x = y
  <2>1. HeldOf(w) = got /\ HeldOf(w)' = got + 1 /\ LayersOf(w)' = LayersOf(w)
    BY <1>1, <1>2, <1>4, <1>6 DEF HeldOf
  <2>2. Has(w, HeldOf(w), x)' <=> \E i \in 1..(got + 1) : LayersOf(w)[i] = x
    BY <2>1 DEF Has
  <2>3. Has(w, HeldOf(w), x) <=> \E i \in 1..got : LayersOf(w)[i] = x
    BY <2>1 DEF Has
  <2>4. \A i : i \in 1..(got + 1) <=> i \in 1..got \/ i = got + 1
    BY <1>2
  <2> QED BY <1>6, <2>2, <2>3, <2>4
<1>8. ~Has(w, HeldOf(w), y)
  BY <1>3, <1>4, <1>6
<1>9. Accounts'
  <2> SUFFICES ASSUME NEW d \in Domains, NEW x \in Resources
               PROVE  owed'[d][x] = left[d][x] + One(Has(d, HeldOf(d), x)')
    BY <1>1 DEF Accounts, One
  <2>1. CASE d # w
    <3>1. owed'[d][x] = owed[d][x] /\ Has(d, HeldOf(d), x)' = Has(d, HeldOf(d), x)
      BY <1>1, <1>4, <1>6, <2>1 DEF TypeOK, Counts, Has
    <3> QED BY <3>1 DEF Accounts
  <2>2. CASE d = w /\ x # y
    <3>1. owed'[d][x] = owed[d][x]
      BY <1>1, <1>2, <1>6, <2>2 DEF TypeOK, Counts
    <3>2. Has(d, HeldOf(d), x)' <=> Has(d, HeldOf(d), x)
      BY <1>7, <2>2
    <3> QED BY <3>1, <3>2 DEF Accounts, One
  <2>3. CASE d = w /\ x = y
    <3>1. owed'[d][x] = owed[d][x] + 1
      BY <1>1, <1>2, <1>3, <1>6, <2>3 DEF TypeOK, Counts
    <3>2. Has(d, HeldOf(d), x)' /\ ~Has(d, HeldOf(d), x)
      BY <1>7, <1>8, <2>3
    <3>3. left[d][x] \in Nat
      BY DEF TypeOK, Counts
    <3> QED BY <3>1, <3>2, <3>3 DEF Accounts, One
  <2> QED BY <2>1, <2>2, <2>3
<1>10. Chain'
  BY <1>1, <1>2, <1>3, <1>4 DEF Chain, Outer
<1> QED BY <1>5, <1>9, <1>10

\* A session that opened is recorded, after all the others.
LEMMA OpenReturnsKeeps ==
  ASSUME TypeOK, Accounts, Chain, OpenReturns
  PROVE  Accounts' /\ Chain' /\ opened' \in Seq(Domains)
<1>1. /\ UNCHANGED <<cfg, wants, got, owed, step, left>> /\ pc \in {"open", "get"}
      /\ pc' \in {"bind", "steps"}
      /\ opened' = Append(opened, wants) /\ got = Len(LayersOf(wants))
  BY DEF OpenReturns, stepVars
<1>2. wants \in Domains /\ got \in Nat /\ wants \notin Range(opened) /\ opened \in Seq(Domains)
  BY <1>1 DEF TypeOK, Chain
<1>3. /\ opened' \in Seq(Domains) /\ Len(opened') = Len(opened) + 1 /\ Len(opened) \in Nat
      /\ DOMAIN opened = 1..Len(opened) /\ DOMAIN opened' = 1..(Len(opened) + 1)
      /\ \A i \in 1..Len(opened) : opened'[i] = opened[i]
      /\ opened'[Len(opened) + 1] = wants
  BY <1>1, <1>2, AppendProperties, LenProperties
<1>4. IsInjective(opened')
  BY <1>2, <1>3 DEF Chain, IsInjective, Range
<1>5. \A d : d \in Range(opened') <=> d \in Range(opened) \/ d = wants
  BY <1>3 DEF Range
<1>6. \A d \in Domains : LayersOf(d)' = LayersOf(d)
  BY <1>1 DEF LayersOf
<1>7. \A d \in Domains : HeldOf(d)' = HeldOf(d)
  BY <1>1, <1>2, <1>5, <1>6 DEF HeldOf
<1>8. Accounts'
  BY <1>1, <1>7, AccountsStay
<1>9. Chain'
  BY <1>1, <1>4 DEF Chain, Outer
<1> QED BY <1>3, <1>8, <1>9

\* close_all() starts with every session as it is, the newest at the head.
LEMMA LeaveStartsTheChain ==
  ASSUME TypeOK, Chain, UNCHANGED <<cfg, opened>>, NEW e, Leave(e)
  PROVE  /\ Chain' /\ pending' \in Seq(Domains) /\ got' \in Nat
         /\ \A d \in Domains :
              HeldOf(d)' = IF d \in Range(opened) THEN Len(LayersOf(d)) ELSE 0
<1>1. opened \in Seq(Domains)
  BY DEF TypeOK
<1>2. /\ pending' = Reverse(opened) /\ pending' \in Seq(Domains)
      /\ opened = <<>> <=> pending' = <<>>
      /\ opened # <<>> => Head(pending') = Last(opened) /\ Last(opened) \in Domains
                           /\ Len(opened) > 0
  BY <1>1, ReversedOrder DEF Leave, TearDown
<1>3. \A d \in Domains : LayersOf(d)' = LayersOf(d)
  BY DEF LayersOf
<1>4. got' = IF opened = <<>> THEN 0 ELSE Len(LayersOf(Last(opened)))
  <2>1. got' = IF pending' = <<>> THEN 0 ELSE Len(LayersOf(Head(pending')))
    BY <1>2, <1>3 DEF Leave, HeadHandles, HandlesOf, LayersOf
  <2> QED BY <1>2, <2>1
<1>5. got' \in Nat
  BY <1>2, <1>4, LayersAreSequences
<1>6. opened # <<>> => Last(opened) \in Range(opened)
  BY <1>1, <1>2, LenProperties DEF Last, Range
<1>7. opened # <<>> => LayersOf(Last(opened))' = LayersOf(Last(opened))
  BY DEF LayersOf
<1>8. \A d \in Domains : HeldOf(d)' = IF d \in Range(opened) THEN Len(LayersOf(d)) ELSE 0
  BY <1>3, <1>4, <1>6, <1>7 DEF Leave, HeldOf
<1>9. Chain'
  BY <1>2, <1>4, <1>5, <1>7 DEF Chain, Leave, Outer
<1> QED BY <1>2, <1>5, <1>8, <1>9

LEMMA LeaveKeeps ==
  ASSUME TypeOK, Accounts, Chain, UNCHANGED <<cfg, opened, owed, left>>, pc \in Quiet,
         NEW e, Leave(e)
  PROVE  Accounts' /\ Chain' /\ pending' \in Seq(Domains) /\ got' \in Nat
<1>1. \A d \in Domains : HeldOf(d) = IF d \in Range(opened) THEN Len(LayersOf(d)) ELSE 0
  BY DEF HeldOf, Quiet
<1>2. \A d \in Domains : HeldOf(d)' = HeldOf(d)
  BY <1>1, LeaveStartsTheChain
<1> QED BY <1>2, AccountsStay, LeaveStartsTheChain

\* open() raised: its layers are now owed to nobody.
LEMMA ForsakeAccounts ==
  ASSUME TypeOK, Accounts, Chain, pc \in {"open", "get"}, Forsake, UNCHANGED <<cfg, owed, opened>>,
         \A d \in Domains :
           HeldOf(d)' = IF d \in Range(opened) THEN Len(LayersOf(d)) ELSE 0
  PROVE  Accounts' /\ left' \in Counts
<1>1. PICK w \in Domains : w = wants
  BY DEF TypeOK
<1>2. got \in Nat /\ got <= Len(LayersOf(w)) /\ w \notin Range(opened)
  BY <1>1 DEF TypeOK, Chain
<1>3. \A d \in Domains : LayersOf(d)' = LayersOf(d)
  BY DEF LayersOf
<1>4. left' = [left EXCEPT ![w] =
                 [x \in Resources |-> left[w][x] + One(x \in Range(SubSeq(LayersOf(w), 1, got)))]]
  BY <1>1 DEF Forsake, One
<1>5. left' \in Counts
  BY <1>4 DEF TypeOK, Counts, One
<1>6. Accounts'
  <2> SUFFICES ASSUME NEW d \in Domains, NEW x \in Resources
               PROVE  owed[d][x] = left'[d][x] + One(Has(d, HeldOf(d), x)')
    BY DEF Accounts, One
  <2>1. CASE d # w
    <3>1. left'[d][x] = left[d][x]
      BY <1>4, <2>1 DEF TypeOK, Counts
    <3>2. HeldOf(d)' = HeldOf(d)
      BY <1>1, <2>1 DEF HeldOf
    <3>3. Has(d, HeldOf(d), x)' = Has(d, HeldOf(d), x)
      BY <1>3, <3>2 DEF Has
    <3> QED BY <3>1, <3>3 DEF Accounts
  <2>2. CASE d = w
    <3>1. HeldOf(d) = got /\ HeldOf(d)' = 0
      BY <1>1, <1>2, <2>2 DEF HeldOf
    <3>2. ~Has(d, HeldOf(d), x)'
      BY <3>1 DEF Has
    <3>3. left'[d][x] = left[d][x] + One(Has(d, got, x))
      BY <1>2, <1>4, <2>2, HoldsThoseOpened DEF TypeOK, Counts, One
    <3>4. left'[d][x] \in Nat
      BY <1>5 DEF Counts
    <3> QED BY <3>1, <3>2, <3>3, <3>4 DEF Accounts, One
  <2> QED BY <2>1, <2>2
<1> QED BY <1>5, <1>6

LEMMA ForsakeAndLeaveKeeps ==
  ASSUME TypeOK, Accounts, Chain, UNCHANGED <<cfg, opened, owed>>, pc \in {"open", "get"},
         Forsake, NEW e, Leave(e)
  PROVE  Accounts' /\ Chain' /\ left' \in Counts /\ pending' \in Seq(Domains) /\ got' \in Nat
BY LeaveStartsTheChain, ForsakeAccounts

LEMMA DemandFailsKeeps ==
  ASSUME TypeOK, Accounts, Chain, DemandFails
  PROVE  Accounts' /\ Chain' /\ left' \in Counts
<1>1. /\ pc = "get" /\ pc' = "steps" /\ Forsake
      /\ UNCHANGED <<cfg, wants, got, opened, pending, owed>>
  BY DEF DemandFails
<1>2. \A d \in Domains : LayersOf(d)' = LayersOf(d)
  BY <1>1 DEF LayersOf
<1>3. \A d \in Domains :
        HeldOf(d)' = IF d \in Range(opened) THEN Len(LayersOf(d)) ELSE 0
  BY <1>1, <1>2 DEF HeldOf
<1>4. Chain'
  BY <1>1 DEF Chain, Outer
<1> QED BY <1>1, <1>3, <1>4, ForsakeAccounts

\* The session being closed is the newest, and gives back what it acquired last.
LEMMA CloseLayerReleases ==
  ASSUME TypeOK, Chain, CloseLayer
  PROVE  /\ opened # <<>> /\ Last(opened) \in Domains /\ Last(opened) \in Range(opened)
         /\ got \in 1..Len(LayersOf(Last(opened)))
         /\ owed' = [owed EXCEPT ![Last(opened)][LayersOf(Last(opened))[got]] = @ - 1]
         /\ UNCHANGED <<cfg, pc, row, step, tee, opened, pending, left, shared, collected>>
         /\ got' = got - 1
<1>1. /\ pc = "close" /\ got > 0 /\ opened \in Seq(Domains) /\ got \in Nat
      /\ pending = Reverse(opened)
      /\ got <= (IF opened = <<>> THEN 0 ELSE Len(LayersOf(Last(opened))))
  BY DEF CloseLayer, TypeOK, Chain
<1>2. opened # <<>> /\ got <= Len(LayersOf(Last(opened)))
  BY <1>1
<1>3. Head(pending) = Last(opened) /\ Last(opened) \in Domains /\ Len(opened) > 0
  BY <1>1, <1>2, ReversedOrder
<1>4. Last(opened) \in Range(opened)
  BY <1>1, <1>3, LenProperties DEF Last, Range
<1>5. got \in 1..Len(LayersOf(Last(opened)))
  BY <1>1, <1>2, <1>3, LayersAreSequences
<1>6. LayersOf(Last(opened))[got] \in Range(LayersOf(Last(opened)))
  BY <1>3, <1>5, LayersAreSequences DEF Range
<1> QED BY <1>2, <1>3, <1>4, <1>5, <1>6 DEF CloseLayer, HandlesOf, stepVars

LEMMA CloseLayerKeeps ==
  ASSUME TypeOK, Accounts, Chain, CloseLayer
  PROVE  Accounts' /\ Chain' /\ owed' \in Counts /\ got' \in Nat
<1>1. PICK w \in Domains : w = Last(opened)
  BY CloseLayerReleases
<1> DEFINE L == LayersOf(w)
<1>0. PICK y \in Resources : y = L[got]
  BY <1>1, CloseLayerReleases, LayersAreSequences
<1>2. /\ opened # <<>> /\ w \in Range(opened) /\ got \in 1..Len(L) /\ pc = "close"
      /\ owed' = [owed EXCEPT ![w][y] = @ - 1] /\ got' = got - 1
      /\ UNCHANGED <<cfg, pc, opened, pending, left, step>>
  BY <1>0, <1>1, CloseLayerReleases DEF CloseLayer
<1>3. L \in Seq(Resources) /\ IsInjective(L) /\ Len(L) \in Nat /\ DOMAIN L = 1..Len(L)
  BY <1>2, LayersAreSequences
<1>4. /\ \A d \in Domains : LayersOf(d)' = LayersOf(d)
      /\ \A d \in Domains : d # w => HeldOf(d)' = HeldOf(d)
      /\ HeldOf(w) = got /\ HeldOf(w)' = got - 1
  BY <1>1, <1>2 DEF LayersOf, HeldOf
<1>5. ASSUME NEW x
      PROVE  Has(w, HeldOf(w), x) <=> Has(w, HeldOf(w), x)' \/ x = y
  <2>1. Has(w, HeldOf(w), x)' <=> \E i \in 1..(got - 1) : L[i] = x
    BY <1>4 DEF Has
  <2>2. Has(w, HeldOf(w), x) <=> \E i \in 1..got : L[i] = x
    BY <1>4 DEF Has
  <2>3. \A i : i \in 1..got <=> i \in 1..(got - 1) \/ i = got
    BY <1>2, <1>3
  <2> QED BY <1>0, <1>2, <2>1, <2>2, <2>3
<1>6. ~Has(w, HeldOf(w), y)'
  <2>1. \A i \in 1..(got - 1) : i \in DOMAIN L /\ got \in DOMAIN L /\ i # got
    BY <1>2, <1>3
  <2>2. ~ \E i \in 1..(got - 1) : L[i] = y
    BY <1>0, <1>3, <2>1 DEF IsInjective
  <2> QED BY <1>4, <2>2 DEF Has
<1>7. owed[w][y] = left[w][y] + 1 /\ owed[w][y] \in Nat /\ left[w][y] \in Nat
  BY <1>3, <1>5 DEF Accounts, One, TypeOK, Counts
<1>8. owed' \in Counts
  <2>1. owed[w][y] - 1 \in Nat
    BY <1>7
  <2> QED BY <1>2, <2>1 DEF TypeOK, Counts
<1>9. Accounts'
  <2> SUFFICES ASSUME NEW d \in Domains, NEW x \in Resources
               PROVE  owed'[d][x] = left[d][x] + One(Has(d, HeldOf(d), x)')
    BY <1>2 DEF Accounts, One
  <2>1. CASE d # w
    <3>1. owed'[d][x] = owed[d][x] /\ Has(d, HeldOf(d), x)' = Has(d, HeldOf(d), x)
      BY <1>2, <1>4, <2>1 DEF TypeOK, Counts, Has
    <3> QED BY <3>1 DEF Accounts
  <2>2. CASE d = w /\ x # y
    <3>1. owed'[d][x] = owed[d][x]
      BY <1>2, <2>2 DEF TypeOK, Counts
    <3>2. Has(d, HeldOf(d), x)' <=> Has(d, HeldOf(d), x)
      BY <1>5, <2>2
    <3> QED BY <3>1, <3>2 DEF Accounts, One
  <2>3. CASE d = w /\ x = y
    <3>1. owed'[d][x] = owed[d][x] - 1
      BY <1>2, <1>3, <2>3 DEF TypeOK, Counts
    <3> QED BY <1>6, <1>7, <2>3, <3>1 DEF One
  <2> QED BY <2>1, <2>2, <2>3
<1>10. Chain'
  <2>1. LayersOf(Last(opened))' = LayersOf(Last(opened))
    BY <1>2 DEF LayersOf
  <2> QED BY <1>1, <1>2, <1>3, <2>1 DEF Chain, Outer
<1> QED BY <1>2, <1>8, <1>9, <1>10

LEMMA CloseNextKeeps ==
  ASSUME TypeOK, Accounts, Chain, CloseNext
  PROVE  /\ Accounts' /\ Chain' /\ opened' \in Seq(Domains) /\ pending' \in Seq(Domains)
         /\ got' \in Nat
<1>1. /\ pc = "close" /\ pc' = "close" /\ got = 0 /\ pending # <<>>
      /\ opened' = RemoveFirst(opened, Head(pending)) /\ pending' = Tail(pending)
      /\ got' = HeadHandles(pending') /\ UNCHANGED <<cfg, owed, left>>
      /\ opened \in Seq(Domains) /\ pending = Reverse(opened) /\ IsInjective(opened)
  BY DEF CloseNext, TypeOK, Chain
<1>2. PICK old \in Seq(Domains), new \in Seq(Domains), n \in Nat :
        old = opened /\ new = opened' /\ n = Len(old)
  <2>1. Head(pending) = Last(opened) /\ opened # <<>>
    BY <1>1, ReversedOrder
  <2>2. opened' \in Seq(Domains) /\ Len(opened) \in Nat
    BY <1>1, <2>1, PopsTheLast, LenProperties
  <2> QED BY <1>1, <2>2
<1>3. /\ pending \in Seq(Domains) /\ Len(pending) = n /\ n > 0 /\ old # <<>>
      /\ \A i \in 1..n : pending[i] = old[(n - i) + 1]
      /\ Head(pending) = Last(old) /\ DOMAIN old = 1..n /\ IsInjective(old)
  BY <1>1, <1>2, ReversedOrder, LenProperties
<1>4. /\ new \in Seq(Domains) /\ Len(new) = n - 1 /\ DOMAIN new = 1..(n - 1)
      /\ \A i \in 1..(n - 1) : new[i] = old[i]
  <2>1. new = RemoveFirst(old, Last(old))
    BY <1>1, <1>2, <1>3
  <2> QED BY <1>2, <1>3, <2>1, PopsTheLast, LenProperties
<1>5. \A i, j \in 1..n : old[i] = old[j] => i = j
  BY <1>3 DEF IsInjective
<1>6. IsInjective(new)
  BY <1>2, <1>4, <1>5 DEF IsInjective
<1>7. pending' = Reverse(new) /\ pending' \in Seq(Domains)
  <2>1. /\ pending' \in Seq(Domains) /\ Len(pending') = n - 1
        /\ \A i \in 1..(n - 1) : pending'[i] = pending[i + 1]
    BY <1>1, <1>3, HeadTailProperties
  <2>2. /\ Reverse(new) \in Seq(Domains) /\ Len(Reverse(new)) = n - 1
        /\ \A i \in 1..(n - 1) : Reverse(new)[i] = new[((n - 1) - i) + 1]
    <3>1. /\ Reverse(new) \in Seq(Domains) /\ Len(Reverse(new)) = Len(new)
          /\ \A i \in 1..Len(new) : Reverse(new)[i] = new[(Len(new) - i) + 1]
      BY ReversedOrder
    <3> QED BY <1>4, <3>1
  <2>3. ASSUME NEW i \in 1..(n - 1)
        PROVE  pending'[i] = Reverse(new)[i]
    <3>1. /\ i + 1 \in 1..n /\ (n - (i + 1)) + 1 = ((n - 1) - i) + 1
          /\ ((n - 1) - i) + 1 \in 1..(n - 1)
      BY <1>2
    <3> QED BY <1>3, <1>4, <2>1, <2>2, <3>1
  <2> QED BY <2>1, <2>2, <2>3, SeqEqual
<1>8. /\ new = <<>> <=> Reverse(new) = <<>>
      /\ new # <<>> => /\ Head(Reverse(new)) = Last(new) /\ Last(new) \in Domains
                       /\ Last(new) \in Range(new)
  <2>1. new # <<>> => n - 1 \in 1..(n - 1)
    BY <1>4, ReversedOrder
  <2>2. new # <<>> => Last(new) \in Range(new)
    BY <1>4, <2>1 DEF Last, Range
  <2> QED BY <1>4, <2>2, ReversedOrder
<1>9. \A d \in Domains : LayersOf(d)' = LayersOf(d)
  BY <1>1 DEF LayersOf
<1>10. got' = IF new = <<>> THEN 0 ELSE Len(LayersOf(Last(new)))
  <2>1. CASE new = <<>>
    BY <1>1, <1>7, <1>8, <2>1 DEF HeadHandles
  <2>2. CASE new # <<>>
    BY <1>1, <1>7, <1>8, <2>2 DEF HeadHandles, HandlesOf, LayersOf
  <2> QED BY <2>1, <2>2
<1>11. got' \in Nat
  BY <1>8, <1>10, LayersAreSequences
<1>12. \A d : d \in Range(new) <=> d \in Range(old) /\ d # Last(old)
  <2>1. n \in 1..n /\ \A i : i \in 1..n <=> i \in 1..(n - 1) \/ i = n
    BY <1>2, <1>3
  <2>2. \A i \in 1..(n - 1) : i # n
    BY <1>2
  <2>3. \A i \in 1..(n - 1) : old[i] # old[n]
    BY <1>5, <2>1, <2>2
  <2>4. Last(old) = old[n]
    BY <1>2 DEF Last
  <2> QED BY <1>3, <1>4, <2>1, <2>3, <2>4 DEF Range
<1>13. ASSUME NEW d \in Domains
       PROVE  HeldOf(d)' = HeldOf(d)
  <2>1. HeldOf(d)' = IF new # <<>> /\ d = Last(new) THEN got'
                     ELSE IF d \in Range(new) THEN Len(LayersOf(d)) ELSE 0
    BY <1>1, <1>2, <1>9 DEF HeldOf
  <2>2. HeldOf(d) = IF d = Last(old) THEN 0
                    ELSE IF d \in Range(old) THEN Len(LayersOf(d)) ELSE 0
    BY <1>1, <1>2, <1>3 DEF HeldOf
  <2> QED BY <1>8, <1>10, <1>12, <2>1, <2>2
<1>14. Accounts'
  BY <1>1, <1>13, AccountsStay
<1>15. Chain'
  <2>1. got' <= (IF new = <<>> THEN 0 ELSE Len(LayersOf(Last(new))))
    BY <1>10, <1>11
  <2>2. new # <<>> => LayersOf(Last(opened))' = LayersOf(Last(new))
    BY <1>1, <1>2 DEF LayersOf
  <2> QED BY <1>1, <1>2, <1>6, <1>7, <2>1, <2>2 DEF Chain, Outer
<1> QED BY <1>2, <1>4, <1>7, <1>11, <1>14, <1>15

LEMMA EndRowKeeps ==
  ASSUME TypeOK, Accounts, Chain, EndRow
  PROVE  Accounts' /\ Chain'
<1>1. /\ pc = "close" /\ pending = <<>> /\ UNCHANGED <<cfg, opened, owed, left>>
      /\ pc' \in {"prepare", "unshare", "ended"}
  BY DEF EndRow, AfterRow, Outside, setVars
<1>2. opened = <<>>
  BY <1>1, ReversedOrder DEF Chain, TypeOK
<1>3. \A d \in Domains : d \notin Range(opened)
  BY <1>2, EmptySeq, LenProperties DEF Range
<1>4. \A d \in Domains : HeldOf(d)' = HeldOf(d)
  BY <1>1, <1>2, <1>3 DEF HeldOf
<1>5. Accounts'
  BY <1>1, <1>4, AccountsStay
<1>6. Chain'
  BY <1>1, <1>2 DEF Chain
<1> QED BY <1>5, <1>6

\* Every step keeps the accounts, and the types of what they are about.
LEMMA SessionsKept ==
  ASSUME TypeOK, Accounts, Chain, Next
  PROVE  /\ Accounts' /\ Chain'
         /\ opened' \in Seq(Domains) /\ pending' \in Seq(Domains) /\ got' \in Nat
         /\ owed' \in Counts /\ left' \in Counts
<1> USE DEF setVars, stepVars
<1>1. CASE Share \/ Prepare \/ Unshare
  <2>1. /\ UNCHANGED setVars /\ cfg' = cfg /\ pc \in Quiet /\ pc' \in Quiet /\ pc \in Outer
    BY <1>1 DEF Share, Prepare, Unshare, Quiet, Place, Outside, Outer
  <2> QED BY <2>1, QuietKeeps DEF Chain, TypeOK
<1>2. CASE Bind \/ Attempt \/ StepsDone \/ Report
  <2>1. /\ UNCHANGED setVars /\ cfg' = cfg /\ pc \in Quiet /\ pc' \in Quiet /\ pc' \notin Outer
    BY <1>2 DEF Bind, Attempt, AtStep, StepsDone, Report, Quiet, Place, Outer
  <2> QED BY <2>1, QuietKeeps DEF TypeOK
<1>3. CASE Tee
  <2>1. /\ cfg' = cfg /\ pc \in Quiet /\ opened = <<>> /\ StartOpen(cfg.primary, "open")
        /\ cfg.primary \in Domains
    BY <1>3, ConfigIsOne DEF Tee, Quiet, Place, Chain, Outer, TypeOK
  <2>2. cfg.primary \notin Range(opened)
    BY <2>1, EmptySeq, LenProperties DEF Range
  <2>3. Accounts' /\ Chain'
    BY <2>1, <2>2, StartOpenKeeps
  <2> QED BY <2>1, <2>3 DEF StartOpen, TypeOK
<1>4. CASE Demand
  <2>1. PICK d \in Domains : d = cfg.plan[step].domain /\ d \notin Range(opened)
    BY <1>4 DEF Demand, MustOpen
  <2>2. /\ cfg' = cfg /\ pc \in Quiet /\ StartOpen(d, "get") /\ step' <= Len(cfg.plan)
    BY <1>4, <2>1 DEF Demand, AtStep, Quiet, Place
  <2>3. Accounts' /\ Chain'
    BY <2>1, <2>2, StartOpenKeeps
  <2> QED BY <2>2, <2>3 DEF StartOpen, TypeOK
<1>5. CASE OpenLayer
  BY <1>5, OpenLayerKeeps DEF OpenLayer, TypeOK
<1>6. CASE OpenReturns
  BY <1>6, OpenReturnsKeeps DEF OpenReturns, TypeOK
<1>7. ASSUME NEW e, Leave(e), UNCHANGED <<cfg, opened, owed, left>>, pc \in Quiet
      PROVE  /\ Accounts' /\ Chain'
             /\ opened' \in Seq(Domains) /\ pending' \in Seq(Domains) /\ got' \in Nat
             /\ owed' \in Counts /\ left' \in Counts
  BY <1>7, LeaveKeeps DEF TypeOK
<1>8. CASE TeeFails
  <2>1. CASE ~cfg.data /\ Leave(<<"tee">>)
    BY <1>7, <1>8, <2>1 DEF TeeFails, Quiet, Place
  <2>2. CASE pc' = "unshare" /\ UNCHANGED <<pending, got>>
    <3>1. /\ UNCHANGED setVars /\ cfg' = cfg /\ pc \in Quiet /\ pc' \in Quiet /\ pc \in Outer
      BY <1>8, <2>2 DEF TeeFails, Quiet, Place, Outer
    <3> QED BY <3>1, QuietKeeps DEF Chain, TypeOK
  <2> QED BY <1>8, <2>1, <2>2 DEF TeeFails
<1>9. CASE FilesFail \/ Save \/ SaveFails
  <2>1. \E e : Leave(e)
    BY <1>9 DEF FilesFail, Save, SaveFails
  <2> QED BY <1>7, <1>9, <2>1 DEF FilesFail, Save, SaveFails, Quiet, Place
<1>10. CASE PrimaryFails
  BY <1>10, ForsakeAndLeaveKeeps DEF PrimaryFails, TypeOK
<1>11. CASE Cancelled
  <2>1. CASE pc = "get" /\ Forsake
    BY <1>11, <2>1, ForsakeAndLeaveKeeps DEF Cancelled, TypeOK
  <2>2. CASE AtStep /\ UNCHANGED left
    BY <1>7, <1>11, <2>2 DEF Cancelled, AtStep, Quiet, Place
  <2> QED BY <1>11, <2>1, <2>2 DEF Cancelled
<1>12. CASE DemandFails
  BY <1>12, DemandFailsKeeps DEF DemandFails, TypeOK
<1>13. CASE CloseLayer
  BY <1>13, CloseLayerKeeps DEF CloseLayer, TypeOK
<1>14. CASE CloseNext
  BY <1>14, CloseNextKeeps DEF CloseNext, TypeOK
<1>15. CASE EndRow
  BY <1>15, EndRowKeeps DEF EndRow, TypeOK
<1> QED BY <1>1, <1>2, <1>3, <1>4, <1>5, <1>6, <1>8, <1>9, <1>10, <1>11, <1>12, <1>13,
           <1>14, <1>15 DEF Next

-----------------------------------------------------------------------------
(* The rows *)

\* The types of the variables that no session is about.
RowTypes ==
  /\ cfg \in Configs /\ pc \in Place
  /\ row \in Nat \ {0} /\ row - 1 \in 0..cfg.rows
  /\ step \in 1..Len(cfg.plan) + 1 /\ tries \in 0..MaxTries - 1
  /\ wants \in Domains
  /\ shared \in {"none", "open", "closed"} /\ tee \in 0..cfg.rows
  /\ exc \in Failures \cup {NoExc} /\ first \in Failures \cup {NoExc}
  /\ loggedIn \in BOOLEAN /\ saved \in BOOLEAN
  /\ collected \subseteq 1..cfg.rows

LEMMA PlacesAreFailures ==
  /\ \A p \in Place \cup {"runner"} : <<p>> \in Failures /\ <<p>> # NoExc
  /\ \A d \in Domains, x \in Resources : <<d, x>> \in Failures /\ <<d, x>> # NoExc
BY DEF Failures, NoExc

LEMMA LeaveTypes ==
  ASSUME TypeOK, NEW e \in Failures \cup {NoExc}, Leave(e)
  PROVE  /\ pc' \in Place /\ tee' \in {0, tee} /\ tee' \in 0..cfg.rows
         /\ exc' \in Failures \cup {NoExc} /\ first' \in Failures \cup {NoExc}
<1>1. cfg.rows \in Nat
  BY ConfigIsOne DEF TypeOK
<1> QED BY <1>1 DEF Leave, HandlerAfter, TypeOK, Place

LEMMA SettleTypes ==
  ASSUME TypeOK, step <= Len(cfg.plan), UNCHANGED cfg, TryAgain \/ Settle
  PROVE  /\ step' \in 1..Len(cfg'.plan) + 1 /\ tries' \in 0..MaxTries - 1
         /\ loggedIn' \in BOOLEAN /\ saved' \in BOOLEAN
<1>1. Len(cfg.plan) \in Nat /\ cfg.plan \in Seq(Request) /\ step \in 1..Len(cfg.plan)
  BY ConfigIsOne DEF TypeOK
<1>2. cfg.plan[step] \in Request
  BY <1>1, ElementOfSeq
<1>3. cfg.plan[step].login \in BOOLEAN
  BY <1>2 DEF Request
<1>4. loggedIn' \in BOOLEAN /\ saved' \in BOOLEAN
  BY <1>3 DEF Settle, TryAgain, TypeOK
<1>5. step' \in 1..Len(cfg'.plan) + 1
  BY <1>1 DEF Settle, TryAgain, TypeOK
<1>6. tries' \in 0..MaxTries - 1
  BY MaxTriesAssumption DEF Settle, TryAgain, TypeOK
<1> QED BY <1>4, <1>5, <1>6

LEMMA RowTypesKept ==
  ASSUME TypeOK, Chain, Rows, Next
  PROVE  RowTypes'
<1> USE DEF stepVars
<1>0. /\ RowTypes /\ cfg.rows \in Nat /\ cfg.primary \in Domains /\ Len(cfg.plan) \in Nat
      /\ 0 \in 0..MaxTries - 1
  BY ConfigIsOne, MaxTriesAssumption DEF RowTypes, TypeOK
<1>1. CASE Share
  BY <1>0, <1>1, PlacesAreFailures DEF Share, RowTypes, Place, setVars
<1>2. CASE Prepare
  BY <1>0, <1>2, PlacesAreFailures DEF Prepare, RowTypes, Place, setVars, Outside
<1>3. CASE Tee
  <2>1. tee' \in 0..cfg.rows
    BY <1>0, <1>3 DEF Tee, Rows, RowTypes
  <2> QED BY <1>0, <1>3, <2>1 DEF Tee, StartOpen, RowTypes, Place
<1>4. CASE TeeFails
  <2>1. <<"tee">> \in Failures \cup {NoExc}
    BY PlacesAreFailures DEF Place
  <2>2. CASE ~cfg.data /\ Leave(<<"tee">>)
    BY <1>0, <1>4, <2>1, <2>2, LeaveTypes DEF TeeFails, RowTypes
  <2>3. CASE pc' = "unshare" /\ exc' = <<"tee">> /\ UNCHANGED <<first, tee>>
    BY <1>0, <1>4, <2>1, <2>3 DEF TeeFails, RowTypes, Place
  <2> QED BY <1>4, <2>2, <2>3 DEF TeeFails
<1>5. CASE OpenLayer \/ OpenReturns
  BY <1>0, <1>5 DEF OpenLayer, OpenReturns, RowTypes, Place
<1>6. CASE PrimaryFails
  <2>1. <<"open">> \in Failures \cup {NoExc}
    BY PlacesAreFailures DEF Place
  <2> QED BY <1>0, <1>6, <2>1, LeaveTypes DEF PrimaryFails, RowTypes
<1>7. CASE Bind
  <2>1. loggedIn' \in BOOLEAN /\ saved' \in BOOLEAN
    BY <1>7 DEF Bind
  <2>2. step' \in 1..Len(cfg.plan) + 1 /\ tries' \in 0..MaxTries - 1
    BY <1>0, <1>7 DEF Bind
  <2> QED BY <1>0, <1>7, <2>1, <2>2 DEF Bind, RowTypes, Place, setVars
<1>8. CASE Demand
  BY <1>0, <1>8 DEF Demand, StartOpen, MustOpen, RowTypes, Place
<1>9. CASE Attempt
  BY <1>0, <1>9, SettleTypes DEF Attempt, AtStep, RowTypes, setVars
<1>10. CASE DemandFails
  BY <1>0, <1>10, SettleTypes DEF DemandFails, Chain, RowTypes, Place
<1>11. CASE Cancelled
  <2>1. <<"runner">> \in Failures \cup {NoExc}
    BY PlacesAreFailures
  <2> QED BY <1>0, <1>11, <2>1, LeaveTypes DEF Cancelled, RowTypes
<1>12. CASE StepsDone \/ Report
  BY <1>0, <1>12 DEF StepsDone, Report, RowTypes, Place, setVars
<1>13. CASE FilesFail
  <2>1. <<pc>> \in Failures \cup {NoExc}
    BY PlacesAreFailures DEF TypeOK
  <2> QED BY <1>0, <1>13, <2>1, LeaveTypes DEF FilesFail, RowTypes
<1>14. CASE Save
  <2>1. NoExc \in Failures \cup {NoExc} /\ row \in 1..cfg.rows
    BY <1>0, <1>14 DEF Save, Rows, RowTypes
  <2>2. saved' \in BOOLEAN
    <3>1. cfg.persists \in BOOLEAN
      BY <1>0, ConfigsAssumption DEF RowTypes, Config
    <3> QED BY <1>0, <1>14, <3>1 DEF Save, SavesSession, RowTypes
  <2> QED BY <1>0, <1>14, <2>1, <2>2, LeaveTypes DEF Save, RowTypes
<1>15. CASE SaveFails
  <2>1. <<"save">> \in Failures \cup {NoExc}
    BY PlacesAreFailures DEF Place
  <2> QED BY <1>0, <1>15, <2>1, LeaveTypes DEF SaveFails, RowTypes
<1>16. CASE CloseLayer
  <2>1. PICK d \in Domains, x \in Resources : d = Head(pending) /\ x = HandlesOf(d)[got]
    <3>1. /\ opened # <<>> /\ Last(opened) \in Domains
          /\ got \in 1..Len(LayersOf(Last(opened))) /\ Head(pending) = Last(opened)
      BY <1>16, CloseLayerReleases, ReversedOrder DEF Chain, CloseLayer, TypeOK
    <3> QED BY <3>1, LayersAreSequences DEF HandlesOf
  <2>2. <<d, x>> \in Failures
    BY PlacesAreFailures
  <2>3. exc' \in Failures \cup {NoExc} /\ first' \in Failures \cup {NoExc}
    BY <1>0, <1>16, <2>1, <2>2 DEF CloseLayer, RowTypes
  <2> QED BY <1>0, <1>16, <2>3, CloseLayerReleases DEF CloseLayer, RowTypes
<1>17. CASE CloseNext
  BY <1>0, <1>17 DEF CloseNext, RowTypes
<1>18. CASE EndRow
  <2>1. /\ row' \in Nat \ {0} /\ row' - 1 \in 0..cfg.rows
        /\ pc' \in {"prepare", "unshare", "ended"}
    BY <1>0, <1>18 DEF EndRow, AfterRow, Outside, RowTypes
  <2> QED BY <1>0, <1>18, <2>1 DEF EndRow, RowTypes, Place, setVars
<1>19. CASE Unshare
  BY <1>0, <1>19, PlacesAreFailures DEF Unshare, RowTypes, Place, setVars
<1> QED BY <1>1, <1>2, <1>3, <1>4, <1>5, <1>6, <1>7, <1>8, <1>9, <1>10, <1>11, <1>12, <1>13,
           <1>14, <1>15, <1>16, <1>17, <1>18, <1>19 DEF Next

\* An exception in flight stays one until the row it ended is over, and a row
\* that ended without one has been collected.
LEMMA RowsKept ==
  ASSUME TypeOK, Chain, Rows, Next
  PROVE  Rows'
<1> USE DEF RowsStayApart, SharedOutlivesRows, LogsStayApart, BetweenRows, Ran
<1>0. /\ cfg.rows \in Nat /\ cfg.data \in BOOLEAN /\ (~cfg.data => cfg.rows = 1)
      /\ row \in Nat \ {0} /\ row - 1 \in 0..cfg.rows /\ pc \in Place
      /\ shared \in {"none", "open", "closed"} /\ tee \in Nat
  BY ConfigIsOne DEF TypeOK
<1>1. CASE Share
  BY <1>0, <1>1, PlacesAreFailures DEF Share, Rows, Before, Outer, Place, setVars
<1>2. CASE Prepare
  BY <1>0, <1>2, PlacesAreFailures DEF Prepare, Rows, Before, Outer, Place, Outside
<1>3. CASE Tee \/ Demand
  BY <1>0, <1>3 DEF Tee, Demand, AtStep, StartOpen, Rows, Before, Outer
<1>4. ASSUME NEW e, Leave(e), UNCHANGED <<cfg, row, shared>>, pc \in Before \ {"share"},
             IF e = NoExc THEN collected' = collected \cup {row} ELSE UNCHANGED collected
      PROVE  Rows'
  <2>1. 1..row = 1..(row - 1) \cup {row}
    BY <1>0
  <2> QED BY <1>0, <1>4, <2>1 DEF Leave, HandlerAfter, Rows, Before, Outer
<1>5. CASE TeeFails
  <2>1. <<"tee">> # NoExc
    BY PlacesAreFailures DEF Place
  <2>2. CASE ~cfg.data /\ Leave(<<"tee">>)
    BY <1>4, <1>5, <2>1, <2>2 DEF TeeFails, Before
  <2>3. CASE cfg.data /\ pc' = "unshare" /\ exc' = <<"tee">> /\ UNCHANGED tee
    BY <1>0, <1>5, <2>1, <2>3 DEF TeeFails, Rows, Before, Outer
  <2> QED BY <1>5, <2>2, <2>3 DEF TeeFails
<1>6. CASE PrimaryFails \/ Cancelled
  <2>1. <<"open">> # NoExc /\ <<"runner">> # NoExc
    BY PlacesAreFailures DEF Place
  <2>2. pc \in Before \ {"share"} /\ UNCHANGED <<cfg, row, shared, collected>>
    BY <1>6 DEF PrimaryFails, Cancelled, AtStep, Before
  <2> QED BY <1>4, <1>6, <2>1, <2>2 DEF PrimaryFails, Cancelled
<1>7. CASE FilesFail
  <2>1. <<pc>> # NoExc
    BY <1>0, PlacesAreFailures
  <2> QED BY <1>4, <1>7, <2>1 DEF FilesFail, Before
<1>8. CASE Save
  BY <1>4, <1>8 DEF Save, Before
<1>9. CASE SaveFails
  <2>1. <<"save">> # NoExc
    BY PlacesAreFailures DEF Place
  <2> QED BY <1>4, <1>9, <2>1 DEF SaveFails, Before
<1>10. CASE OpenLayer \/ OpenReturns \/ Bind
  BY <1>0, <1>10 DEF OpenLayer, OpenReturns, Bind, Rows, Before, Outer
<1>11. CASE Attempt \/ DemandFails \/ StepsDone \/ Report
  BY <1>0, <1>11 DEF Attempt, AtStep, DemandFails, StepsDone, Report, Rows, Before, Outer
<1>12. CASE CloseLayer
  <2>1. UNCHANGED <<cfg, pc, row, tee, shared, collected>> /\ pc = "close"
    BY <1>12, CloseLayerReleases DEF CloseLayer
  <2>2. exc' = NoExc => exc = NoExc
    BY <1>12 DEF CloseLayer, NoExc
  <2> QED BY <2>1, <2>2 DEF Rows, Before, Outer
<1>13. CASE CloseNext
  BY <1>13 DEF CloseNext, Rows, Before, Outer
<1>14. CASE EndRow
  <2>1. CASE Ran /\ row < cfg.rows
    <3>1. /\ pc' = "prepare" /\ row' = row + 1 /\ exc' = NoExc /\ (row + 1) - 1 = row
          /\ tee' = (IF cfg.data THEN 0 ELSE tee) /\ UNCHANGED <<cfg, shared, collected>>
      BY <1>0, <1>14, <2>1 DEF EndRow, AfterRow
    <3> QED BY <1>0, <1>14, <2>1, <3>1 DEF EndRow, Rows, Before, Outer
  <2>2. CASE ~(Ran /\ row < cfg.rows)
    <3>1. /\ pc' = Outside /\ row' = row /\ exc' = exc
          /\ tee' = (IF cfg.data THEN 0 ELSE tee) /\ UNCHANGED <<cfg, shared, collected>>
      BY <1>0, <1>14, <2>2 DEF EndRow, AfterRow, Outside
    <3>2. Ran => row = cfg.rows
      BY <1>0, <1>14, <2>2 DEF EndRow, Rows
    <3> QED BY <1>0, <1>14, <3>1, <3>2 DEF EndRow, Outside, Rows, Before, Outer
  <2> QED BY <2>1, <2>2
<1>15. CASE Unshare
  BY <1>0, <1>15, PlacesAreFailures DEF Unshare, Rows, Before, Outer, Place
<1> QED BY <1>1, <1>2, <1>3, <1>5, <1>6, <1>7, <1>8, <1>9, <1>10, <1>11, <1>12, <1>13,
           <1>14, <1>15 DEF Next

-----------------------------------------------------------------------------
(* The theorems *)

LEMMA InvKept ==
  ASSUME IInv, [Next]_vars
  PROVE  IInv'
<1>1. CASE Next
  <2>1. RowTypes' /\ Rows'
    BY <1>1, RowTypesKept, RowsKept DEF IInv
  <2>2. /\ Accounts' /\ Chain'
        /\ opened' \in Seq(Domains) /\ pending' \in Seq(Domains) /\ got' \in Nat
        /\ owed' \in Counts /\ left' \in Counts
    BY <1>1, SessionsKept DEF IInv
  <2> QED BY <2>1, <2>2 DEF IInv, TypeOK, RowTypes
<1>2. CASE UNCHANGED vars
  <2>1. TypeOK'
    BY <1>2 DEF vars, stepVars, IInv, TypeOK
  <2>2. Accounts' /\ Chain'
    <3>1. /\ UNCHANGED <<cfg, pc, opened, owed, left, wants, got, pending, step>>
          /\ \A d \in Domains : LayersOf(d)' = LayersOf(d)
      BY <1>2 DEF vars, LayersOf
    <3>2. \A d \in Domains : HeldOf(d)' = HeldOf(d)
      BY <3>1 DEF HeldOf
    <3>3. LayersOf(Last(opened))' = LayersOf(Last(opened)) /\ LayersOf(wants)' = LayersOf(wants)
      BY <3>1 DEF LayersOf
    <3> QED BY <3>1, <3>2, <3>3, AccountsStay DEF IInv, Chain
  <2>3. Rows'
    BY <1>2 DEF vars, IInv, Rows, RowsStayApart, SharedOutlivesRows, LogsStayApart,
                BetweenRows, Ran
  <2> QED BY <2>1, <2>2, <2>3 DEF IInv
<1> QED BY <1>1, <1>2

LEMMA InvHolds == Spec => []IInv
<1>1. Init => IInv
  <2> SUFFICES ASSUME Init PROVE IInv
    OBVIOUS
  <2>1. /\ cfg \in Configs /\ cfg.rows \in Nat /\ cfg.primary \in Domains
        /\ cfg.data \in BOOLEAN /\ Len(cfg.plan) \in Nat /\ (~cfg.data => cfg.rows = 1)
    BY ConfigIsOne DEF Init
  <2>2. /\ opened = <<>> /\ opened \in Seq(Domains) /\ pending \in Seq(Domains)
        /\ Len(opened) = 0 /\ \A d : d \notin Range(opened)
    BY EmptySeq, LenProperties DEF Init, Range
  <2>3. TypeOK
    <3>1. loggedIn \in BOOLEAN /\ saved \in BOOLEAN
      BY DEF Init
    <3>2. owed \in Counts /\ left \in Counts
      BY DEF Init, Nothing, Counts
    <3> QED BY <2>1, <2>2, <3>1, <3>2, MaxTriesAssumption DEF Init, TypeOK, Place
  <2>4. Accounts
    <3>1. \A d \in Domains : HeldOf(d) = 0
      BY <2>2 DEF Init, HeldOf
    <3>2. \A d \in Domains, x \in Resources : ~Has(d, 0, x)
      BY DEF Has
    <3> QED BY <3>1, <3>2 DEF Init, Nothing, Accounts, One
  <2>5. Chain
    <3>1. IsInjective(opened)
      BY <2>2, LenProperties DEF IsInjective
    <3> QED BY <2>2, <3>1 DEF Init, Chain
  <2>6. Rows
    BY <2>1 DEF Init, Rows, Before, Outer, RowsStayApart, SharedOutlivesRows, LogsStayApart,
                BetweenRows, Ran
  <2> QED BY <2>3, <2>4, <2>5, <2>6 DEF IInv
<1>2. IInv /\ [Next]_vars => IInv'
  BY InvKept
<1> QED BY <1>1, <1>2, PTL DEF Spec

\* Every variable keeps its type: a step is attempted MaxTries times at most and
\* nothing is released more often than it was acquired, for all adapters.
THEOREM LifecycleTypeCorrect == Spec => []TypeOK
<1>1. IInv => TypeOK
  BY DEF IInv
<1> QED BY <1>1, InvHolds, PTL

\* Whatever opens fail and are tried again, and whatever closes raise: what a row
\* opened, it opened once, and has closed before the next row and before the end
\* (SessionSet.get, close_all, WebSession.open and close).
THEOREM EveryOpenIsClosed == Spec => []OpenedOnceAndClosed
<1>1. IInv => OpenedOnceAndClosed
  <2> SUFFICES ASSUME IInv PROVE OpenedOnceAndClosed
    OBVIOUS
  <2>1. OpenOnce
    <3> SUFFICES ASSUME NEW d \in Domains, NEW x \in Resources
                 PROVE  owed[d][x] <= left[d][x] + 1
      BY DEF OpenOnce
    <3>1. owed[d][x] \in Nat /\ left[d][x] \in Nat
      BY DEF IInv, TypeOK, Counts
    <3> QED BY <3>1 DEF IInv, Accounts, One
  <2>2. OpenedIsClosed
    <3> SUFFICES ASSUME BetweenRows
                 PROVE  opened = <<>> /\ owed = left
      BY DEF OpenedIsClosed
    <3>1. opened = <<>> /\ pc \notin {"open", "get", "close"}
      BY DEF BetweenRows, IInv, Chain, Outer
    <3>2. \A d \in Domains : HeldOf(d) = 0
      BY <3>1, EmptySeq, LenProperties DEF HeldOf, Range
    <3>3. \A d \in Domains, x \in Resources : owed[d][x] = left[d][x]
      <4>1. \A d \in Domains, x \in Resources : ~Has(d, 0, x)
        BY DEF Has
      <4>2. \A d \in Domains, x \in Resources : left[d][x] + One(FALSE) = left[d][x]
        BY DEF One, IInv, TypeOK, Counts
      <4> QED BY <3>2, <4>1, <4>2 DEF IInv, Accounts, One
    <3>4. \A d \in Domains : owed[d] = left[d]
      BY <3>3 DEF IInv, TypeOK, Counts
    <3> QED BY <3>1, <3>4 DEF IInv, TypeOK, Counts
  <2> QED BY <2>1, <2>2 DEF OpenedOnceAndClosed
<1> QED BY <1>1, InvHolds, PTL

\* For any number of rows: no row takes the shared browser from the next, or writes
\* into its log (run_data_rows, _tee_logs_to_run_file).
THEOREM RowsAreApart == Spec => []RowsStayApart
<1>1. IInv => RowsStayApart
  BY DEF IInv, Rows
<1> QED BY <1>1, InvHolds, PTL

\* For any number of rows: a run that ends without an exception has the results of
\* all of them (run_data_rows, close_all).
THEOREM AllRowsAreCollected == Spec => []NoRowIsLost
<1>1. IInv => NoRowIsLost
  BY DEF IInv, Rows, NoRowIsLost
<1> QED BY <1>1, InvHolds, PTL

\* For any number of sessions: nothing is released but by the newest session that
\* is still open (SessionSet.close_all).
THEOREM ClosedNewestFirst == Spec => NewestFirst
<1> DEFINE A == \A d \in Domains, x \in Resources :
                  owed'[d][x] < owed[d][x] => d = Last(opened)
<1>1. IInv /\ [Next]_vars => [A]_vars
  <2> SUFFICES ASSUME IInv, Next, NEW d \in Domains, NEW x \in Resources,
                      owed'[d][x] < owed[d][x]
               PROVE  d = Last(opened)
    OBVIOUS
  <2>1. owed[d][x] \in Nat
    BY DEF IInv, TypeOK, Counts
  <2>2. CASE OpenLayer
    <3>1. owed'[d][x] \in {owed[d][x], owed[d][x] + 1}
      BY <2>2 DEF OpenLayer, IInv, TypeOK, Counts
    <3> QED BY <2>1, <3>1
  <2>3. CASE CloseLayer
    <3>1. owed' = [owed EXCEPT ![Last(opened)][LayersOf(Last(opened))[got]] = @ - 1]
      BY <2>3, CloseLayerReleases DEF IInv
    <3>2. d # Last(opened) => owed'[d][x] = owed[d][x]
      BY <3>1 DEF IInv, TypeOK, Counts
    <3> QED BY <2>1, <3>2
  <2>4. CASE ~OpenLayer /\ ~CloseLayer
    <3>1. owed' = owed
      BY <2>4 DEF Next, Share, Prepare, Tee, TeeFails, OpenReturns, PrimaryFails, Bind, Demand,
                  Attempt, DemandFails, Cancelled, StepsDone, Report, FilesFail, Save, SaveFails,
                  CloseNext, EndRow, Unshare, StartOpen, setVars
    <3> QED BY <2>1, <3>1
  <2> QED BY <2>2, <2>3, <2>4
<1>2. Spec => [][A]_vars
  BY <1>1, InvHolds, PTL DEF Spec
<1> QED BY <1>2 DEF NewestFirst

=============================================================================
