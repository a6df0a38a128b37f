---------------------------- MODULE BillingProofs ----------------------------
(***************************************************************************)
(* Proofs about Billing, for any plans and limits, any number of           *)
(* subscriptions, days of a month and days between two invoices.           *)
(***************************************************************************)
EXTENDS Billing, FiniteSetTheorems, TLAPS

(***************************************************************************)
(* Sums.  SumFunctionOnSet is a CHOOSE of a recursive function: to know it *)
(* is to have a function that satisfies the recursion.                     *)
(***************************************************************************)
\* g has the sum of f over every subset of S.
AddsUp(g, f, S) ==
    /\ g[{}] = 0
    /\ \A s \in SUBSET S : \A x \in s : g[s] = f[x] + g[s \ {x}]

\* A function that adds up as a sum does is the sum.
LEMMA SumUnfolds ==
    ASSUME NEW f, NEW S, IsFiniteSet(S), NEW g, AddsUp(g, f, S)
    PROVE  SumFunctionOnSet(f, S) = g[S]
<1> DEFINE Solves(h) == h = [s \in SUBSET S |-> IF s = {} THEN 0
                                                ELSE LET x == CHOOSE x \in s : TRUE
                                                     IN  f[x] + h[s \ {x}]]
<1>1. SumFunctionOnSet(f, S) = (CHOOSE h : Solves(h))[S]
  BY DEF SumFunctionOnSet, FoldFunctionOnSet, MapThenFoldSet
<1>2. Solves(CHOOSE h : Solves(h))
  <2> DEFINE h == [s \in SUBSET S |-> g[s]]
  <2>1. ASSUME NEW s \in SUBSET S
        PROVE  h[s] = IF s = {} THEN 0
                      ELSE LET x == CHOOSE x \in s : TRUE IN f[x] + h[s \ {x}]
    BY DEF AddsUp
  <2>2. Solves(h)
    BY <2>1
  <2> QED
    BY <2>2
<1>3. ASSUME NEW h, Solves(h) PROVE h[S] = g[S]
  <2> DEFINE Differ == {s \in SUBSET S : h[s] # g[s]}
  <2>1. SUFFICES ASSUME Differ # {} PROVE FALSE
    OBVIOUS
  <2>2. PICK s \in Differ : \A t \in Differ : <<t, s>> \notin StrictSubsetOrdering(S)
    <3>1. Differ \subseteq FiniteSubsetsOf(S)
      BY FS_FiniteSubsetsOfFinite
    <3> HIDE DEF Differ
    <3> QED
      BY <2>1, <3>1, FS_StrictSubsetOrderingWellFounded, WFMin
  <2>3. s # {}
    BY <1>3 DEF AddsUp
  <2> DEFINE x == CHOOSE x \in s : TRUE
  <2>4. x \in s
    BY <2>3
  <2>5. s \ {x} \in SUBSET S /\ s \ {x} \subseteq s /\ s \ {x} # s /\ s \in SUBSET S
    BY <2>4
  <2>6. s \ {x} \notin Differ
    BY <2>2, <2>5 DEF StrictSubsetOrdering
  <2>7. h[s] = f[x] + h[s \ {x}]
    BY <1>3, <2>3, <2>5
  <2>8. g[s] = f[x] + g[s \ {x}]
    BY <2>4, <2>5 DEF AddsUp
  <2> QED
    BY <2>5, <2>6, <2>7, <2>8
<1> QED
  BY <1>1, <1>2, <1>3

\* The sum of numbers of which all but the one at e are zero.
LEMMA SumOfOne ==
    ASSUME NEW f, NEW S, IsFiniteSet(S), NEW e, f[e] \in Nat,
           \A d \in S : d # e => f[d] = 0
    PROVE  SumFunctionOnSet(f, S) = IF e \in S THEN f[e] ELSE 0
<1> DEFINE g == [s \in SUBSET S |-> IF e \in s THEN f[e] ELSE 0]
<1>1. AddsUp(g, f, S)
  BY DEF AddsUp
<1>2. g[S] = IF e \in S THEN f[e] ELSE 0
  OBVIOUS
<1> HIDE DEF g
<1> QED
  BY <1>1, <1>2, SumUnfolds

\* One of finitely many things has the greatest number.
LEMMA Greatest ==
    ASSUME NEW S, IsFiniteSet(S), S # {}, NEW f, \A s \in S : f[s] \in Nat
    PROVE  \E s \in S : \A t \in S : f[s] >= f[t]
<1> DEFINE Without == {s \in SUBSET S : s # {} /\ \A m \in s : \E t \in s : f[t] > f[m]}
<1>1. SUFFICES ASSUME Without # {} PROVE FALSE
  <2>1. S \notin Without
    BY <1>1
  <2> QED
    BY <2>1
<1>2. PICK s \in Without : \A t \in Without : <<t, s>> \notin StrictSubsetOrdering(S)
  <2>1. Without \subseteq FiniteSubsetsOf(S)
    BY FS_FiniteSubsetsOfFinite
  <2> HIDE DEF Without
  <2> QED
    BY <1>1, <2>1, FS_StrictSubsetOrderingWellFounded, WFMin
<1>3. PICK m \in s : TRUE
  OBVIOUS
<1> DEFINE Above == {t \in s : f[t] > f[m]}
<1>4. Above \in SUBSET S /\ Above \subseteq s /\ m \notin Above /\ s \in SUBSET S
  OBVIOUS
<1>5. Above # {}
  OBVIOUS
<1>6. ASSUME NEW n \in Above PROVE \E t \in Above : f[t] > f[n]
  <2>1. PICK t \in s : f[t] > f[n]
    OBVIOUS
  <2>2. f[t] \in Nat /\ f[n] \in Nat /\ f[m] \in Nat /\ f[n] > f[m]
    OBVIOUS
  <2>3. f[t] > f[m]
    BY <2>1, <2>2
  <2> QED
    BY <2>1, <2>3
<1>7. Above \in Without
  BY <1>4, <1>5, <1>6
<1>8. <<Above, s>> \in StrictSubsetOrdering(S)
  BY <1>3, <1>4 DEF StrictSubsetOrdering
<1> QED
  BY <1>2, <1>7, <1>8

-----------------------------------------------------------------------------
(***************************************************************************)
(* The invariant.                                                          *)
(***************************************************************************)
\* The monthly record has all that was served this month, and no later record of
\* the month any.
MonthInv ==
    \A d \in Days : d >= FirstOf(today) =>
        /\ record[d].token_retrievals = IF d = FirstOf(today) THEN served ELSE 0
        /\ ~record[d].there => record[d].token_retrievals = 0

Bought == {s \in Subscriptions : sub[s].status # "none"}

\* current_period_end is in the order of the last invoices, of what is not running
\* any more too, and never further away than a period.
PlanInv ==
    /\ \A s \in Subscriptions : sub[s].period_end <= today + Period
    /\ \A s, t \in Bought : s # t =>
          /\ sub[s].period_end # sub[t].period_end
          /\ <<s, t>> \in invoiced <=> sub[s].period_end < sub[t].period_end

-----------------------------------------------------------------------------
(***************************************************************************)
(* The calendar.                                                           *)
(***************************************************************************)
\* Division leaves one remainder.
LEMMA OneRemainder ==
    ASSUME NEW M \in Nat \ {0}, NEW q \in Int, NEW p \in Int,
           NEW r \in 0..(M - 1), NEW s \in 0..(M - 1),
           M * q + r = M * p + s
    PROVE  r = s
<1>1. M * (q - p) = s - r
  BY SMT
<1>2. CASE q > p
  <2>1. M * (q - p) >= M
    BY <1>2, SMT
  <2> QED
    BY <1>1, <2>1, SMT
<1>3. CASE q < p
  <2>1. M * (q - p) <= -M
    BY <1>3, SMT
  <2> QED
    BY <1>1, <2>1, SMT
<1> QED
  BY <1>1, <1>2, <1>3

\* A month starts no later than today, and the next day is in the same month or
\* starts one.
LEMMA Calendar ==
    ASSUME NEW d \in Nat
    PROVE  /\ FirstOf(d) \in 0..d
           /\ FirstOf(d + 1) = FirstOf(d) \/ FirstOf(d + 1) = d + 1
<1> DEFINE M == MonthLength
           q == d \div M
           p == (d + 1) \div M
           r == d % M
           s == (d + 1) % M
<1>1. M \in Nat \ {0} /\ q \in Int /\ p \in Int /\ r \in 0..(M - 1) /\ s \in 0..(M - 1)
  BY ConstantsAssumption
<1>2. \A n \in Nat : n % M = n - M * (n \div M)
  BY ConstantsAssumption
<1>3. r = d - M * q /\ s = (d + 1) - M * p
  BY <1>2
<1>4. FirstOf(d) = d - r /\ FirstOf(d + 1) = d + 1 - s
  BY ConstantsAssumption DEF FirstOf
<1>5. FirstOf(d) \in 0..d
  BY ConstantsAssumption DEF FirstOf
<1> HIDE DEF M, q, p, r, s
<1>6. CASE r + 1 = M
  <2>1. M * (q + 1) = M * q + M
    BY <1>1
  <2>2. M * (q + 1) + 0 = M * p + s
    BY <1>1, <1>3, <1>6, <2>1
  <2>3. 0 \in 0..(M - 1) /\ q + 1 \in Int
    BY <1>1
  <2>4. 0 = s
    BY <1>1, <2>2, <2>3, OneRemainder
  <2> QED
    BY <1>1, <1>4, <1>5, <2>4
<1>7. CASE r + 1 # M
  <2>1. M * q + (r + 1) = M * p + s
    BY <1>1, <1>3
  <2>2. r + 1 \in 0..(M - 1)
    BY <1>1, <1>7
  <2>3. r + 1 = s
    BY <1>1, <2>1, <2>2, OneRemainder
  <2> QED
    BY <1>1, <1>4, <1>5, <2>3
<1> QED
  BY <1>6, <1>7

-----------------------------------------------------------------------------
(***************************************************************************)
(* Every step preserves the types and the invariant.                       *)
(***************************************************************************)
\* One step preserves the types.
LEMMA TypePreserved == ASSUME TypeOK, [Next]_vars PROVE TypeOK'
<1> USE ConstantsAssumption DEF TypeOK
<1> DEFINE Rows    == [plan: Plans \cup {"free"},
                       status: {"none", "active", "past_due", "canceled"},
                       period_end: Nat]
           Records == [token_retrievals: Nat, connections_count: Nat, there: BOOLEAN]
<1>1. FirstOf(today) \in Days
  <2>1. today \in Nat /\ today <= MaxDay
    BY DEF Days
  <2>2. FirstOf(today) \in 0..today
    BY <2>1, Calendar
  <2> QED
    BY <2>1, <2>2 DEF Days
<1>10. ASSUME NEW r \in Records PROVE Counted(r) \in Records /\ Daily(r) \in Records
  <2>1. r.token_retrievals + 1 \in Nat /\ conns \in Nat
    OBVIOUS
  <2>2. Counted(r) \in Records
    BY <2>1 DEF Counted
  <2>3. Daily(r) \in Records
    BY <2>1 DEF Daily
  <2> QED
    BY <2>2, <2>3
<1>2. ASSUME NEW s \in Subscriptions, NEW plan \in Plans, Subscribe(s, plan) PROVE TypeOK'
  BY <1>2 DEF Subscribe, Invoiced, Days
<1>3. ASSUME NEW s \in Subscriptions, NEW paid \in BOOLEAN, Renew(s, paid) PROVE TypeOK'
  <2> DEFINE new == [sub[s] EXCEPT !.period_end = today + Period,
                                   !.status = IF paid THEN "active" ELSE "past_due"]
  <2>1. sub[s] \in Rows /\ today + Period \in Nat
    BY DEF Days
  <2>2. new \in Rows
    BY <2>1
  <2>3. sub' = [sub EXCEPT ![s] = new]
    BY <1>3 DEF Renew
  <2> HIDE DEF new
  <2> QED
    <3>1. sub' \in [Subscriptions -> Rows]
      BY <2>2, <2>3
    <3>2. invoiced' \subseteq Subscriptions \X Subscriptions
      BY <1>3 DEF Renew, Invoiced
    <3> QED
      BY <1>3, <3>1, <3>2 DEF Renew
<1>4. ASSUME NEW s \in Subscriptions, Recover(s) \/ Cancel(s) PROVE TypeOK'
  <2>1. PICK st \in {"active", "canceled"} : sub' = [sub EXCEPT ![s].status = st]
    BY <1>4 DEF Recover, Cancel
  <2> DEFINE new == [sub[s] EXCEPT !.status = st]
  <2>2. sub[s] \in Rows
    OBVIOUS
  <2>3. new \in Rows
    BY <2>2
  <2>4. sub' = [sub EXCEPT ![s] = new]
    BY <2>1
  <2> HIDE DEF new
  <2> QED
    BY <1>4, <2>3, <2>4 DEF Recover, Cancel
<1>5. CASE Retrieve
  <2> DEFINE new == Counted(record[FirstOf(today)])
  <2>1. record[FirstOf(today)] \in Records
    BY <1>1
  <2>2. new \in Records
    BY <1>10, <2>1
  <2>3. record' = [record EXCEPT ![FirstOf(today)] = new]
    BY <1>5 DEF Retrieve
  <2> HIDE DEF new
  <2> QED
    BY <1>1, <1>5, <2>2, <2>3 DEF Retrieve
<1>6. CASE Connect \/ Retire
  BY <1>6 DEF Connect, Retire
<1>7. CASE Aggregate
  <2> DEFINE new == Daily(record[today])
  <2>1. record[today] \in Records
    OBVIOUS
  <2>2. new \in Records
    BY <1>10, <2>1
  <2>3. record' = [record EXCEPT ![today] = new]
    BY <1>7 DEF Aggregate
  <2> HIDE DEF new
  <2> QED
    BY <1>7, <2>2, <2>3 DEF Aggregate
<1>8. CASE NextDay
  BY <1>8 DEF NextDay, Days
<1>9. CASE UNCHANGED vars
  BY <1>9 DEF vars
<1> QED
  BY <1>2, <1>3, <1>4, <1>5, <1>6, <1>7, <1>8, <1>9 DEF Next

\* The types hold in every reachable state.
THEOREM TypeCorrect == Spec => []TypeOK
<1>1. Init => TypeOK
  BY ConstantsAssumption DEF Init, TypeOK, NoSub, NoRecord, Days
<1> QED
  BY <1>1, TypePreserved, PTL DEF Spec

\* One step keeps the month's records.
LEMMA MonthPreserved == ASSUME TypeOK, MonthInv, [Next]_vars PROVE MonthInv'
<1>1. /\ FirstOf(today) \in Days /\ FirstOf(today) <= today /\ today \in Nat
      /\ FirstOf(today + 1) = FirstOf(today) \/ FirstOf(today + 1) = today + 1
      /\ FirstOf(today) \in Nat
  <2>1. today \in Nat /\ today <= MaxDay /\ MaxDay \in Nat
    BY ConstantsAssumption DEF TypeOK, Days
  <2>2. /\ FirstOf(today) \in 0..today
        /\ FirstOf(today + 1) = FirstOf(today) \/ FirstOf(today + 1) = today + 1
    BY <2>1, Calendar
  <2> QED
    BY <2>1, <2>2 DEF Days
<1>2. ASSUME UNCHANGED <<today, record, served>> PROVE MonthInv'
  BY <1>2 DEF MonthInv
<1>3. CASE Retrieve
  BY <1>1, <1>3 DEF Retrieve, Counted, MonthInv, TypeOK
<1>4. CASE Aggregate
  BY <1>1, <1>4 DEF Aggregate, Daily, MonthInv, TypeOK
<1>5. CASE NextDay
  BY <1>1, <1>5 DEF NextDay, MonthInv, Days
<1> QED
  BY <1>2, <1>3, <1>4, <1>5
     DEF Next, vars, Subscribe, Renew, Recover, Cancel, Connect, Retire

\* One step keeps the order of the periods.
LEMMA PlanPreserved == ASSUME TypeOK, PlanInv, [Next]_vars PROVE PlanInv'
<1>1. today \in Nat /\ Period \in Nat \ {0}
  BY ConstantsAssumption DEF TypeOK, Days
\* s gets an invoice: its period ends last.
<1>2. ASSUME NEW s \in Subscriptions, OwnInstant(s, today + Period), Invoiced(s),
             today' = today, sub'[s].period_end = today + Period, sub'[s].status # "none",
             \A t \in Subscriptions \ {s} : sub'[t] = sub[t]
      PROVE  PlanInv'
  <2>1. \A t \in Subscriptions : sub[t].period_end \in Nat
    BY DEF TypeOK
  <2>2. \A t \in Subscriptions : sub'[t].period_end <= today' + Period
    BY <1>1, <1>2 DEF PlanInv
  <2>3. \A t \in Subscriptions \ {s} : sub'[t].period_end < today + Period
    BY <1>1, <1>2, <2>1 DEF PlanInv, OwnInstant
  <2>4. \A t \in Subscriptions \ {s} : <<t, s>> \in invoiced' /\ <<s, t>> \notin invoiced'
    BY <1>2 DEF Invoiced
  <2>5. \A t, u \in Subscriptions \ {s} : <<t, u>> \in invoiced' <=> <<t, u>> \in invoiced
    BY <1>2 DEF Invoiced
  <2>6. \A t \in Bought' \ {s} : t \in Bought
    BY <1>2 DEF Bought
  <2>7. ASSUME NEW t \in Bought', NEW u \in Bought', t # u
        PROVE  /\ sub'[t].period_end # sub'[u].period_end
               /\ <<t, u>> \in invoiced' <=> sub'[t].period_end < sub'[u].period_end
    <3>1. t \in Subscriptions /\ u \in Subscriptions
      BY DEF Bought
    <3>2. CASE t = s
      <4>1. sub'[u].period_end < today + Period /\ sub'[s].period_end = today + Period
        BY <1>2, <2>3, <2>7, <3>1, <3>2
      <4>2. sub'[u].period_end \in Nat /\ today + Period \in Nat
        BY <1>1, <1>2, <2>1, <2>7, <3>1, <3>2
      <4>3. <<s, u>> \notin invoiced'
        BY <2>4, <2>7, <3>1, <3>2
      <4> QED
        BY <3>2, <4>1, <4>2, <4>3
    <3>3. CASE u = s
      <4>1. sub'[t].period_end < today + Period /\ sub'[s].period_end = today + Period
        BY <1>2, <2>3, <2>7, <3>1, <3>3
      <4>2. sub'[t].period_end \in Nat /\ today + Period \in Nat
        BY <1>1, <1>2, <2>1, <2>7, <3>1, <3>3
      <4>3. <<t, s>> \in invoiced'
        BY <2>4, <2>7, <3>1, <3>3
      <4> QED
        BY <3>3, <4>1, <4>2, <4>3
    <3>4. CASE t # s /\ u # s
      BY <1>2, <2>5, <2>6, <2>7, <3>1, <3>4 DEF PlanInv
    <3> QED
      BY <3>2, <3>3, <3>4
  <2> QED
    BY <2>2, <2>7 DEF PlanInv
<1>3. ASSUME NEW s \in Subscriptions, NEW plan \in Plans, Subscribe(s, plan) PROVE PlanInv'
  BY <1>2, <1>3 DEF Subscribe, TypeOK
<1>4. ASSUME NEW s \in Subscriptions, NEW paid \in BOOLEAN, Renew(s, paid) PROVE PlanInv'
  BY <1>2, <1>4 DEF Renew, TypeOK
<1>5. ASSUME NEW s \in Subscriptions, Recover(s) \/ Cancel(s) PROVE PlanInv'
  <2>1. s \in Bought
    BY <1>5 DEF Recover, Cancel, Running, Bought
  <2>2. \A t \in Subscriptions : sub'[t].period_end = sub[t].period_end
    BY <1>5 DEF Recover, Cancel, TypeOK
  <2>3. Bought' = Bought /\ today' = today /\ invoiced' = invoiced
    BY <1>5, <2>1 DEF Recover, Cancel, Bought, TypeOK
  <2> QED
    BY <2>2, <2>3 DEF PlanInv, Bought
<1>6. CASE NextDay
  <2>1. \A s \in Subscriptions : sub[s].period_end \in Nat
    BY DEF TypeOK
  <2> QED
    BY <1>1, <1>6, <2>1 DEF NextDay, PlanInv, Bought
<1>7. ASSUME UNCHANGED <<today, sub, invoiced>> PROVE PlanInv'
  BY <1>7 DEF PlanInv, Bought
<1> QED
  BY <1>3, <1>4, <1>5, <1>6, <1>7 DEF Next, vars, Retrieve, Connect, Retire, Aggregate

\* The invariant holds in every reachable state.
LEMMA BillingInductive == Spec => [](TypeOK /\ MonthInv /\ PlanInv)
<1>1. Init => MonthInv /\ PlanInv
  <2> SUFFICES ASSUME Init PROVE MonthInv /\ PlanInv
    OBVIOUS
  <2>1. MonthInv
    BY DEF Init, MonthInv, NoRecord
  <2>2. PlanInv
    BY ConstantsAssumption DEF Init, PlanInv, Bought, NoSub
  <2> QED
    BY <2>1, <2>2
<1>2. TypeOK /\ MonthInv /\ [Next]_vars => MonthInv'
  BY MonthPreserved
<1>3. TypeOK /\ PlanInv /\ [Next]_vars => PlanInv'
  BY PlanPreserved
<1> QED
  BY <1>1, <1>2, <1>3, TypeCorrect, PTL DEF Spec

-----------------------------------------------------------------------------
(***************************************************************************)
(* What the invariant says of the sum and of the plan.                     *)
(***************************************************************************)
\* Of the month's records only the first has retrievals.
LEMMA SumIsServed == ASSUME TypeOK, MonthInv PROVE MonthIsExact
<1> DEFINE first == FirstOf(today)
           f     == [d \in Days |-> record[d]["token_retrievals"]]
<1>1. first \in Days /\ today \in Nat
  <2>1. today \in Nat /\ today <= MaxDay /\ MaxDay \in Nat
    BY ConstantsAssumption DEF TypeOK, Days
  <2>2. first \in 0..today
    BY <2>1, Calendar
  <2> QED
    BY <2>1, <2>2 DEF Days
<1>2. IsFiniteSet(ThisMonth) /\ ThisMonth \subseteq Days
  <2>1. IsFiniteSet(Days)
    BY FS_Interval, ConstantsAssumption DEF Days
  <2>2. ThisMonth \subseteq Days
    BY DEF ThisMonth
  <2> QED
    BY <2>1, <2>2, FS_Subset
<1>3. f[first] = served /\ served \in Nat
  BY <1>1 DEF MonthInv, Days, TypeOK
<1>4. \A d \in ThisMonth : d # first => f[d] = 0
  BY <1>1, <1>2 DEF ThisMonth, MonthInv, Days
<1>5. first \notin ThisMonth => served = 0
  BY <1>1 DEF ThisMonth, MonthInv, Days
<1>6. Total("token_retrievals") = SumFunctionOnSet(f, ThisMonth)
  BY DEF Total
<1> HIDE DEF f, first
<1>7. SumFunctionOnSet(f, ThisMonth) = IF first \in ThisMonth THEN f[first] ELSE 0
  BY <1>2, <1>3, <1>4, SumOfOne
<1> QED
  BY <1>3, <1>5, <1>6, <1>7 DEF MonthIsExact

\* A user with a running subscription has the one that ends last, which is the one
\* invoiced last.
LEMMA LatestIsInvoicedLast ==
    ASSUME TypeOK, PlanInv PROVE PlanIsInvoicedLast /\ PlanName \in Plans \cup {"free"}
<1>1. CASE Running = {}
  BY <1>1 DEF PlanIsInvoicedLast, PlanName
<1>2. CASE Running # {}
  <2> DEFINE end == [s \in Subscriptions |-> sub[s].period_end]
  <2>1. Running \subseteq Subscriptions /\ Running \subseteq Bought
    BY DEF Running, Bought
  <2>2. IsFiniteSet(Running)
    BY <2>1, ConstantsAssumption, FS_Subset
  <2>3. \A s \in Running : end[s] = sub[s].period_end /\ end[s] \in Nat
    BY <2>1 DEF TypeOK
  <2>4. \E s \in Running : \A t \in Running : end[s] >= end[t]
    <3> HIDE DEF end
    <3> QED
      BY <1>2, <2>2, <2>3, Greatest
  <2>5. \E s \in Running : \A t \in Running : sub[s].period_end >= sub[t].period_end
    BY <2>3, <2>4
  <2> DEFINE s == ActiveSubscription
  <2>6. s \in Running /\ \A t \in Running : sub[s].period_end >= sub[t].period_end
    BY <2>5 DEF ActiveSubscription
  <2> HIDE DEF s
  <2>7. \A t \in Running \ {s} : <<t, s>> \in invoiced
    <3> SUFFICES ASSUME NEW t \in Running \ {s} PROVE <<t, s>> \in invoiced
      OBVIOUS
    <3>1. sub[s].period_end # sub[t].period_end
      BY <2>1, <2>6 DEF PlanInv
    <3>2. sub[t].period_end \in Nat /\ sub[s].period_end \in Nat
      BY <2>1, <2>6 DEF TypeOK
    <3>3. sub[s].period_end >= sub[t].period_end
      BY <2>6
    <3>4. sub[t].period_end < sub[s].period_end
      BY <3>1, <3>2, <3>3
    <3> QED
      BY <2>1, <2>6, <3>4 DEF PlanInv
  <2>8. PlanName = sub[s].plan
    BY <1>2 DEF PlanName, s
  <2>9. sub[s].plan \in Plans \cup {"free"}
    BY <2>1, <2>6 DEF TypeOK
  <2> QED
    BY <1>2, <2>6, <2>7, <2>8, <2>9 DEF PlanIsInvoicedLast
<1> QED
  BY <1>1, <1>2

-----------------------------------------------------------------------------
\* The sum that is held against the limit is what was served this month, however
\* the daily job and the retrievals take turns.
THEOREM MonthExact == Spec => []MonthIsExact
BY BillingInductive, SumIsServed, PTL

\* The plan in force is the one invoiced last of those that run, whatever is
\* bought, renewed, unpaid or canceled in between.
THEOREM PlanInvoicedLast == Spec => []PlanIsInvoicedLast
BY BillingInductive, LatestIsInvoicedLast, PTL

\* A limit of five or more is never reached without "approaching" before it, as
\* long as the plan stays; and "reached" is what the checks refuse by.
THEOREM WarnsFirst == Spec => WarnedFirst
<1> DEFINE Inv == TypeOK /\ MonthInv /\ PlanInv
\* A count that rises by one past both thresholds has a limit below five.
<1>1. ASSUME NEW count \in Nat, NEW next \in Nat, next <= count + 1, NEW max \in Nat,
             Warning(count, max) = "none", next >= max
      PROVE  max < 5
  <2>1. count < max /\ 10 * count < 8 * max
    BY <1>1 DEF Warning
  <2> QED
    BY <1>1, <2>1
<1>2. ASSUME NEW count \in Nat, NEW max \in Nat
      PROVE  (Warning(count, max) = "reached") = (count >= max)
  BY <1>2 DEF Warning
<1>3. ASSUME Inv, Inv', [Next]_vars
      PROVE  /\ (Usage.retrieval_warning = "reached") = RetrievalRefused
             /\ (Usage.connection_warning = "reached") = ConnectionRefused
             /\ Usage.retrieval_warning = "none" /\ RetrievalRefused' =>
                   PlanName' # PlanName \/ LimitOf("token_retrievals") < 5
             /\ Usage.connection_warning = "none" /\ ConnectionRefused' =>
                   PlanName' # PlanName \/ LimitOf("connections") < 5
  <2> DEFINE total == Total("token_retrievals")
  <2>1. total = served /\ total' = served' /\ served \in Nat /\ served' \in Nat
    <3>1. MonthIsExact
      BY <1>3, SumIsServed
    <3>2. MonthIsExact'
      BY <1>3, SumIsServed, PTL
    <3> QED
      BY <1>3, <3>1, <3>2 DEF MonthIsExact, TypeOK
  <2>2. served' <= served + 1 /\ conns' <= conns + 1 /\ conns \in Nat /\ conns' \in Nat
    <3>1. conns \in Nat /\ conns' \in Nat
      BY <1>3, ConstantsAssumption DEF TypeOK
    <3>2. served' \in {served, served + 1, 0}
      BY <1>3 DEF Next, vars, Subscribe, Renew, Recover, Cancel, Retrieve, Connect,
                  Retire, Aggregate, NextDay
    <3>3. conns' \in {conns, conns + 1, conns - 1}
      BY <1>3 DEF Next, vars, Subscribe, Renew, Recover, Cancel, Retrieve, Connect,
                  Retire, Aggregate, NextDay
    <3> QED
      BY <2>1, <3>1, <3>2, <3>3
  <2>3. PlanName \in Plans \cup {"free"}
    BY <1>3, LatestIsInvoicedLast
  <2>4. LimitOf("token_retrievals") \in Nat /\ LimitOf("connections") \in Nat
    BY <2>3, ConstantsAssumption DEF LimitOf
  <2>5. PlanName' = PlanName => /\ LimitOf("token_retrievals")' = LimitOf("token_retrievals")
                               /\ LimitOf("connections")' = LimitOf("connections")
    BY DEF LimitOf
  <2>6. /\ Usage.retrieval_warning = Warning(total, LimitOf("token_retrievals"))
        /\ Usage.connection_warning = Warning(conns, LimitOf("connections"))
    BY DEF Usage
  <2>7. /\ RetrievalRefused = (total >= LimitOf("token_retrievals"))
        /\ ConnectionRefused = (conns >= LimitOf("connections"))
        /\ RetrievalRefused' = (total' >= LimitOf("token_retrievals")')
        /\ ConnectionRefused' = (conns' >= LimitOf("connections")')
    BY DEF RetrievalRefused, ConnectionRefused
  <2> HIDE DEF total
  <2>8. /\ (Usage.retrieval_warning = "reached") = RetrievalRefused
        /\ (Usage.connection_warning = "reached") = ConnectionRefused
    BY <1>2, <2>1, <2>2, <2>4, <2>6, <2>7
  <2>9. ASSUME Usage.retrieval_warning = "none", RetrievalRefused', PlanName' = PlanName
        PROVE  LimitOf("token_retrievals") < 5
    BY <1>1, <2>1, <2>2, <2>4, <2>5, <2>6, <2>7, <2>9
  <2>10. ASSUME Usage.connection_warning = "none", ConnectionRefused', PlanName' = PlanName
         PROVE  LimitOf("connections") < 5
    BY <1>1, <2>2, <2>4, <2>5, <2>6, <2>7, <2>10
  <2> QED
    BY <2>8, <2>9, <2>10
<1> QED
  BY <1>3, BillingInductive, PTL DEF Spec, WarnedFirst

=============================================================================
