--------------------------- MODULE MeteringProofs ---------------------------
(***************************************************************************)
(* Proofs about Metering, for any number of projects, requests and         *)
(* retrievals and any limit: what the counts are worth, and how far the    *)
(* limit is overrun.                                                       *)
(***************************************************************************)
EXTENDS Metering, FiniteSetTheorems, TLAPS

(***************************************************************************)
(* Sums.  SumFunctionOnSet is a CHOOSE of a recursive function: to know it *)
(* is to have a function that satisfies the recursion.                     *)
(***************************************************************************)
\* g has the sum of f over every subset of S.
AddsUp(g, f, S) ==
    /\ g[{}] = 0
    /\ \A s \in SUBSET S : \A x \in s : g[s] = f[x] + g[s \ {x}]

\* A function that adds up as a sum does is the sum.
LEMMA SumUnfolds ==
    ASSUME NEW f, NEW S, IsFiniteSet(S), NEW g, AddsUp(g, f, S)
    PROVE  SumFunctionOnSet(f, S) = g[S]
<1> DEFINE Solves(h) == h = [s \in SUBSET S |-> IF s = {} THEN 0
                                                ELSE LET x == CHOOSE x \in s : TRUE
                                                     IN  f[x] + h[s \ {x}]]
<1>1. SumFunctionOnSet(f, S) = (CHOOSE h : Solves(h))[S]
  BY DEF SumFunctionOnSet, FoldFunctionOnSet, MapThenFoldSet
<1>2. Solves(CHOOSE h : Solves(h))
  <2> DEFINE h == [s \in SUBSET S |-> g[s]]
  <2>1. ASSUME NEW s \in SUBSET S
        PROVE  h[s] = IF s = {} THEN 0
                      ELSE LET x == CHOOSE x \in s : TRUE IN f[x] + h[s \ {x}]
    BY DEF AddsUp
  <2>2. Solves(h)
    BY <2>1
  <2> QED
    BY <2>2
<1>3. ASSUME NEW h, Solves(h) PROVE h[S] = g[S]
  <2> DEFINE Differ == {s \in SUBSET S : h[s] # g[s]}
  <2>1. SUFFICES ASSUME Differ # {} PROVE FALSE
    OBVIOUS
  <2>2. PICK s \in Differ : \A t \in Differ : <<t, s>> \notin StrictSubsetOrdering(S)
    <3>1. Differ \subseteq FiniteSubsetsOf(S)
      BY FS_FiniteSubsetsOfFinite
    <3> HIDE DEF Differ
    <3> QED
      BY <2>1, <3>1, FS_StrictSubsetOrderingWellFounded, WFMin
  <2>3. s # {}
    BY <1>3 DEF AddsUp
  <2> DEFINE x == CHOOSE x \in s : TRUE
  <2>4. x \in s
    BY <2>3
  <2>5. s \ {x} \in SUBSET S /\ s \ {x} \subseteq s /\ s \ {x} # s /\ s \in SUBSET S
    BY <2>4
  <2>6. s \ {x} \notin Differ
    BY <2>2, <2>5 DEF StrictSubsetOrdering
  <2>7. h[s] = f[x] + h[s \ {x}]
    BY <1>3, <2>3, <2>5
  <2>8. g[s] = f[x] + g[s \ {x}]
    BY <2>4, <2>5 DEF AddsUp
  <2> QED
    BY <2>5, <2>6, <2>7, <2>8
<1> QED
  BY <1>1, <1>2, <1>3

\* Pairs of a thing and a number: as many as the numbers of all things add up to.
Units(f, S) == {u \in S \X Nat : u[2] \in 1..f[u[1]]}

\* One thing has as many pairs as its number.
LEMMA UnitsOfOne ==
    ASSUME NEW f, NEW x, f[x] \in Nat
    PROVE  IsFiniteSet({x} \X (1..f[x])) /\ Cardinality({x} \X (1..f[x])) = f[x]
<1>1. IsFiniteSet({x}) /\ Cardinality({x}) = 1
  BY FS_Singleton
<1>2. IsFiniteSet(1..f[x]) /\ Cardinality(1..f[x]) = f[x]
  BY FS_Interval
<1>3. /\ IsFiniteSet({x} \X (1..f[x]))
      /\ Cardinality({x} \X (1..f[x])) = Cardinality({x}) * Cardinality(1..f[x])
  BY <1>1, <1>2, FS_Product
<1>4. 1 * f[x] = f[x]
  OBVIOUS
<1> QED
  BY <1>1, <1>2, <1>3, <1>4

\* The pairs of finitely many things are finitely many.
LEMMA UnitsFinite ==
    ASSUME NEW f, NEW S, IsFiniteSet(S), \A x \in S : f[x] \in Nat
    PROVE  IsFiniteSet(Units(f, S))
<1> DEFINE of == [x \in S |-> {x} \X (1..f[x])]
           all == {of[x] : x \in S}
<1>1. IsFiniteSet(all)
  <2>1. of \in Surjection(S, all)
    BY DEF Surjection
  <2> QED
    BY <2>1, FS_Surjection
<1>2. \A T \in all : IsFiniteSet(T)
  BY UnitsOfOne
<1>3. Units(f, S) = UNION all
  BY DEF Units
<1> QED
  BY <1>1, <1>2, <1>3, FS_UNION

\* A sum of natural numbers counts their pairs.
LEMMA SumCounts ==
    ASSUME NEW f, NEW S, IsFiniteSet(S), \A x \in S : f[x] \in Nat
    PROVE  SumFunctionOnSet(f, S) = Cardinality(Units(f, S))
<1> DEFINE g == [s \in SUBSET S |-> Cardinality(Units(f, s))]
<1>1. g[{}] = 0
  <2>1. Units(f, {}) = {}
    BY DEF Units
  <2> QED
    BY <2>1, FS_EmptySet
<1>2. ASSUME NEW s \in SUBSET S, NEW x \in s PROVE g[s] = f[x] + g[s \ {x}]
  <2> DEFINE one == {x} \X (1..f[x])
             others == Units(f, s \ {x})
  <2>1. IsFiniteSet(one) /\ Cardinality(one) = f[x]
    BY UnitsOfOne
  <2>2. IsFiniteSet(others)
    <3>1. IsFiniteSet(s \ {x})
      BY FS_Subset
    <3> QED
      BY <3>1, UnitsFinite
  <2>3. Units(f, s) = one \cup others
    BY DEF Units
  <2>4. one \cap others = {}
    BY DEF Units
  <2>5. Cardinality(others) \in Nat
    BY <2>2, FS_CardinalityType
  <2> HIDE DEF one, others
  <2>6. Cardinality(one \cup others) = f[x] + Cardinality(others)
    BY <2>1, <2>2, <2>4, <2>5, FS_Union, FS_EmptySet
  <2> QED
    BY <2>3, <2>6 DEF others
<1>3. AddsUp(g, f, S)
  BY <1>1, <1>2 DEF AddsUp
<1>4. g[S] = Cardinality(Units(f, S))
  OBVIOUS
<1> HIDE DEF g
<1> QED
  BY <1>3, <1>4, SumUnfolds

\* The sum over some is no more than the sum over all.
LEMMA SumOfSome ==
    ASSUME NEW f, NEW S, IsFiniteSet(S), \A x \in S : f[x] \in Nat, NEW T \in SUBSET S
    PROVE  /\ SumFunctionOnSet(f, T) <= SumFunctionOnSet(f, S)
           /\ SumFunctionOnSet(f, T) \in Nat /\ SumFunctionOnSet(f, S) \in Nat
<1>1. IsFiniteSet(T)
  BY FS_Subset
<1>2. IsFiniteSet(Units(f, S)) /\ IsFiniteSet(Units(f, T))
  BY <1>1, UnitsFinite
<1>3. Units(f, T) \in SUBSET Units(f, S)
  BY DEF Units
<1> QED
  BY <1>1, <1>2, <1>3, SumCounts, FS_Subset, FS_CardinalityType

\* A number that rises by one makes the sum rise by one, if it is added.
LEMMA SumRises ==
    ASSUME NEW f, NEW g, NEW S, IsFiniteSet(S), \A x \in S : f[x] \in Nat,
           NEW e, \A x \in S : g[x] = IF x = e THEN f[x] + 1 ELSE f[x]
    PROVE  SumFunctionOnSet(g, S) = SumFunctionOnSet(f, S) + (IF e \in S THEN 1 ELSE 0)
<1>1. \A x \in S : g[x] \in Nat
  OBVIOUS
<1>2. IsFiniteSet(Units(f, S))
  BY UnitsFinite
<1>3. CASE e \in S
  <2>1. Units(g, S) = Units(f, S) \cup {<<e, f[e] + 1>>}
    BY <1>3 DEF Units
  <2>2. <<e, f[e] + 1>> \notin Units(f, S)
    BY <1>3 DEF Units
  <2>3. Cardinality(Units(g, S)) = Cardinality(Units(f, S)) + 1
    BY <1>2, <2>1, <2>2, FS_AddElement
  <2> QED
    BY <1>1, <1>3, <2>3, SumCounts
<1>4. CASE e \notin S
  <2>1. Units(g, S) = Units(f, S)
    BY <1>4 DEF Units
  <2>2. Cardinality(Units(f, S)) \in Nat
    BY <1>2, FS_CardinalityType
  <2> QED
    BY <1>1, <1>4, <2>1, <2>2, SumCounts
<1> QED
  BY <1>3, <1>4

-----------------------------------------------------------------------------
(***************************************************************************)
(* The inductive invariant.                                                *)
(***************************************************************************)
\* A request has a key from the moment it found one, ...
KeysFit ==
    \A r \in Requests : req[r].phase # "idle" => req[r].key \in Keys

\* ... from the moment it has locked it no other request has it locked, ...
KeysAreLocked ==
    \A r, q \in Requests :
        /\ req[r].phase \notin {"idle", "found"} /\ req[q].phase \notin {"idle", "found"}
        /\ req[r].key = req[q].key
        => r = q

\* ... and the row it has written is locked by it.
RowsAreLocked ==
    \A r \in Requests : req[r].phase = "written" => holder[ProjectOf(r)] = r

\* What a request has read of a project was served.
SeenWasServed ==
    \A r \in Requests :
        req[r].phase \in {"counted", "written"} => req[r].seen <= served[ProjectOf(r)]

\* Of a project with one key, what a request has read is what there is, but that the
\* daily job may add the record before the request has it locked.
SeenIsThere ==
    \A r \in Requests :
        ProjectOf(r) \notin TwoKeys =>
            /\ req[r].phase = "counted" =>
                  \/ req[r].seen = usage[ProjectOf(r)]
                  \/ req[r].seen = Missing /\ usage[ProjectOf(r)] = 0
            /\ req[r].phase = "written" => req[r].seen = usage[ProjectOf(r)]

MeteringInv ==
    /\ TypeOK
    /\ KeysFit /\ KeysAreLocked /\ RowsAreLocked
    /\ SeenWasServed /\ SeenIsThere
    /\ NeverOvercounted /\ OneKeyIsExact

LEMMA MeteringInit == Init => MeteringInv
<1> SUFFICES ASSUME Init PROVE MeteringInv
  OBVIOUS
<1> USE DEF Init, Idle, NoOwner, NoKey, Missing
<1>1. TypeOK
  <2>1. key \in [Keys -> {"absent", "live", "revoked"}] /\ active \subseteq Projects
    OBVIOUS
  <2>2. owner \in [phase: {"idle", "found", "locked"}, key: Keys \cup {NoKey}]
    OBVIOUS
  <2>3. /\ usage \in [Projects -> Nat \cup {Missing}] /\ served \in [Projects -> Nat]
        /\ holder \in [Projects -> Requests \cup {Worker, Nobody}]
    OBVIOUS
  <2>4. req \in [Requests -> [phase: Phases, key: Keys \cup {NoKey},
                              seen: Nat \cup {Missing}]]
    BY DEF Phases
  <2>5. job \in [phase: {"none", "reading", "inserting", "done", "failed"},
                 todo: SUBSET Projects, seen: Projects \cup {0}]
    OBVIOUS
  <2> QED
    BY <2>1, <2>2, <2>3, <2>4, <2>5 DEF TypeOK
<1>2. KeysFit /\ KeysAreLocked /\ RowsAreLocked /\ SeenWasServed /\ SeenIsThere
  BY DEF KeysFit, KeysAreLocked, RowsAreLocked, SeenWasServed, SeenIsThere
<1>3. NeverOvercounted /\ OneKeyIsExact
  BY DEF NeverOvercounted, OneKeyIsExact, OneKey, Count
<1> QED
  BY <1>1, <1>2, <1>3 DEF MeteringInv

\* The only key of a project with one key.
LEMMA OnlyKey ==
    ASSUME NEW k \in Keys, NEW l \in Keys, k[1] = l[1], k[1] \notin TwoKeys
    PROVE  k = l
BY DEF Keys

-----------------------------------------------------------------------------
(***************************************************************************)
(* The steps of requests.                                                  *)
(***************************************************************************)
\* The types of what a request changes.
LEMMA RequestTypes ==
    ASSUME TypeOK, NEW r \in Requests, UNCHANGED <<access, job>>,
           req' \in [Requests -> [phase: Phases, key: Keys \cup {NoKey}, seen: Nat \cup {Missing}]],
           usage' \in [Projects -> Nat \cup {Missing}],
           holder' \in [Projects -> Requests \cup {Worker, Nobody}],
           served' \in [Projects -> Nat]
    PROVE  TypeOK'
BY DEF TypeOK, access

\* A project is one of a key.
LEMMA ProjectIsOne ==
    ASSUME NEW k \in Keys
    PROVE  k[1] \in Projects
BY ConstantsAssumption DEF Keys

LEMMA FindKeyFits ==
    ASSUME MeteringInv, NEW r \in Requests, NEW k \in Keys, FindKey(r, k)
    PROVE  MeteringInv'
<1> USE DEF MeteringInv, FindKey
<1>1. TypeOK'
  BY DEF TypeOK, access, Idle, Phases
<1>2. KeysFit' /\ KeysAreLocked' /\ RowsAreLocked'
  BY DEF TypeOK, KeysFit, KeysAreLocked, RowsAreLocked, ProjectOf, Idle
<1>3. SeenWasServed' /\ SeenIsThere'
  BY DEF TypeOK, SeenWasServed, SeenIsThere, ProjectOf, Idle
<1>4. NeverOvercounted' /\ OneKeyIsExact'
  BY DEF NeverOvercounted, OneKeyIsExact, OneKey, Count
<1> QED
  BY <1>1, <1>2, <1>3, <1>4

LEMMA LockKeyFits ==
    ASSUME MeteringInv, NEW r \in Requests, LockKey(r)
    PROVE  MeteringInv'
<1> USE DEF MeteringInv, LockKey
<1>1. TypeOK'
  BY DEF TypeOK, access, Phases
<1>2. KeysFit' /\ RowsAreLocked'
  BY DEF TypeOK, KeysFit, RowsAreLocked, ProjectOf
<1>3. KeysAreLocked'
  <2>1. \A q \in Requests : req[q].key = req[r].key => req[q].phase = "found"
    BY DEF KeyIsFree
  <2> QED
    BY <2>1 DEF TypeOK, KeysAreLocked
<1>4. SeenWasServed' /\ SeenIsThere'
  BY DEF TypeOK, SeenWasServed, SeenIsThere, ProjectOf
<1>5. NeverOvercounted' /\ OneKeyIsExact'
  BY DEF NeverOvercounted, OneKeyIsExact, OneKey, Count
<1> QED
  BY <1>1, <1>2, <1>3, <1>4, <1>5

LEMMA CheckFits ==
    ASSUME MeteringInv, NEW r \in Requests, CheckRetrievalLimit(r)
    PROVE  MeteringInv'
<1> USE DEF MeteringInv, CheckRetrievalLimit
<1>1. TypeOK'
  BY DEF TypeOK, access, Phases
<1>2. KeysFit' /\ KeysAreLocked' /\ RowsAreLocked'
  BY DEF TypeOK, KeysFit, KeysAreLocked, RowsAreLocked, ProjectOf
<1>3. SeenWasServed' /\ SeenIsThere'
  BY DEF TypeOK, SeenWasServed, SeenIsThere, ProjectOf
<1>4. NeverOvercounted' /\ OneKeyIsExact'
  BY DEF NeverOvercounted, OneKeyIsExact, OneKey, Count
<1> QED
  BY <1>1, <1>2, <1>3, <1>4

LEMMA ReadUsageFits ==
    ASSUME MeteringInv, NEW r \in Requests, ReadUsage(r)
    PROVE  MeteringInv'
<1> USE DEF MeteringInv, ReadUsage
<1>1. ProjectOf(r) \in Projects /\ ProjectOf(r)' = ProjectOf(r)
  BY ProjectIsOne DEF KeysFit, ProjectOf, TypeOK
<1>2. TypeOK'
  <2>1. usage[ProjectOf(r)] \in Nat \cup {Missing}
    BY <1>1 DEF TypeOK
  <2>2. [req[r] EXCEPT !.phase = "counted", !.seen = usage[ProjectOf(r)]]
            \in [phase: Phases, key: Keys \cup {NoKey}, seen: Nat \cup {Missing}]
    BY <2>1 DEF TypeOK, Phases
  <2>3. req' = [req EXCEPT ![r] = [req[r] EXCEPT !.phase = "counted",
                                                 !.seen = usage[ProjectOf(r)]]]
    BY DEF TypeOK
  <2> QED
    BY <2>2, <2>3, RequestTypes DEF TypeOK, access
<1>3. KeysFit' /\ KeysAreLocked' /\ RowsAreLocked'
  BY DEF TypeOK, KeysFit, KeysAreLocked, RowsAreLocked, ProjectOf
<1>4. usage[ProjectOf(r)] <= served[ProjectOf(r)]
  BY <1>1 DEF NeverOvercounted, Count, Missing, TypeOK
<1>5. SeenWasServed'
  BY <1>1, <1>4 DEF TypeOK, SeenWasServed, ProjectOf
<1>6. SeenIsThere'
  BY <1>1 DEF TypeOK, SeenIsThere, ProjectOf
<1>7. NeverOvercounted' /\ OneKeyIsExact'
  BY DEF NeverOvercounted, OneKeyIsExact, OneKey, Count
<1> QED
  BY <1>2, <1>3, <1>5, <1>6, <1>7

LEMMA WriteUsageFits ==
    ASSUME MeteringInv, NEW r \in Requests, WriteUsage(r)
    PROVE  MeteringInv'
<1> USE DEF MeteringInv, WriteUsage
<1>1. ProjectOf(r) \in Projects /\ ProjectOf(r)' = ProjectOf(r)
  BY ProjectIsOne DEF KeysFit, ProjectOf, TypeOK
<1>2. TypeOK'
  BY <1>1 DEF TypeOK, access, Phases
<1>3. KeysFit' /\ KeysAreLocked'
  BY DEF TypeOK, KeysFit, KeysAreLocked
<1>4. RowsAreLocked'
  BY <1>1, ConstantsAssumption DEF TypeOK, RowsAreLocked, ProjectOf
<1>5. SeenWasServed'
  BY DEF TypeOK, SeenWasServed, ProjectOf
<1>6. SeenIsThere'
  BY DEF TypeOK, SeenIsThere, ProjectOf
<1>7. NeverOvercounted' /\ OneKeyIsExact'
  BY DEF NeverOvercounted, OneKeyIsExact, OneKey, Count
<1> QED
  BY <1>2, <1>3, <1>4, <1>5, <1>6, <1>7

LEMMA CommitFits ==
    ASSUME MeteringInv, NEW r \in Requests, Commit(r)
    PROVE  MeteringInv'
<1> USE DEF MeteringInv, Commit, EndRequest
<1> DEFINE pr == ProjectOf(r)
<1>1. pr \in Projects /\ req[r].seen \in Nat \cup {Missing} /\ served[pr] \in Nat
  BY ProjectIsOne DEF KeysFit, ProjectOf, TypeOK
<1>2. Written(r) \in Nat /\ Written(r) <= served[pr] + 1
  BY <1>1 DEF Written, SeenWasServed, Missing
<1>3. TypeOK'
  <2>1. req' \in [Requests -> [phase: Phases, key: Keys \cup {NoKey}, seen: Nat \cup {Missing}]]
    BY DEF TypeOK, Idle, Phases
  <2>2. /\ usage' \in [Projects -> Nat \cup {Missing}]
        /\ served' \in [Projects -> Nat]
        /\ holder' \in [Projects -> Requests \cup {Worker, Nobody}]
    BY <1>1, <1>2 DEF TypeOK
  <2> QED
    BY <2>1, <2>2, RequestTypes
<1>4. \A q \in Requests : q # r => req'[q] = req[q] /\ ProjectOf(q)' = ProjectOf(q)
  BY DEF TypeOK, ProjectOf
<1>5. req'[r] = Idle
  BY DEF TypeOK
<1>6. KeysFit' /\ KeysAreLocked'
  BY <1>4, <1>5 DEF KeysFit, KeysAreLocked, Idle
<1>7. RowsAreLocked'
  BY <1>4, <1>5, ProjectIsOne DEF RowsAreLocked, Idle, KeysFit, ProjectOf
<1>8. \A p \in Projects : p # pr => usage'[p] = usage[p] /\ served'[p] = served[p]
  BY <1>1 DEF TypeOK
<1>9. usage'[pr] = Written(r) /\ served'[pr] = served[pr] + 1
  BY <1>1 DEF TypeOK
<1>10. SeenWasServed'
  <2> SUFFICES ASSUME NEW q \in Requests, req'[q].phase \in {"counted", "written"}
               PROVE  req'[q].seen <= served'[ProjectOf(q)']
    BY DEF SeenWasServed
  <2>1. q # r
    BY <1>5 DEF Idle
  <2>2. ProjectOf(q) \in Projects /\ req[q].seen \in Nat \cup {Missing}
    BY <1>4, <2>1, ProjectIsOne DEF KeysFit, ProjectOf, TypeOK
  <2>3. req[q].seen <= served[ProjectOf(q)] /\ served[ProjectOf(q)] \in Nat
    BY <1>4, <2>1, <2>2 DEF SeenWasServed, TypeOK
  <2> QED
    BY <1>4, <1>8, <1>9, <2>1, <2>2, <2>3 DEF Missing
<1>11. SeenIsThere'
  <2> SUFFICES ASSUME NEW q \in Requests, ProjectOf(q)' \notin TwoKeys,
                      req'[q].phase \in {"counted", "written"}
               PROVE  /\ req'[q].phase = "counted" =>
                            \/ req'[q].seen = usage'[ProjectOf(q)']
                            \/ req'[q].seen = Missing /\ usage'[ProjectOf(q)'] = 0
                      /\ req'[q].phase = "written" => req'[q].seen = usage'[ProjectOf(q)']
    BY DEF SeenIsThere
  <2>1. q # r /\ req'[q] = req[q] /\ ProjectOf(q)' = ProjectOf(q)
    BY <1>4, <1>5 DEF Idle
  <2>2. ProjectOf(q) \in Projects /\ req[q].key \in Keys /\ req[r].key \in Keys
    BY <2>1, ProjectIsOne DEF KeysFit, ProjectOf
  <2>3. ProjectOf(q) # pr
    BY <2>1, <2>2, OnlyKey DEF ProjectOf, KeysAreLocked
  <2> QED
    BY <1>8, <2>1, <2>2, <2>3 DEF SeenIsThere
<1>12. NeverOvercounted'
  BY <1>1, <1>2, <1>8, <1>9 DEF NeverOvercounted, Count, Missing
<1>13. OneKeyIsExact'
  <2>1. pr \notin TwoKeys => Written(r) = Count(pr) + 1
    BY <1>1 DEF SeenIsThere, Written, Count, Missing
  <2> QED
    BY <1>1, <1>2, <1>8, <1>9, <2>1 DEF OneKeyIsExact, OneKey, Count, Missing
<1> QED
  BY <1>3, <1>6, <1>7, <1>10, <1>11, <1>12, <1>13

LEMMA AbortFits ==
    ASSUME MeteringInv, NEW r \in Requests, Abort(r)
    PROVE  MeteringInv'
<1> USE DEF MeteringInv, Abort, EndRequest
<1>1. TypeOK'
  <2>1. req' \in [Requests -> [phase: Phases, key: Keys \cup {NoKey}, seen: Nat \cup {Missing}]]
    BY DEF TypeOK, Idle, Phases
  <2>2. holder' \in [Projects -> Requests \cup {Worker, Nobody}]
    BY DEF TypeOK
  <2> QED
    BY <2>1, <2>2, RequestTypes DEF TypeOK
<1>2. \A q \in Requests : q # r => req'[q] = req[q] /\ ProjectOf(q)' = ProjectOf(q)
  BY DEF TypeOK, ProjectOf
<1>3. req'[r] = Idle
  BY DEF TypeOK
<1>4. KeysFit' /\ KeysAreLocked'
  BY <1>2, <1>3 DEF KeysFit, KeysAreLocked, Idle
<1>5. RowsAreLocked'
  BY <1>2, <1>3, ProjectIsOne DEF RowsAreLocked, Idle, KeysFit, ProjectOf
<1>6. SeenWasServed' /\ SeenIsThere'
  BY <1>2, <1>3 DEF SeenWasServed, SeenIsThere, Idle
<1>7. NeverOvercounted' /\ OneKeyIsExact'
  BY DEF NeverOvercounted, OneKeyIsExact, OneKey, Count
<1> QED
  BY <1>1, <1>4, <1>5, <1>6, <1>7

-----------------------------------------------------------------------------
(***************************************************************************)
(* The steps of the daily job and of the owner.                            *)
(***************************************************************************)
\* The job takes no row from a request and adds only records of 0.
LEMMA JobFits ==
    ASSUME MeteringInv, TypeOK', UNCHANGED <<req, served>>,
           \A p \in Projects : holder[p] \in Requests => holder'[p] = holder[p],
           \A p \in Projects :
              \/ usage'[p] = usage[p]
              \/ usage[p] = Missing /\ usage'[p] = 0 /\ holder[p] \notin Requests
    PROVE  MeteringInv'
<1> USE DEF MeteringInv
<1>1. \A r \in Requests : req[r].phase # "idle" => ProjectOf(r) \in Projects
  BY ProjectIsOne DEF KeysFit, ProjectOf
<1>2. \A r \in Requests : ProjectOf(r)' = ProjectOf(r)
  BY DEF ProjectOf
<1>3. KeysFit' /\ KeysAreLocked'
  BY DEF KeysFit, KeysAreLocked
<1>4. RowsAreLocked'
  BY <1>1, <1>2 DEF RowsAreLocked
<1>5. SeenWasServed'
  BY <1>2 DEF SeenWasServed
<1>6. SeenIsThere'
  BY <1>1, <1>2 DEF SeenIsThere, RowsAreLocked
<1>7. \A p \in Projects : Count(p)' = Count(p)
  BY DEF Count, Missing
<1>8. NeverOvercounted' /\ OneKeyIsExact'
  BY <1>7 DEF NeverOvercounted, OneKeyIsExact, OneKey
<1> QED
  BY <1>3, <1>4, <1>5, <1>6, <1>8

LEMMA JobStepFits ==
    ASSUME MeteringInv, StartJob \/ JobStep
    PROVE  MeteringInv'
<1> USE DEF MeteringInv
<1>1. CASE StartJob
  <2>1. TypeOK'
    BY <1>1 DEF StartJob, TypeOK, access
  <2> QED
    BY <1>1, <2>1, JobFits DEF StartJob
<1>2. ASSUME NEW p \in Projects, UpdateDaily(p) PROVE MeteringInv'
  <2> USE <1>2 DEF UpdateDaily
  <2>1. TypeOK'
    BY DEF TypeOK, access
  <2>2. \A q \in Projects : holder[q] \in Requests => holder'[q] = holder[q]
    BY ConstantsAssumption DEF TypeOK
  <2> QED
    BY <2>1, <2>2, JobFits
<1>3. ASSUME NEW p \in Projects, MissDaily(p) PROVE MeteringInv'
  <2> USE <1>3 DEF MissDaily
  <2>1. TypeOK'
    BY DEF TypeOK, access
  <2> QED
    BY <2>1, JobFits
<1>4. CASE InsertDaily
  <2> USE <1>4 DEF InsertDaily
  <2>1. TypeOK'
    BY DEF TypeOK, access
  <2>2. \A q \in Projects : holder[q] \in Requests => holder'[q] = holder[q]
    BY ConstantsAssumption DEF TypeOK
  <2> QED
    BY <2>1, <2>2, JobFits
<1>5. CASE CommitJob
  <2> USE <1>5 DEF CommitJob, EndJob, Mine
  <2>1. TypeOK'
    BY DEF TypeOK, access
  <2>2. \A q \in Projects : holder[q] \in Requests => holder[q] # Worker
    BY ConstantsAssumption DEF Worker
  <2> QED
    BY <2>1, <2>2, JobFits
<1>6. CASE FailJob
  <2> USE <1>6 DEF FailJob, EndJob, Mine
  <2>1. TypeOK'
    BY DEF TypeOK, access
  <2>2. \A q \in Projects : holder[q] \in Requests => holder[q] # Worker
    BY ConstantsAssumption DEF Worker
  <2> QED
    BY <2>1, <2>2, JobFits
<1> QED
  BY <1>1, <1>2, <1>3, <1>4, <1>5, <1>6 DEF JobStep

\* The owner changes keys and projects only.
LEMMA OwnerFits ==
    ASSUME MeteringInv, TypeOK', UNCHANGED metering
    PROVE  MeteringInv'
BY JobFits DEF MeteringInv, metering

LEMMA MeteringNext == MeteringInv /\ [Next]_vars => MeteringInv'
<1> SUFFICES ASSUME MeteringInv, [Next]_vars PROVE MeteringInv'
  OBVIOUS
<1> USE DEF MeteringInv
<1>1. ASSUME NEW r \in Requests,
             (\E k \in Keys : FindKey(r, k)) \/ RequestStep(r) \/ Abort(r)
      PROVE  MeteringInv'
  BY <1>1, FindKeyFits, LockKeyFits, CheckFits, ReadUsageFits, WriteUsageFits, CommitFits,
     AbortFits DEF RequestStep
<1>2. CASE StartJob \/ JobStep
  BY <1>2, JobStepFits
<1>3. ASSUME NEW k \in Keys, CreateKey(k) \/ FindRevoked(k) PROVE MeteringInv'
  <2>1. UNCHANGED metering
    BY <1>3 DEF CreateKey, FindRevoked
  <2>2. key' \in [Keys -> {"absent", "live", "revoked"}] /\ active' = active
    BY <1>3 DEF CreateKey, FindRevoked, TypeOK
  <2>3. owner' \in [phase: {"idle", "found", "locked"}, key: Keys \cup {NoKey}]
    BY <1>3 DEF CreateKey, FindRevoked, TypeOK
  <2>4. TypeOK'
    BY <2>1, <2>2, <2>3 DEF TypeOK, metering
  <2> QED
    BY <2>1, <2>4, OwnerFits
<1>4. CASE RevokeStep \/ AbortRevoked
  <2>1. UNCHANGED metering
    BY <1>4 DEF RevokeStep, LockRevoked, CommitRevoked, AbortRevoked
  <2>2. key' \in [Keys -> {"absent", "live", "revoked"}] /\ active' = active
    BY <1>4 DEF RevokeStep, LockRevoked, CommitRevoked, AbortRevoked, TypeOK
  <2>3. owner' \in [phase: {"idle", "found", "locked"}, key: Keys \cup {NoKey}]
    BY <1>4 DEF RevokeStep, LockRevoked, CommitRevoked, AbortRevoked, TypeOK, NoOwner
  <2>4. TypeOK'
    BY <2>1, <2>2, <2>3 DEF TypeOK, metering
  <2> QED
    BY <2>1, <2>4, OwnerFits
<1>5. ASSUME NEW p \in Projects, DeleteProject(p) PROVE MeteringInv'
  <2>1. TypeOK'
    BY <1>5 DEF DeleteProject, metering, TypeOK
  <2> QED
    BY <1>5, <2>1, OwnerFits DEF DeleteProject
<1>6. CASE UNCHANGED vars
  <2>1. TypeOK' /\ UNCHANGED metering
    BY <1>6 DEF vars, access, metering, TypeOK
  <2> QED
    BY <2>1, OwnerFits
<1> QED
  BY <1>1, <1>2, <1>3, <1>4, <1>5, <1>6 DEF Next

-----------------------------------------------------------------------------
(***************************************************************************)
(* How far the limit is overrun.                                           *)
(***************************************************************************)
\* The requests past the limit of projects with one key.
AdmittedOfOneKey == {r \in Admitted : ProjectOf(r) \in OneKey}

\* They are fewer than, or as many as, the projects: each has a project to itself.
LEMMA AdmittedFew ==
    ASSUME MeteringInv
    PROVE  /\ IsFiniteSet(AdmittedOfOneKey) /\ IsFiniteSet(OneKey)
           /\ Cardinality(AdmittedOfOneKey) \in Nat /\ Cardinality(OneKey) \in Nat
           /\ Cardinality(AdmittedOfOneKey) <= Cardinality(OneKey)
<1> DEFINE of == [r \in AdmittedOfOneKey |-> ProjectOf(r)]
<1>1. IsFiniteSet(OneKey)
  BY ConstantsAssumption, FS_Difference DEF OneKey
<1>2. ASSUME NEW r \in AdmittedOfOneKey, NEW q \in AdmittedOfOneKey,
             ProjectOf(r) = ProjectOf(q)
      PROVE  r = q
  <2>1. /\ r \in Requests /\ q \in Requests
        /\ req[r].phase \in {"admitted", "counted", "written"}
        /\ req[q].phase \in {"admitted", "counted", "written"}
        /\ ProjectOf(r) \notin TwoKeys
    BY DEF AdmittedOfOneKey, Admitted, OneKey
  <2>2. req[r].key \in Keys /\ req[q].key \in Keys
    BY <2>1 DEF MeteringInv, KeysFit
  <2>3. req[r].key = req[q].key
    BY <1>2, <2>1, <2>2, OnlyKey DEF ProjectOf
  <2> QED
    BY <2>1, <2>3 DEF MeteringInv, KeysAreLocked
<1>3. of \in Injection(AdmittedOfOneKey, OneKey)
  BY <1>2 DEF AdmittedOfOneKey, Injection, IsInjective
<1> HIDE DEF of
<1> QED
  BY <1>1, <1>3, FS_Injection, FS_CardinalityType

\* A step that admits nobody of a project with one key and charges it nothing.
LEMMA NothingCharged ==
    ASSUME MeteringInv, OverrunIsBounded, AdmittedOfOneKey' \subseteq AdmittedOfOneKey,
           \A p \in OneKey : Count(p)' = Count(p)
    PROVE  OverrunIsBounded'
<1> DEFINE f == [p \in Projects |-> Count(p)]
           g == [p \in Projects |-> Count(p)']
<1>1. IsFiniteSet(OneKey) /\ OneKey \subseteq Projects
  BY AdmittedFew DEF OneKey
<1>2. \A p \in OneKey : f[p] \in Nat /\ g[p] = f[p]
  BY <1>1 DEF MeteringInv, TypeOK, Count
<1>3. Charged(OneKey) = SumFunctionOnSet(f, OneKey) /\ Charged(OneKey)' = SumFunctionOnSet(g, OneKey)
  BY DEF Charged
<1> HIDE DEF f, g
<1>4. Charged(OneKey)' = Charged(OneKey) /\ Charged(OneKey) \in Nat
  <2>1. Units(g, OneKey) = Units(f, OneKey)
    BY <1>2 DEF Units
  <2> QED
    BY <1>1, <1>2, <1>3, <2>1, SumCounts, SumOfSome
<1>5. Cardinality(AdmittedOfOneKey') <= Cardinality(AdmittedOfOneKey)
  BY AdmittedFew, FS_Subset
<1>6. Cardinality(AdmittedOfOneKey') \in Nat
  BY AdmittedFew, FS_Subset, FS_CardinalityType
<1> QED
  BY <1>4, <1>5, <1>6, AdmittedFew, ConstantsAssumption DEF OverrunIsBounded, AdmittedOfOneKey, OneKey

\* The check lets one more request pass, but of the counts of all projects.
LEMMA CheckOverrun ==
    ASSUME MeteringInv, MeteringInv', NEW r \in Requests, CheckRetrievalLimit(r)
    PROVE  OverrunIsBounded'
<1> DEFINE f == [p \in Projects |-> Count(p)]
<1>1. IsFiniteSet(Projects) /\ OneKey \in SUBSET Projects
  BY ConstantsAssumption DEF OneKey
<1>2. \A p \in Projects : f[p] \in Nat
  BY DEF MeteringInv, TypeOK, Count
<1>3. Charged(OneKey) = SumFunctionOnSet(f, OneKey) /\ Total = SumFunctionOnSet(f, Projects)
  BY DEF Charged, Total
<1> HIDE DEF f
<1>4. Charged(OneKey) <= Total /\ Charged(OneKey) \in Nat /\ Total \in Nat
  BY <1>1, <1>2, <1>3, SumOfSome
<1>5. Charged(OneKey)' = Charged(OneKey)
  BY DEF CheckRetrievalLimit, Charged, Count
<1>6. Total <= Limit - 1 /\ Limit \in Nat
  BY <1>4, ConstantsAssumption DEF CheckRetrievalLimit
<1>7. /\ Cardinality(AdmittedOfOneKey)' \in Nat /\ Cardinality(OneKey) \in Nat
      /\ Cardinality(AdmittedOfOneKey)' <= Cardinality(OneKey)
  <2>1. OneKey' = OneKey
    BY DEF OneKey
  <2>2. (/\ IsFiniteSet(AdmittedOfOneKey) /\ IsFiniteSet(OneKey)
         /\ Cardinality(AdmittedOfOneKey) \in Nat /\ Cardinality(OneKey) \in Nat
         /\ Cardinality(AdmittedOfOneKey) <= Cardinality(OneKey))'
    BY AdmittedFew, PTL
  <2> QED
    BY <2>1, <2>2
<1>8. OneKey' = OneKey
  BY DEF OneKey
<1> QED
  BY <1>4, <1>5, <1>6, <1>7, <1>8 DEF OverrunIsBounded, AdmittedOfOneKey

\* A commit charges what the limit has let pass.
LEMMA CommitOverrun ==
    ASSUME MeteringInv, MeteringInv', OverrunIsBounded, NEW r \in Requests, Commit(r)
    PROVE  OverrunIsBounded'
<1> DEFINE pr == ProjectOf(r)
           f == [p \in Projects |-> Count(p)]
           g == [p \in Projects |-> Count(p)']
<1>1. pr \in Projects /\ req[r].phase = "written"
  BY ProjectIsOne DEF MeteringInv, KeysFit, ProjectOf, Commit
<1>2. /\ \A q \in Requests : q # r => req'[q] = req[q] /\ ProjectOf(q)' = ProjectOf(q)
      /\ req'[r] = Idle
  BY DEF MeteringInv, TypeOK, ProjectOf, Commit, EndRequest
<1>3. /\ r \notin AdmittedOfOneKey' /\ AdmittedOfOneKey' = AdmittedOfOneKey \ {r}
      /\ r \in AdmittedOfOneKey <=> pr \in OneKey
  BY <1>1, <1>2 DEF AdmittedOfOneKey, Admitted, Idle, OneKey
<1>4. \A p \in Projects : p # pr => Count(p)' = Count(p) /\ served'[p] = served[p]
  BY <1>1 DEF MeteringInv, TypeOK, Commit, Count
<1>5. served'[pr] = served[pr] + 1
  BY <1>1 DEF MeteringInv, TypeOK, Commit
<1>6. CASE pr \notin OneKey
  BY <1>3, <1>4, <1>6, NothingCharged DEF OneKey
<1>7. CASE pr \in OneKey
  <2>1. IsFiniteSet(OneKey) /\ OneKey \subseteq Projects
    BY AdmittedFew DEF OneKey
  <2>2. \A p \in OneKey : Count(p) = served[p] /\ Count(p)' = served'[p] /\ served[p] \in Nat
    BY <2>1 DEF MeteringInv, OneKeyIsExact, OneKey, TypeOK
  <2>3. \A p \in OneKey : f[p] \in Nat /\ g[p] = IF p = pr THEN f[p] + 1 ELSE f[p]
    BY <1>4, <1>5, <2>1, <2>2
  <2>4. /\ Charged(OneKey) = SumFunctionOnSet(f, OneKey)
        /\ Charged(OneKey)' = SumFunctionOnSet(g, OneKey)
    BY DEF Charged
  <2> HIDE DEF f, g
  <2>5. Charged(OneKey)' = Charged(OneKey) + 1 /\ Charged(OneKey) \in Nat
    BY <1>7, <2>1, <2>3, <2>4, SumRises, SumOfSome
  <2>6. Cardinality(AdmittedOfOneKey') = Cardinality(AdmittedOfOneKey) - 1
    BY <1>3, <1>7, AdmittedFew, FS_RemoveElement
  <2> QED
    BY <2>5, <2>6, AdmittedFew, ConstantsAssumption
       DEF OverrunIsBounded, AdmittedOfOneKey, OneKey
<1> QED
  BY <1>6, <1>7

LEMMA OverrunNext ==
    ASSUME MeteringInv, MeteringInv', OverrunIsBounded, [Next]_vars
    PROVE  OverrunIsBounded'
<1> USE DEF MeteringInv
\* Steps that let no request pass the limit, and change no count.
<1>1. ASSUME UNCHANGED usage,
             \A q \in Requests : \/ req'[q] = req[q]
                                \/ req'[q].phase \in {"idle", "found", "started"}
                                \/ /\ req[q].phase \in {"admitted", "counted", "written"}
                                   /\ req'[q].key = req[q].key
      PROVE  OverrunIsBounded'
  <2>1. AdmittedOfOneKey' \subseteq AdmittedOfOneKey
    BY <1>1 DEF AdmittedOfOneKey, Admitted, ProjectOf, OneKey
  <2> QED
    BY <1>1, <2>1, NothingCharged DEF Count
<1>2. ASSUME NEW r \in Requests, NEW k \in Keys, FindKey(r, k) PROVE OverrunIsBounded'
  BY <1>1, <1>2 DEF FindKey, TypeOK, Idle
<1>3. ASSUME NEW r \in Requests, LockKey(r) \/ ReadUsage(r) \/ WriteUsage(r) \/ Abort(r)
      PROVE  OverrunIsBounded'
  BY <1>1, <1>3 DEF LockKey, ReadUsage, WriteUsage, Abort, EndRequest, TypeOK, Idle
<1>4. ASSUME NEW r \in Requests, CheckRetrievalLimit(r) PROVE OverrunIsBounded'
  BY <1>4, CheckOverrun
<1>5. ASSUME NEW r \in Requests, Commit(r) PROVE OverrunIsBounded'
  BY <1>5, CommitOverrun
<1>6. CASE CommitJob
  <2>1. AdmittedOfOneKey' = AdmittedOfOneKey
    BY <1>6 DEF CommitJob, EndJob, AdmittedOfOneKey, Admitted, ProjectOf, OneKey
  <2>2. \A p \in OneKey : Count(p)' = Count(p)
    BY <1>6 DEF CommitJob, Count, Missing, OneKey
  <2> QED
    BY <2>1, <2>2, NothingCharged
<1>7. ASSUME UNCHANGED <<usage, req>> PROVE OverrunIsBounded'
  BY <1>1, <1>7
<1>8. CASE UNCHANGED metering \/ UNCHANGED vars
  BY <1>7, <1>8 DEF metering, vars
<1>9. ASSUME NEW p \in Projects, UpdateDaily(p) \/ MissDaily(p) PROVE OverrunIsBounded'
  BY <1>7, <1>9 DEF UpdateDaily, MissDaily
<1>10. CASE StartJob \/ InsertDaily \/ FailJob
  BY <1>7, <1>10 DEF StartJob, InsertDaily, FailJob, EndJob
<1>11. ASSUME NEW k \in Keys, CreateKey(k) \/ FindRevoked(k) PROVE OverrunIsBounded'
  BY <1>8, <1>11 DEF CreateKey, FindRevoked
<1>12. CASE RevokeStep \/ AbortRevoked
  BY <1>8, <1>12 DEF RevokeStep, LockRevoked, CommitRevoked, AbortRevoked
<1>13. ASSUME NEW p \in Projects, DeleteProject(p) PROVE OverrunIsBounded'
  BY <1>8, <1>13 DEF DeleteProject
<1> QED
  BY <1>2, <1>3, <1>4, <1>5, <1>6, <1>8, <1>9, <1>10, <1>11, <1>12, <1>13
     DEF Next, RequestStep, JobStep

LEMMA OverrunInit == ASSUME Init, MeteringInv PROVE OverrunIsBounded
<1> DEFINE f == [p \in Projects |-> Count(p)]
<1>1. AdmittedOfOneKey = {}
  BY DEF Init, AdmittedOfOneKey, Admitted, Idle
<1>2. Units(f, OneKey) = {}
  BY DEF Init, Units, Count, OneKey
<1>3. \A p \in OneKey : f[p] \in Nat
  BY DEF Init, Count, OneKey
<1>4. Charged(OneKey) = SumFunctionOnSet(f, OneKey)
  BY DEF Charged
<1> HIDE DEF f
<1>5. Charged(OneKey) = 0
  BY <1>2, <1>3, <1>4, AdmittedFew, SumCounts, FS_EmptySet
<1>6. Cardinality(AdmittedOfOneKey) = 0
  BY <1>1, FS_EmptySet
<1> QED
  BY <1>5, <1>6, AdmittedFew, ConstantsAssumption DEF OverrunIsBounded, AdmittedOfOneKey, OneKey

-----------------------------------------------------------------------------
\* The invariant holds in every reachable state.
THEOREM MeteringInductive == Spec => []MeteringInv
BY MeteringInit, MeteringNext, PTL DEF Spec

\* No project is charged for more retrievals than it was served.
THEOREM NoOvercharge == Spec => []NeverOvercounted
<1>1. MeteringInv => NeverOvercounted
  BY DEF MeteringInv
<1> QED
  BY <1>1, MeteringInductive, PTL

\* With one API key the count of a project is exact.
THEOREM ExactWithOneKey == Spec => []OneKeyIsExact
<1>1. MeteringInv => OneKeyIsExact
  BY DEF MeteringInv
<1> QED
  BY <1>1, MeteringInductive, PTL

\* The projects with one key overrun the limit by less than their number, whatever
\* is lost of the counts of the others.
THEOREM Overrun == Spec => []OverrunIsBounded
<1>1. Init => OverrunIsBounded
  BY MeteringInit, OverrunInit
<1>2. MeteringInv /\ MeteringInv' /\ OverrunIsBounded /\ [Next]_vars => OverrunIsBounded'
  BY OverrunNext
<1> QED
  BY <1>1, <1>2, MeteringInductive, PTL DEF Spec

-----------------------------------------------------------------------------
(***************************************************************************)
(* What is closed stays closed.                                            *)
(***************************************************************************)
\* The requests that have key k.
Finding(k) == {r \in Requests : req[r].key = k}

RevokedStays(k) ==
    key[k] = "revoked" => key'[k] = "revoked" /\ Finding(k)' \subseteq Finding(k)

DroppedStays(k) ==
    k[1] \notin active => k[1] \notin active' /\ Serving(k)' \subseteq Serving(k)

\* A revoked key is never live again and nobody finds it anew; in a project that is
\* deleted nobody begins to be served.  So the requests that may still be served with a
\* closed key become fewer only, which is what RevocationTakesHold rests on.
ClosedStaysClosed == [][\A k \in Keys : RevokedStays(k) /\ DroppedStays(k)]_vars

LEMMA ClosedNext ==
    ASSUME MeteringInv, [Next]_vars, NEW k \in Keys
    PROVE  RevokedStays(k) /\ DroppedStays(k)
<1> USE DEF access, metering
<1>1. /\ key \in [Keys -> {"absent", "live", "revoked"}]
      /\ DOMAIN req = Requests
      /\ \A q \in Requests : DOMAIN req[q] = {"phase", "key", "seen"}
      /\ k # NoKey
  BY ConstantsAssumption DEF MeteringInv, TypeOK, Keys, NoKey
\* Steps that change no key: nobody finds a key that is not live, or is let in by a
\* project that is not active.
<1>2. ASSUME UNCHANGED <<key, active>>,
             \A q \in Requests : req'[q].key = k =>
                 \/ req'[q] = req[q]
                 \/ key[k] = "live" /\ req'[q].phase = "found"
                 \/ req[q].key = k /\ (req[q].phase # "found" \/ k[1] \in active)
      PROVE  RevokedStays(k) /\ DroppedStays(k)
  <2>1. RevokedStays(k)
    BY <1>2 DEF Finding, RevokedStays
  <2>2. DroppedStays(k)
    BY <1>2 DEF Serving, DroppedStays
  <2> QED
    BY <2>1, <2>2
\* Steps of the owner and of the job.
<1>3. ASSUME UNCHANGED req, active' \subseteq active, key[k] = "revoked" => key'[k] = "revoked"
      PROVE  RevokedStays(k) /\ DroppedStays(k)
  BY <1>3 DEF Finding, Serving, RevokedStays, DroppedStays
<1>4. ASSUME NEW r \in Requests, NEW l \in Keys, FindKey(r, l)
      PROVE  RevokedStays(k) /\ DroppedStays(k)
  BY <1>1, <1>2, <1>4 DEF FindKey, Idle
<1>5. ASSUME NEW r \in Requests, LockKey(r) PROVE RevokedStays(k) /\ DroppedStays(k)
  BY <1>1, <1>2, <1>5 DEF LockKey, ProjectOf
<1>6. ASSUME NEW r \in Requests, CheckRetrievalLimit(r) \/ ReadUsage(r) \/ WriteUsage(r)
      PROVE  RevokedStays(k) /\ DroppedStays(k)
  <2>1. req[r].phase # "found" /\ UNCHANGED <<key, active>>
    BY <1>6 DEF CheckRetrievalLimit, ReadUsage, WriteUsage
  <2>2. req'[r].key = req[r].key /\ \A q \in Requests \ {r} : req'[q] = req[q]
    BY <1>1, <1>6 DEF CheckRetrievalLimit, ReadUsage, WriteUsage
  <2> QED
    BY <1>2, <2>1, <2>2
<1>7. ASSUME NEW r \in Requests, Commit(r) \/ Abort(r)
      PROVE  RevokedStays(k) /\ DroppedStays(k)
  <2>1. UNCHANGED <<key, active>> /\ req' = [req EXCEPT ![r] = Idle]
    BY <1>7 DEF Commit, Abort, EndRequest
  <2>2. req'[r].key = NoKey /\ \A q \in Requests \ {r} : req'[q] = req[q]
    BY <1>1, <2>1 DEF Idle
  <2> QED
    BY <1>1, <1>2, <2>1, <2>2
<1>8. CASE StartJob \/ JobStep
  BY <1>3, <1>8 DEF StartJob, JobStep, UpdateDaily, MissDaily, InsertDaily, CommitJob, FailJob,
                    EndJob
<1>9. ASSUME NEW l \in Keys, CreateKey(l) \/ FindRevoked(l)
      PROVE  RevokedStays(k) /\ DroppedStays(k)
  <2>1. UNCHANGED <<req, active>>
    BY <1>9 DEF CreateKey, FindRevoked
  <2>2. key[k] = "revoked" => key'[k] = "revoked"
    BY <1>1, <1>9 DEF CreateKey, FindRevoked
  <2> QED
    BY <1>3, <2>1, <2>2
<1>10. CASE RevokeStep \/ AbortRevoked
  <2>1. UNCHANGED <<req, active>>
    BY <1>10 DEF RevokeStep, LockRevoked, CommitRevoked, AbortRevoked
  <2>2. key[k] = "revoked" => key'[k] = "revoked"
    BY <1>1, <1>10 DEF RevokeStep, LockRevoked, CommitRevoked, AbortRevoked
  <2> QED
    BY <1>3, <2>1, <2>2
<1>11. ASSUME NEW p \in Projects, DeleteProject(p) PROVE RevokedStays(k) /\ DroppedStays(k)
  BY <1>3, <1>11 DEF DeleteProject
<1>12. CASE UNCHANGED vars
  BY <1>3, <1>12 DEF vars
<1> QED
  BY <1>4, <1>5, <1>6, <1>7, <1>8, <1>9, <1>10, <1>11, <1>12 DEF Next, RequestStep

\* ClosedStaysClosed holds for any projects, keys and requests: no session that read a key
\* or a project before it was closed opens it again.
THEOREM StaysClosed == Spec => ClosedStaysClosed
<1>1. MeteringInv /\ [Next]_vars => [\A k \in Keys : RevokedStays(k) /\ DroppedStays(k)]_vars
  BY ClosedNext
<1> QED
  BY <1>1, MeteringInductive, PTL DEF Spec, ClosedStaysClosed

=============================================================================
