--------------------------- MODULE OAuthFlowProofs ---------------------------
(***************************************************************************)
(* Proofs about OAuthFlow, for any number of authorisations, codes and     *)
(* callbacks: how often a state is used, what becomes of an account, and   *)
(* how far the limit is overrun.                                           *)
(***************************************************************************)
EXTENDS OAuthFlow, SequenceTheorems, FiniteSetTheorems, TLAPS

\* The callback that was told the account and has inserted the connection has
\* claimed the account, and there is no other connection under its id.
ClaimsFit ==
    \A c \in Callbacks :
        callback[c].phase = "inserted" /\ callback[c].told =>
            claimed[AccountOf(c)] = c /\ UnderItsId(AccountOf(c)) = {}

\* No account has two connections under its id.
OneUnderItsId == \A a \in Accounts : \A i, j \in UnderItsId(a) : i = j

FlowInv == TypeOK /\ ClaimsFit /\ OneUnderItsId /\ ConsumedWithConnection /\ ReuseIsBounded

\* What a callback can be in.
Busy == [phase: Phases \ {"idle"}, code: Codes, told: BOOLEAN]

LEMMA HoldingFinite ==
    ASSUME NEW f
    PROVE  /\ IsFiniteSet(Holding(f)) /\ Cardinality(Holding(f)) \in Nat
           /\ Cardinality(Holding(f)) <= Cardinality(Callbacks)
           /\ Cardinality(Callbacks) \in Nat
<1>1. IsFiniteSet(Callbacks)
  BY ConstantsAssumption
<1>2. Holding(f) \in SUBSET Callbacks
  BY DEF Holding
<1>3. IsFiniteSet(Holding(f)) /\ Cardinality(Holding(f)) <= Cardinality(Callbacks)
  BY <1>1, <1>2, FS_Subset
<1> QED
  BY <1>1, <1>3, FS_CardinalityType

LEMMA FlowInit == Init => FlowInv
<1> SUFFICES ASSUME Init PROVE FlowInv
  OBVIOUS
<1> USE DEF Init
<1>1. TypeOK
  <2>1. flow \in [Flows -> FlowStates]
    BY DEF FlowStates
  <2>2. conns \in [Accounts -> Seq(Connection)]
    BY EmptySeq
  <2>3. callback \in [Callbacks -> {Idle} \cup Busy]
    OBVIOUS
  <2> QED
    BY <2>1, <2>2, <2>3 DEF TypeOK, Busy
<1>2. ClaimsFit /\ ConsumedWithConnection
  BY DEF ClaimsFit, ConsumedWithConnection, Idle
<1>3. OneUnderItsId
  <2>1. \A a \in Accounts : DOMAIN conns[a] = {}
    OBVIOUS
  <2> QED
    BY <2>1 DEF OneUnderItsId, UnderItsId
<1>4. ReuseIsBounded
  BY HoldingFinite DEF ReuseIsBounded
<1> QED
  BY <1>1, <1>2, <1>4, <1>3 DEF FlowInv

-----------------------------------------------------------------------------
\* Where no connection is made and nobody takes up a state, the bound stays.
LEMMA BoundStays ==
    ASSUME FlowInv, UNCHANGED made, \A f \in Flows : Holding(f)' \subseteq Holding(f)
    PROVE  ReuseIsBounded'
<1> SUFFICES ASSUME NEW f \in Flows
             PROVE  made[f] + Cardinality(Holding(f)') <= Cardinality(Callbacks)
  BY DEF ReuseIsBounded
<1>1. IsFiniteSet(Holding(f)) /\ Cardinality(Holding(f)) \in Nat /\ Cardinality(Callbacks) \in Nat
  BY HoldingFinite
<1>2. /\ IsFiniteSet(Holding(f)') /\ Cardinality(Holding(f)') <= Cardinality(Holding(f))
      /\ Cardinality(Holding(f)') \in Nat
  BY <1>1, FS_Subset, FS_CardinalityType
<1>3. made[f] \in Nat /\ made[f] + Cardinality(Holding(f)) <= Cardinality(Callbacks)
  BY DEF FlowInv, TypeOK, ReuseIsBounded
<1> QED
  BY <1>1, <1>2, <1>3

\* Where connections are left alone, so are those under an id.
LEMMA SameIds ==
    ASSUME UNCHANGED conns
    PROVE  /\ \A a \in Accounts : UnderItsId(a)' = UnderItsId(a)
           /\ OneUnderItsId => OneUnderItsId'
<1>1. \A a \in Accounts : UnderItsId(a)' = UnderItsId(a)
  BY DEF UnderItsId
<1> QED
  BY <1>1 DEF OneUnderItsId

\* A connection that goes out of service keeps its place and its id.
LEMMA RetireKeepsIds ==
    ASSUME TypeOK, NEW a \in Accounts, NEW i \in DOMAIN conns[a],
           conns' = [conns EXCEPT ![a][i].status = "retired"]
    PROVE  /\ conns' \in [Accounts -> Seq(Connection)]
           /\ \A b \in Accounts : DOMAIN conns'[b] = DOMAIN conns[b]
           /\ \A b \in Accounts : \A j \in DOMAIN conns[b] :
                 /\ conns'[b][j].told = conns[b][j].told
                 /\ conns'[b][j].status \in {conns[b][j].status, "retired"}
           /\ \A b \in Accounts : UnderItsId(b)' = UnderItsId(b)
<1> DEFINE new == [conns[a][i] EXCEPT !.status = "retired"]
           rows == [conns[a] EXCEPT ![i] = new]
<1>1. conns[a] \in Seq(Connection) /\ conns[a][i] \in Connection
  <2>1. conns[a] \in Seq(Connection)
    BY DEF TypeOK
  <2> QED
    BY <2>1, ElementOfSeq, LenProperties
<1>2. new \in Connection /\ new.told = conns[a][i].told /\ new.status = "retired"
  BY <1>1 DEF Connection
<1>3. conns' = [conns EXCEPT ![a] = rows]
  OBVIOUS
<1> HIDE DEF new
<1>4. rows \in Seq(Connection) /\ DOMAIN rows = DOMAIN conns[a]
  BY <1>1, <1>2, ExceptSeq
<1>5. rows[i] = new /\ \A j \in DOMAIN conns[a] : j # i => rows[j] = conns[a][j]
  OBVIOUS
<1> HIDE DEF rows
<1>6. conns'[a] = rows /\ \A b \in Accounts : b # a => conns'[b] = conns[b]
  BY <1>3 DEF TypeOK
<1>7. conns' \in [Accounts -> Seq(Connection)]
  BY <1>3, <1>4 DEF TypeOK
<1>8. \A b \in Accounts : DOMAIN conns'[b] = DOMAIN conns[b]
  BY <1>4, <1>6
<1>9. \A b \in Accounts : \A j \in DOMAIN conns[b] :
         /\ conns'[b][j].told = conns[b][j].told
         /\ conns'[b][j].status \in {conns[b][j].status, "retired"}
  BY <1>2, <1>5, <1>6
<1>10. \A b \in Accounts : UnderItsId(b)' = UnderItsId(b)
  BY <1>8, <1>9 DEF UnderItsId
<1> QED
  BY <1>7, <1>8, <1>9, <1>10

\* The steps of the users, of time and of the connections.
LEMMA EnvironmentFits ==
    ASSUME FlowInv, Environment
    PROVE  FlowInv'
<1> USE DEF FlowInv
<1>1. UNCHANGED <<claimed, callback, made, locked>>
  BY DEF Environment, Authorize, Expire, Cleanup, Approve, Retire
<1>2. ReuseIsBounded'
  BY <1>1, BoundStays DEF Holding, FlowOf
<1>3. ASSUME NEW f \in Flows, Authorize(f) \/ Expire(f) \/ Cleanup(f) PROVE FlowInv'
  <2>1. TypeOK'
    BY <1>3 DEF Authorize, Expire, Cleanup, TypeOK, FlowStates
  <2>2. ClaimsFit'
    BY <1>3, SameIds DEF Authorize, Expire, Cleanup, ClaimsFit, AccountOf, UnderItsId
  <2>3. OneUnderItsId'
    BY <1>3, SameIds DEF Authorize, Expire, Cleanup
  <2>4. ConsumedWithConnection'
    BY <1>3 DEF Authorize, Expire, Cleanup, TypeOK, ConsumedWithConnection
  <2> QED
    BY <1>2, <2>1, <2>2, <2>4, <2>3
<1>4. ASSUME NEW code \in Codes, Approve(code) PROVE FlowInv'
  <2>1. codes' \in [unused: SUBSET Codes, used: SUBSET Codes]
    BY <1>4 DEF Approve, TypeOK
  <2>2. TypeOK'
    BY <1>4, <2>1 DEF Approve, TypeOK
  <2>3. ClaimsFit' /\ ConsumedWithConnection'
    BY <1>4 DEF Approve, ClaimsFit, AccountOf, ConsumedWithConnection, UnderItsId
  <2>4. OneUnderItsId'
    BY <1>4, SameIds DEF Approve
  <2> QED
    BY <1>2, <2>2, <2>3, <2>4
<1>5. ASSUME NEW a \in Accounts, Retire(a) PROVE FlowInv'
  <2>1. PICK i \in DOMAIN conns[a] : conns' = [conns EXCEPT ![a][i].status = "retired"]
    BY <1>5 DEF Retire
  <2>2. /\ conns' \in [Accounts -> Seq(Connection)]
        /\ \A b \in Accounts : UnderItsId(b)' = UnderItsId(b)
    BY <2>1, RetireKeepsIds
  <2>3. TypeOK'
    BY <1>5, <2>2 DEF Retire, TypeOK
  <2>4. ClaimsFit'
    <3> SUFFICES ASSUME NEW c \in Callbacks, callback[c].phase = "inserted", callback[c].told
                 PROVE  claimed[AccountOf(c)] = c /\ UnderItsId(AccountOf(c))' = {}
      BY <1>5 DEF Retire, ClaimsFit, AccountOf
    <3>1. PICK b \in Accounts : b = AccountOf(c)
      BY DEF TypeOK, Idle, Codes, AccountOf
    <3>2. UnderItsId(b) = {} /\ claimed[b] = c
      BY <3>1 DEF ClaimsFit
    <3>3. UnderItsId(b)' = {} /\ b = AccountOf(c)'
      BY <1>5, <2>2, <3>1, <3>2 DEF Retire, AccountOf
    <3> QED
      BY <3>1, <3>2, <3>3 DEF UnderItsId
  <2>5. OneUnderItsId' /\ ConsumedWithConnection'
    BY <1>5, <2>2 DEF Retire, OneUnderItsId, ConsumedWithConnection
  <2> QED
    BY <1>2, <2>3, <2>4, <2>5
<1> QED
  BY <1>3, <1>4, <1>5 DEF Environment

\* A callback that goes on to another phase.
LEMMA GoesFits ==
    ASSUME FlowInv, NEW c \in Callbacks, NEW phase \in Phases \ {"idle"}, Goes(c, phase),
           callback[c].phase # "idle", UNCHANGED made
    PROVE  /\ callback' \in [Callbacks -> {Idle} \cup Busy]
           /\ callback'[c].phase = phase /\ AccountOf(c)' = AccountOf(c)
           /\ callback'[c].told = callback[c].told
           /\ \A q \in Callbacks : q # c => callback'[q] = callback[q]
           /\ ReuseIsBounded'
<1>1. callback[c] \in Busy
  BY DEF FlowInv, TypeOK, Idle, Busy
<1>2. [callback[c] EXCEPT !.phase = phase] \in Busy
  BY <1>1 DEF Busy
<1>3. callback' = [callback EXCEPT ![c] = [callback[c] EXCEPT !.phase = phase]]
  BY DEF Goes, FlowInv, TypeOK
<1>4. callback' \in [Callbacks -> {Idle} \cup Busy]
  BY <1>2, <1>3 DEF FlowInv, TypeOK, Busy
<1>5. /\ callback'[c].phase = phase /\ callback'[c].code = callback[c].code
      /\ callback'[c].told = callback[c].told
  BY <1>1, <1>3 DEF FlowInv, TypeOK, Busy
<1>6. \A q \in Callbacks : q # c => callback'[q] = callback[q]
  BY <1>3 DEF FlowInv, TypeOK
<1>7. ReuseIsBounded'
  BY <1>5, <1>6, BoundStays DEF Holding, FlowOf
<1> QED
  BY <1>4, <1>5, <1>6, <1>7 DEF AccountOf

LEMMA ReadStateFits ==
    ASSUME FlowInv, NEW c \in Callbacks, NEW code \in Codes, ReadState(c, code)
    PROVE  FlowInv'
<1> USE DEF FlowInv, ReadState, Taken
<1> DEFINE new == Taken(code)
<1>1. new \in Busy
  BY DEF Busy, Phases
<1>2. TypeOK'
  BY <1>1 DEF TypeOK, Busy
<1>3. callback'[c] = new /\ \A q \in Callbacks : q # c => callback'[q] = callback[q]
  BY DEF TypeOK
<1>4. ClaimsFit'
  BY <1>3 DEF ClaimsFit, AccountOf, UnderItsId
<1>5. OneUnderItsId'
  BY SameIds
<1>6. ConsumedWithConnection'
  BY DEF ConsumedWithConnection
<1>7. ReuseIsBounded'
  <2> SUFFICES ASSUME NEW f \in Flows
               PROVE  made[f] + Cardinality(Holding(f)') <= Cardinality(Callbacks)
    BY DEF ReuseIsBounded
  <2>1. CASE f = code.flow
    <3>1. made[f] = 0
      BY <2>1 DEF ConsumedWithConnection
    <3>2. Holding(f)' \in SUBSET Callbacks
      BY DEF Holding
    <3>3. Cardinality(Holding(f)') <= Cardinality(Callbacks) /\ Cardinality(Holding(f)') \in Nat
      BY <3>2, ConstantsAssumption, FS_Subset, FS_CardinalityType
    <3> QED
      BY <3>1, <3>3
  <2>2. CASE f # code.flow
    <3>1. Holding(f)' = Holding(f)
      BY <1>3, <2>2 DEF Holding, FlowOf
    <3> QED
      BY <3>1 DEF ReuseIsBounded
  <2> QED
    BY <2>1, <2>2
<1> QED
  BY <1>2, <1>4, <1>6, <1>7, <1>5

\* A callback that has exchanged its code was told the account or not.
LEMMA ToldFits ==
    ASSUME FlowInv, NEW c \in Callbacks, Exchange(c)
    PROVE  /\ callback' \in [Callbacks -> {Idle} \cup Busy]
           /\ callback'[c].phase = "exchanged"
           /\ \A q \in Callbacks : q # c => callback'[q] = callback[q]
           /\ ReuseIsBounded'
<1> USE DEF FlowInv
<1>1. PICK told \in BOOLEAN :
          callback' = [callback EXCEPT ![c].phase = "exchanged", ![c].told = told]
  BY DEF Exchange
<1> DEFINE new == [callback[c] EXCEPT !.phase = "exchanged", !.told = told]
<1>2. callback[c] \in Busy
  BY DEF Exchange, TypeOK, Idle, Busy
<1>3. new \in Busy /\ new.phase = "exchanged" /\ new.code = callback[c].code
  BY <1>2 DEF Busy, Phases
<1>4. callback' = [callback EXCEPT ![c] = new]
  BY <1>1 DEF TypeOK
<1> HIDE DEF new
<1>5. /\ callback' \in [Callbacks -> {Idle} \cup Busy] /\ callback'[c] = new
      /\ \A q \in Callbacks : q # c => callback'[q] = callback[q]
  BY <1>3, <1>4 DEF TypeOK, Busy
<1>6. \A f \in Flows : Holding(f)' \subseteq Holding(f)
  BY <1>3, <1>5 DEF Exchange, Holding, FlowOf
<1>7. ReuseIsBounded'
  BY <1>6, BoundStays DEF Exchange
<1> QED
  BY <1>3, <1>5, <1>7

LEMMA AdvanceFits ==
    ASSUME FlowInv, NEW c \in Callbacks, MarkConsumed(c) \/ CheckLimit(c) \/ Exchange(c)
    PROVE  FlowInv'
<1> USE DEF FlowInv
<1>1. UNCHANGED <<flow, conns, claimed, made>> /\ callback[c].phase # "idle"
  BY DEF MarkConsumed, CheckLimit, Exchange
<1>2. /\ callback' \in [Callbacks -> {Idle} \cup Busy]
      /\ callback'[c].phase # "inserted"
      /\ \A q \in Callbacks : q # c => callback'[q] = callback[q]
      /\ ReuseIsBounded'
  <2>1. CASE MarkConsumed(c) \/ CheckLimit(c)
    <3>1. PICK phase \in {"claimed", "allowed"} : Goes(c, phase)
      BY <2>1 DEF MarkConsumed, CheckLimit
    <3> QED
      BY <1>1, <3>1, GoesFits DEF Phases
  <2>2. CASE Exchange(c)
    BY <2>2, ToldFits
  <2> QED
    BY <2>1, <2>2
<1>3. TypeOK'
  <2>1. locked' \in [Flows -> Callbacks \cup {Nobody}]
    BY DEF MarkConsumed, CheckLimit, Exchange, TypeOK
  <2>2. codes' \in [unused: SUBSET Codes, used: SUBSET Codes]
    <3>1. CASE Exchange(c)
      <4>1. callback[c].code \in Codes
        BY <3>1 DEF Exchange, TypeOK
      <4> QED
        BY <3>1, <4>1 DEF Exchange, TypeOK
    <3>2. CASE ~Exchange(c)
      BY <3>2 DEF MarkConsumed, CheckLimit, TypeOK
    <3> QED
      BY <3>1, <3>2
  <2> QED
    BY <1>1, <1>2, <2>1, <2>2 DEF TypeOK, Busy
<1>4. ClaimsFit'
  BY <1>1, <1>2 DEF ClaimsFit, AccountOf, UnderItsId
<1>5. ConsumedWithConnection'
  BY <1>1 DEF ConsumedWithConnection
<1>6. OneUnderItsId'
  BY <1>1, SameIds
<1> QED
  BY <1>2, <1>3, <1>4, <1>5, <1>6

\* The account of a callback that is under way.
LEMMA InsertedAccount ==
    ASSUME FlowInv, NEW c \in Callbacks, callback[c].phase # "idle"
    PROVE  AccountOf(c) \in Accounts /\ FlowOf(c) \in Flows
BY DEF FlowInv, TypeOK, Idle, Codes, AccountOf, FlowOf

LEMMA InsertFits ==
    ASSUME FlowInv, NEW c \in Callbacks, Insert(c)
    PROVE  FlowInv'
<1> USE DEF FlowInv, Insert
<1>1. PICK a \in Accounts : a = AccountOf(c)
  BY InsertedAccount
<1>2. /\ callback' \in [Callbacks -> {Idle} \cup Busy]
      /\ callback'[c].phase = "inserted" /\ AccountOf(c)' = AccountOf(c)
      /\ callback'[c].told = callback[c].told
      /\ \A q \in Callbacks : q # c => callback'[q] = callback[q]
      /\ ReuseIsBounded'
  BY GoesFits DEF Phases
<1>3. claimed' \in [Accounts -> Callbacks \cup {Nobody}]
  BY DEF TypeOK
<1>4. TypeOK'
  BY <1>2, <1>3 DEF TypeOK, Busy
<1>5. ClaimsFit'
  <2>1. callback[c].told =>
           claimed[a] = Nobody /\ UnderItsId(a) = {} /\ claimed' = [claimed EXCEPT ![a] = c]
    BY <1>1
  <2>2. ~callback[c].told => claimed' = claimed
    OBVIOUS
  <2>3. callback[c].told => claimed'[a] = c /\ UnderItsId(a)' = {}
    BY <2>1, SameIds DEF TypeOK
  <2>4. callback[c].told => claimed'[AccountOf(c)'] = c /\ UnderItsId(AccountOf(c))' = {}
    BY <1>2, <1>1, <2>3 DEF UnderItsId
  <2>5. ASSUME NEW q \in Callbacks, q # c, callback'[q].phase = "inserted", callback'[q].told
        PROVE  claimed'[AccountOf(q)'] = q /\ UnderItsId(AccountOf(q))' = {}
    <3>1. callback'[q] = callback[q] /\ AccountOf(q)' = AccountOf(q)
      BY <1>2, <2>5 DEF AccountOf
    <3>2. claimed[AccountOf(q)] = q /\ UnderItsId(AccountOf(q)) = {}
      BY <2>5, <3>1 DEF ClaimsFit
    <3>3. UnderItsId(AccountOf(q))' = {}
      BY <3>1, <3>2 DEF UnderItsId
    <3>4. callback[q].phase # "idle" /\ q \in Callbacks
      BY <2>5, <3>1
    <3>5. AccountOf(q) \in Accounts
      BY <3>4, InsertedAccount
    <3>6. claimed'[AccountOf(q)] = q
      BY <1>1, <2>1, <2>2, <3>2, <3>5, ConstantsAssumption DEF TypeOK
    <3> QED
      BY <3>1, <3>3, <3>6
  <2> QED
    BY <1>2, <2>4, <2>5 DEF ClaimsFit
<1>6. ConsumedWithConnection'
  BY DEF ConsumedWithConnection
<1>7. OneUnderItsId'
  BY SameIds
<1> QED
  BY <1>2, <1>4, <1>5, <1>6, <1>7

\* What the end of the transaction of c leaves to the others.
LEMMA EndFits ==
    ASSUME FlowInv, NEW c \in Callbacks, EndTransaction(c)
    PROVE  /\ callback' \in [Callbacks -> {Idle} \cup Busy]
           /\ locked' \in [Flows -> Callbacks \cup {Nobody}]
           /\ claimed' \in [Accounts -> Callbacks \cup {Nobody}]
           /\ callback'[c] = Idle
           /\ \A q \in Callbacks : q # c => callback'[q] = callback[q] /\ AccountOf(q)' = AccountOf(q)
           /\ \A q \in Callbacks, a \in Accounts : q # c /\ claimed[a] = q => claimed'[a] = q
<1> USE DEF FlowInv, TypeOK, EndTransaction
<1>1. callback' \in [Callbacks -> {Idle} \cup Busy] /\ callback'[c] = Idle
  BY DEF Busy
<1>2. \A q \in Callbacks : q # c => callback'[q] = callback[q] /\ AccountOf(q)' = AccountOf(q)
  BY DEF AccountOf
<1>3. /\ locked' \in [Flows -> Callbacks \cup {Nobody}]
      /\ claimed' \in [Accounts -> Callbacks \cup {Nobody}]
  OBVIOUS
<1>4. \A q \in Callbacks, a \in Accounts : q # c /\ claimed[a] = q => claimed'[a] = q
  OBVIOUS
<1> QED
  BY <1>1, <1>2, <1>3, <1>4

LEMMA GiveUpFits ==
    ASSUME FlowInv, NEW c \in Callbacks, Raise(c) \/ Abort(c)
    PROVE  FlowInv'
<1> USE DEF FlowInv
<1>1. EndTransaction(c) /\ UNCHANGED <<flow, codes, conns, made>>
  BY DEF Raise, Abort
<1>2. TypeOK'
  BY <1>1, EndFits DEF TypeOK, Busy
<1>3. ClaimsFit'
  <2> SUFFICES ASSUME NEW q \in Callbacks, callback'[q].phase = "inserted", callback'[q].told
               PROVE  claimed'[AccountOf(q)'] = q /\ UnderItsId(AccountOf(q))' = {}
    BY DEF ClaimsFit
  <2>1. q # c
    BY <1>1, EndFits DEF Idle
  <2>2. callback'[q] = callback[q] /\ AccountOf(q)' = AccountOf(q)
    BY <1>1, <2>1, EndFits
  <2>3. claimed[AccountOf(q)] = q /\ UnderItsId(AccountOf(q)) = {} /\ AccountOf(q) \in Accounts
    BY <2>2, InsertedAccount DEF ClaimsFit
  <2> QED
    BY <1>1, <2>1, <2>2, <2>3, EndFits DEF UnderItsId
<1>4. OneUnderItsId'
  BY <1>1, SameIds
<1>5. ConsumedWithConnection'
  BY <1>1 DEF ConsumedWithConnection
<1>6. \A f \in Flows : Holding(f)' \subseteq Holding(f)
  BY <1>1, EndFits DEF Holding, FlowOf, Idle
<1>7. ReuseIsBounded'
  BY <1>1, <1>6, BoundStays
<1> QED
  BY <1>2, <1>3, <1>5, <1>7, <1>4

\* The commit of c makes connection n of account a, and leaves the others.
Makes(c, a, n) ==
    /\ a = AccountOf(c)
    /\ conns' \in [Accounts -> Seq(Connection)]
    /\ \A b \in Accounts : b # a => conns'[b] = conns[b] /\ UnderItsId(b)' = UnderItsId(b)
    /\ DOMAIN conns[a] = 1..(n - 1) /\ DOMAIN conns'[a] = 1..n /\ n > 0
    /\ conns'[a][n].status = "active"
    /\ \A j \in 1..(n - 1) : conns'[a][j] = conns[a][j]
    /\ callback[c].told => UnderItsId(a)' = UnderItsId(a) \cup {n}
    /\ ~callback[c].told => UnderItsId(a)' = UnderItsId(a)

LEMMA CommitAppends ==
    ASSUME FlowInv, NEW c \in Callbacks, Commit(c)
    PROVE  \E a \in Accounts, n \in Nat : Makes(c, a, n)
<1>1. TypeOK /\ callback[c].phase = "inserted"
  BY DEF FlowInv, Commit
<1>2. PICK a \in Accounts : a = AccountOf(c)
  BY <1>1, InsertedAccount
<1>3. PICK n \in Nat : n = Len(conns[a]) + 1
  <2>1. conns[a] \in Seq(Connection)
    BY <1>1 DEF TypeOK
  <2> QED
    BY <2>1, LenProperties
<1> DEFINE new == [status |-> "active", told |-> callback[c].told]
<1>4. callback[c] \in Busy
  BY <1>1 DEF TypeOK, Idle, Busy
<1>5. new \in Connection /\ new.told = callback[c].told /\ new.status = "active"
  BY <1>4 DEF Connection, Busy
<1>6. conns' = [conns EXCEPT ![a] = Append(conns[a], new)]
  BY <1>2 DEF Commit
<1> HIDE DEF new
<1>7. conns[a] \in Seq(Connection)
  BY <1>1 DEF TypeOK
<1>8. /\ Append(conns[a], new) \in Seq(Connection)
      /\ conns'[a] = Append(conns[a], new) /\ \A b \in Accounts : b # a => conns'[b] = conns[b]
  BY <1>5, <1>6, <1>7, <1>1, AppendProperties DEF TypeOK
<1>9. conns' \in [Accounts -> Seq(Connection)]
  BY <1>6, <1>8, <1>1 DEF TypeOK
<1>10. /\ DOMAIN conns[a] = 1..(n - 1) /\ DOMAIN conns'[a] = 1..n /\ n > 0
      /\ conns'[a][n] = new /\ \A j \in 1..(n - 1) : conns'[a][j] = conns[a][j]
  BY <1>5, <1>7, <1>8, <1>3, AppendProperties, LenProperties
<1>11. \A b \in Accounts : b # a => UnderItsId(b)' = UnderItsId(b)
  BY <1>8 DEF UnderItsId
<1>12. \A j \in 1..n : j = n \/ j \in 1..(n - 1)
  OBVIOUS
<1>13. \A j \in 1..(n - 1) : j \in 1..n /\ conns'[a][j].told = conns[a][j].told
  BY <1>10
<1>14. n \in 1..n /\ n \notin 1..(n - 1) /\ conns'[a][n].told = callback[c].told
  BY <1>5, <1>10
<1>15. /\ UnderItsId(a) = {j \in 1..(n - 1) : conns[a][j].told}
       /\ UnderItsId(a)' = {j \in 1..n : conns'[a][j].told}
  BY <1>10 DEF UnderItsId
<1>16. ASSUME callback[c].told PROVE UnderItsId(a)' = UnderItsId(a) \cup {n}
  <2>1. n \in UnderItsId(a)'
    BY <1>16, <1>14, <1>15
  <2>2. \A j \in 1..(n - 1) : j \in UnderItsId(a)' <=> j \in UnderItsId(a)
    BY <1>13, <1>15
  <2>3. UnderItsId(a) \subseteq 1..(n - 1) /\ UnderItsId(a)' \subseteq 1..n
    BY <1>15
  <2> QED
    BY <1>12, <2>1, <2>2, <2>3
<1>17. ~callback[c].told => UnderItsId(a)' = UnderItsId(a)
  BY <1>12, <1>13, <1>14, <1>15
<1> QED
  <2>1. conns'[a][n].status = "active"
    BY <1>5, <1>10
  <2> WITNESS a \in Accounts, n \in Nat
  <2> QED
    BY <1>2, <1>8, <1>9, <1>10, <1>11, <1>16, <1>17, <2>1 DEF Makes

LEMMA CommitFits ==
    ASSUME FlowInv, NEW c \in Callbacks, Commit(c)
    PROVE  FlowInv'
<1> USE DEF FlowInv
<1> DEFINE f == FlowOf(c)
<1>1. callback[c].phase = "inserted"
  BY DEF Commit
<1>2. f \in Flows
  BY <1>1, InsertedAccount
<1>3. PICK a \in Accounts, n \in Nat : Makes(c, a, n)
  BY CommitAppends
<1>4. /\ a = AccountOf(c) /\ conns' \in [Accounts -> Seq(Connection)]
      /\ \A b \in Accounts : b # a => UnderItsId(b)' = UnderItsId(b)
      /\ callback[c].told => UnderItsId(a)' = UnderItsId(a) \cup {n}
      /\ ~callback[c].told => UnderItsId(a)' = UnderItsId(a)
  BY <1>3 DEF Makes
<1> USE DEF Commit
<1>5. OneUnderItsId'
  <2>1. callback[c].told => UnderItsId(a) = {}
    BY <1>4 DEF ClaimsFit
  <2>2. \A i, j \in UnderItsId(a) : i = j
    BY DEF OneUnderItsId
  <2>3. callback[c].told \/ ~callback[c].told
    OBVIOUS
  <2>4. \A i, j \in UnderItsId(a)' : i = j
    BY <1>3, <1>4, <2>1, <2>2, <2>3
  <2>5. \A b \in Accounts : b # a => \A i, j \in UnderItsId(b)' : i = j
    BY <1>3, <1>4 DEF OneUnderItsId
  <2> QED
    BY <2>4, <2>5 DEF OneUnderItsId
<1>6. TypeOK'
  <2>1. conns' \in [Accounts -> Seq(Connection)]
    BY <1>4
  <2>2. flow' \in [Flows -> FlowStates] /\ made' \in [Flows -> Nat]
    BY <1>2 DEF TypeOK, FlowStates
  <2> QED
    BY <2>1, <2>2, EndFits DEF TypeOK, Busy
<1>7. ClaimsFit'
  <2> SUFFICES ASSUME NEW q \in Callbacks, callback'[q].phase = "inserted", callback'[q].told
               PROVE  claimed'[AccountOf(q)'] = q /\ UnderItsId(AccountOf(q))' = {}
    BY DEF ClaimsFit
  <2>1. q # c
    BY EndFits DEF Idle
  <2>2. callback'[q] = callback[q] /\ AccountOf(q)' = AccountOf(q)
    BY <2>1, EndFits
  <2>3. claimed[AccountOf(q)] = q /\ UnderItsId(AccountOf(q)) = {} /\ AccountOf(q) \in Accounts
    BY <2>2, InsertedAccount DEF ClaimsFit
  <2>4. AccountOf(q) # a \/ ~callback[c].told
    BY <1>4, <2>1, <2>2, <2>3 DEF ClaimsFit
  <2>5. UnderItsId(AccountOf(q))' = UnderItsId(AccountOf(q))
    <3>1. \A b \in Accounts : b # a \/ ~callback[c].told => UnderItsId(b)' = UnderItsId(b)
      <4> SUFFICES ASSUME NEW b \in Accounts, b # a \/ ~callback[c].told
                   PROVE  UnderItsId(b)' = UnderItsId(b)
        OBVIOUS
      <4>1. CASE b # a
        BY <1>3, <1>4, <4>1
      <4>2. CASE b = a
        BY <1>3, <1>4, <4>2
      <4> QED
        BY <4>1, <4>2
    <3>2. PICK b \in Accounts : b = AccountOf(q) /\ b = AccountOf(q)'
      BY <2>2, <2>3
    <3>3. UnderItsId(b)' = UnderItsId(b)
      BY <2>4, <3>1, <3>2
    <3> QED
      BY <3>2, <3>3 DEF UnderItsId
  <2> QED
    BY <2>1, <2>2, <2>3, <2>5, EndFits
<1>8. /\ flow'[f] = "consumed" /\ made'[f] = made[f] + 1 /\ made[f] \in Nat
      /\ \A g \in Flows : g # f => flow'[g] = flow[g] /\ made'[g] = made[g]
  BY <1>2 DEF TypeOK
<1>9. ConsumedWithConnection'
  BY <1>8 DEF ConsumedWithConnection
<1>10. ReuseIsBounded'
  <2> SUFFICES ASSUME NEW g \in Flows
               PROVE  made'[g] + Cardinality(Holding(g)') <= Cardinality(Callbacks)
    BY DEF ReuseIsBounded
  <2>1. callback'[c] = Idle /\ \A q \in Callbacks : q # c => callback'[q] = callback[q]
    BY EndFits
  <2>2. Holding(g)' = Holding(g) \ {c}
    BY <2>1 DEF Holding, FlowOf, Idle
  <2>3. /\ IsFiniteSet(Holding(g)) /\ Cardinality(Holding(g)) \in Nat
        /\ Cardinality(Callbacks) \in Nat
    BY HoldingFinite
  <2>4. made[g] + Cardinality(Holding(g)) <= Cardinality(Callbacks) /\ made[g] \in Nat
    BY DEF ReuseIsBounded, TypeOK
  <2>5. Cardinality(Holding(g)') = IF c \in Holding(g) THEN Cardinality(Holding(g)) - 1
                                  ELSE Cardinality(Holding(g))
    BY <2>2, <2>3, FS_RemoveElement
  <2>6. c \in Holding(f)
    BY DEF Holding
  <2> QED
    BY <1>8, <2>3, <2>4, <2>5, <2>6
<1> QED
  BY <1>6, <1>7, <1>9, <1>10, <1>5

LEMMA FlowNext == FlowInv /\ [Next]_vars => FlowInv'
<1> SUFFICES ASSUME FlowInv, [Next]_vars PROVE FlowInv'
  OBVIOUS
<1>1. CASE Environment
  BY <1>1, EnvironmentFits
<1>2. ASSUME NEW c \in Callbacks, Arrival(c) PROVE FlowInv'
  BY <1>2, ReadStateFits DEF Arrival
<1>3. ASSUME NEW c \in Callbacks, Step(c) \/ Abort(c) PROVE FlowInv'
  BY <1>3, AdvanceFits, InsertFits, CommitFits, GiveUpFits DEF Step
<1>4. CASE UNCHANGED vars
  BY <1>4 DEF vars, FlowInv, TypeOK, ClaimsFit, AccountOf, ConsumedWithConnection,
     ReuseIsBounded, Holding, FlowOf, OneUnderItsId, UnderItsId
<1> QED
  BY <1>1, <1>2, <1>3, <1>4 DEF Next

-----------------------------------------------------------------------------
(***************************************************************************)
(* How far the limit is overrun.                                           *)
(***************************************************************************)
\* The rows are finitely many, and so are the callbacks that passed the limit.
LEMMA CountsFinite ==
    ASSUME TypeOK
    PROVE  /\ IsFiniteSet(Active) /\ ActiveCount \in Nat
           /\ IsFiniteSet(Allowed) /\ Cardinality(Allowed) \in Nat
           /\ Cardinality(Callbacks) \in Nat /\ Cardinality(Allowed) <= Cardinality(Callbacks)
<1> DEFINE of  == [a \in Accounts |-> {a} \X DOMAIN conns[a]]
           all == {of[a] : a \in Accounts}
<1>1. IsFiniteSet(all)
  <2>1. of \in Surjection(Accounts, all)
    BY DEF Surjection
  <2> QED
    BY <2>1, ConstantsAssumption, FS_Surjection
<1>2. \A T \in all : IsFiniteSet(T)
  <2> SUFFICES ASSUME NEW a \in Accounts PROVE IsFiniteSet({a} \X DOMAIN conns[a])
    OBVIOUS
  <2>1. DOMAIN conns[a] = 1..Len(conns[a]) /\ Len(conns[a]) \in Nat
    BY LenProperties DEF TypeOK
  <2>2. IsFiniteSet(DOMAIN conns[a])
    <3>1. \A n \in Nat : IsFiniteSet(1..n)
      BY FS_Interval
    <3> QED
      BY <2>1, <3>1
  <2> QED
    BY <2>2, FS_Singleton, FS_Product
<1>3. IsFiniteSet(Rows)
  BY <1>1, <1>2, FS_UNION DEF Rows
<1>4. Active \in SUBSET Rows /\ Allowed \in SUBSET Callbacks
  BY DEF Active, Allowed
<1> HIDE DEF all, of
<1>5. IsFiniteSet(Active) /\ ActiveCount \in Nat
  BY <1>3, <1>4, FS_Subset, FS_CardinalityType DEF ActiveCount
<1>6. /\ IsFiniteSet(Allowed) /\ Cardinality(Allowed) \in Nat
      /\ Cardinality(Callbacks) \in Nat /\ Cardinality(Allowed) <= Cardinality(Callbacks)
  BY <1>4, ConstantsAssumption, FS_Subset, FS_CardinalityType
<1> QED
  BY <1>5, <1>6

\* A step that lets no callback pass and makes no connection active.
LEMMA NothingAdded ==
    ASSUME TypeOK, OverrunIsBounded, Active' \subseteq Active, Allowed' \subseteq Allowed
    PROVE  OverrunIsBounded'
<1>1. /\ Cardinality(Active') \in Nat /\ Cardinality(Active') <= Cardinality(Active)
      /\ Cardinality(Allowed') \in Nat /\ Cardinality(Allowed') <= Cardinality(Allowed)
  BY CountsFinite, FS_Subset, FS_CardinalityType
<1> QED
  BY <1>1, CountsFinite, ConstantsAssumption DEF OverrunIsBounded, ActiveCount

\* Rows that are left alone count as before.
LEMMA SameActive == ASSUME UNCHANGED conns PROVE Active' = Active
BY DEF Active, Rows

LEMMA OverrunNext ==
    ASSUME FlowInv, TypeOK', OverrunIsBounded, [Next]_vars
    PROVE  OverrunIsBounded'
<1> USE DEF FlowInv
<1>1. CASE UNCHANGED <<conns, callback>>
  <2>1. Allowed' = Allowed
    BY <1>1 DEF Allowed
  <2> QED
    BY <1>1, <2>1, SameActive, NothingAdded
<1>2. ASSUME NEW f \in Flows, Authorize(f) \/ Expire(f) \/ Cleanup(f) PROVE OverrunIsBounded'
  BY <1>1, <1>2 DEF Authorize, Expire, Cleanup
<1>3. ASSUME NEW code \in Codes, Approve(code) PROVE OverrunIsBounded'
  BY <1>1, <1>3 DEF Approve
<1>4. ASSUME NEW a \in Accounts, Retire(a) PROVE OverrunIsBounded'
  <2>1. PICK i \in DOMAIN conns[a] : conns' = [conns EXCEPT ![a][i].status = "retired"]
    BY <1>4 DEF Retire
  <2>2. \A b \in Accounts : DOMAIN conns'[b] = DOMAIN conns[b]
    BY <2>1, RetireKeepsIds
  <2>3. \A b \in Accounts : \A j \in DOMAIN conns[b] :
            conns'[b][j].status \in {conns[b][j].status, "retired"}
    BY <2>1, RetireKeepsIds
  <2>4. Active' \subseteq Active
    BY <2>2, <2>3 DEF Active, Rows
  <2>5. Allowed' = Allowed
    BY <1>4 DEF Retire, Allowed
  <2> QED
    BY <2>4, <2>5, NothingAdded
<1>5. ASSUME NEW c \in Callbacks, UNCHANGED conns,
             \A q \in Callbacks : q # c => callback'[q] = callback[q],
             \/ callback'[c].phase \in {"idle", "read", "claimed"}
             \/ callback[c].phase \in {"allowed", "exchanged", "inserted"}
      PROVE  OverrunIsBounded'
  <2>1. Allowed' \subseteq Allowed
    BY <1>5 DEF Allowed
  <2> QED
    BY <1>5, <2>1, SameActive, NothingAdded
<1>6. ASSUME NEW c \in Callbacks, NEW code \in Codes, ReadState(c, code) PROVE OverrunIsBounded'
  BY <1>5, <1>6 DEF ReadState, Taken, TypeOK
<1>7. ASSUME NEW c \in Callbacks, MarkConsumed(c) PROVE OverrunIsBounded'
  <2>1. /\ callback'[c].phase = "claimed"
        /\ \A q \in Callbacks : q # c => callback'[q] = callback[q]
    BY <1>7, GoesFits DEF MarkConsumed, Phases
  <2> QED
    BY <1>5, <1>7, <2>1 DEF MarkConsumed
<1>8. ASSUME NEW c \in Callbacks, Exchange(c) \/ Insert(c) PROVE OverrunIsBounded'
  <2>1. \A q \in Callbacks : q # c => callback'[q] = callback[q]
    BY <1>8, ToldFits DEF Insert, Goes, TypeOK
  <2> QED
    BY <1>5, <1>8, <2>1 DEF Exchange, Insert
<1>9. ASSUME NEW c \in Callbacks, Raise(c) \/ Abort(c) PROVE OverrunIsBounded'
  <2>1. EndTransaction(c) /\ UNCHANGED conns
    BY <1>9 DEF Raise, Abort
  <2> QED
    BY <1>5, <2>1, EndFits DEF Idle
\* The check: what is committed is below the limit, and no more than all
\* callbacks have passed it.
<1>10. ASSUME NEW c \in Callbacks, CheckLimit(c) PROVE OverrunIsBounded'
  <2>1. ActiveCount' = ActiveCount
    BY <1>10, SameActive DEF CheckLimit, ActiveCount
  <2>2. ActiveCount \in Nat /\ ActiveCount <= Limit - 1
    BY <1>10, CountsFinite, ConstantsAssumption DEF CheckLimit
  <2>3. Allowed' \in SUBSET Callbacks
    BY DEF Allowed
  <2>4. /\ Cardinality(Allowed') \in Nat /\ Cardinality(Callbacks) \in Nat
        /\ Cardinality(Allowed') <= Cardinality(Callbacks)
    BY <2>3, ConstantsAssumption, FS_Subset, FS_CardinalityType
  <2> QED
    BY <2>1, <2>2, <2>4, ConstantsAssumption DEF OverrunIsBounded
\* The commit: one more row is active, and one callback fewer has passed.
<1>11. ASSUME NEW c \in Callbacks, Commit(c) PROVE OverrunIsBounded'
  <2>1. PICK a \in Accounts, n \in Nat : Makes(c, a, n)
    BY <1>11, CommitAppends
  <2>2. /\ \A b \in Accounts : b # a => conns'[b] = conns[b]
        /\ DOMAIN conns[a] = 1..(n - 1) /\ DOMAIN conns'[a] = 1..n /\ n > 0
        /\ conns'[a][n].status = "active"
        /\ \A j \in 1..(n - 1) : conns'[a][j] = conns[a][j]
    BY <2>1 DEF Makes
  <2>3. <<a, n>> \notin Active
    BY <2>1, <2>2 DEF Active, Rows
  <2>4. Active' = Active \cup {<<a, n>>}
    BY <2>1, <2>2 DEF Active, Rows
  <2>5. ActiveCount' = ActiveCount + 1 /\ ActiveCount \in Nat
    BY <2>3, <2>4, CountsFinite, FS_AddElement DEF ActiveCount
  <2>6. c \in Allowed /\ Allowed' = Allowed \ {c}
    BY <1>11, EndFits DEF Commit, Allowed, Idle
  <2>7. Cardinality(Allowed') = Cardinality(Allowed) - 1
    BY <2>6, CountsFinite, FS_RemoveElement
  <2> QED
    BY <2>5, <2>7, CountsFinite, ConstantsAssumption DEF OverrunIsBounded
<1>12. CASE UNCHANGED vars
  BY <1>1, <1>12 DEF vars
<1> QED
  BY <1>2, <1>3, <1>4, <1>6, <1>7, <1>8, <1>9, <1>10, <1>11, <1>12
     DEF Next, Environment, Arrival, Step

-----------------------------------------------------------------------------
\* The invariant, and with it the types, hold in every reachable state.
THEOREM FlowInductive == Spec => []FlowInv
BY FlowInit, FlowNext, PTL DEF Spec

\* A state is consumed exactly when a connection was made with it.
THEOREM ConsumedConnects == Spec => []ConsumedWithConnection
<1>1. FlowInv => ConsumedWithConnection
  BY DEF FlowInv
<1> QED
  BY <1>1, FlowInductive, PTL

\* A state leads to no more connections than there were callbacks in flight.
THEOREM ReuseBounded == Spec => []ReuseIsBounded
<1>1. FlowInv => ReuseIsBounded
  BY DEF FlowInv
<1> QED
  BY <1>1, FlowInductive, PTL

\* An account keeps the one connection it has under its id, and a retired one is
\* not put back into service, however the lookups of later callbacks are answered.
THEOREM NeverReconnected == Spec => NoWayBack
<1> DEFINE Stays == \A a \in Accounts : \A i \in UnderItsId(a) :
                       /\ UnderItsId(a)' = {i}
                       /\ conns[a][i].status = "retired" => conns'[a][i].status = "retired"
<1>1. FlowInv /\ [Next]_vars => [Stays]_conns
  <2> SUFFICES ASSUME FlowInv, [Next]_vars, conns' # conns,
                      NEW a \in Accounts, NEW i \in UnderItsId(a)
               PROVE  /\ UnderItsId(a)' = {i}
                      /\ conns[a][i].status = "retired" => conns'[a][i].status = "retired"
    OBVIOUS
  <2> USE DEF FlowInv
  <2>1. UnderItsId(a) = {i} /\ i \in DOMAIN conns[a]
    BY DEF OneUnderItsId, UnderItsId
  <2>2. ASSUME NEW b \in Accounts, Retire(b)
        PROVE  /\ UnderItsId(a)' = {i}
               /\ conns[a][i].status = "retired" => conns'[a][i].status = "retired"
    <3>1. PICK j \in DOMAIN conns[b] : conns' = [conns EXCEPT ![b][j].status = "retired"]
      BY <2>2 DEF Retire
    <3> QED
      BY <2>1, <3>1, RetireKeepsIds
  <2>3. ASSUME NEW c \in Callbacks, Commit(c)
        PROVE  /\ UnderItsId(a)' = {i}
               /\ conns[a][i].status = "retired" => conns'[a][i].status = "retired"
    <3>1. PICK b \in Accounts, n \in Nat : Makes(c, b, n)
      BY <2>3, CommitAppends
    <3>2. /\ b = AccountOf(c)
          /\ \A d \in Accounts : d # b => conns'[d] = conns[d] /\ UnderItsId(d)' = UnderItsId(d)
          /\ DOMAIN conns[b] = 1..(n - 1)
          /\ \A j \in 1..(n - 1) : conns'[b][j] = conns[b][j]
          /\ ~callback[c].told => UnderItsId(b)' = UnderItsId(b)
      BY <3>1 DEF Makes
    <3>3. b # a \/ ~callback[c].told
      <4>1. callback[c].phase = "inserted"
        BY <2>3 DEF Commit
      <4>2. callback[c].told => UnderItsId(b) = {}
        BY <3>2, <4>1 DEF ClaimsFit
      <4> QED
        BY <2>1, <4>2
    <3>4. UnderItsId(a)' = UnderItsId(a)
      BY <3>1, <3>2, <3>3
    <3>5. conns'[a][i] = conns[a][i]
      BY <2>1, <3>1, <3>2
    <3> QED
      BY <2>1, <3>4, <3>5
  <2> QED
    BY <2>2, <2>3 DEF Next, Environment, Authorize, Expire, Cleanup, Approve, Arrival, ReadState,
       Step, MarkConsumed, CheckLimit, Exchange, Insert, Raise, Abort, vars
<1> QED
  BY <1>1, FlowInductive, PTL DEF Spec, NoWayBack

\* The limit of connections is overrun by less than the callbacks in flight.
THEOREM Overrun == Spec => []OverrunIsBounded
<1>1. Init => OverrunIsBounded
  <2> SUFFICES ASSUME Init PROVE OverrunIsBounded
    OBVIOUS
  <2>1. TypeOK
    BY FlowInit DEF FlowInv
  <2>2. Active = {} /\ Allowed = {}
    BY DEF Init, Active, Rows, Allowed, Idle
  <2>3. ActiveCount = 0 /\ Cardinality(Allowed) = 0
    BY <2>2, FS_EmptySet DEF ActiveCount
  <2> QED
    BY <2>1, <2>3, CountsFinite, ConstantsAssumption DEF OverrunIsBounded
<1>2. FlowInv /\ FlowInv' /\ OverrunIsBounded /\ [Next]_vars => OverrunIsBounded'
  BY OverrunNext DEF FlowInv
<1> QED
  BY <1>1, <1>2, FlowInductive, PTL DEF Spec

=============================================================================
