----------------------------- MODULE OAuthFlow ------------------------------
(***************************************************************************)
(* How a connection comes to be: start_oauth_flow stores a state, the user *)
(* approves at the provider, the browser comes back with the state and a   *)
(* code, and handle_oauth_callback marks the state consumed, checks the    *)
(* plan's connection limit, exchanges the code and inserts the connection. *)
(* Callbacks run concurrently, each in one transaction.                    *)
(*                                                                         *)
(* The state is read without a lock and locked by the UPDATE that marks it *)
(* consumed, which SQLAlchemy sends before the next query.  Whose account  *)
(* was approved each callback asks the provider: a lookup that is not      *)
(* answered stores NULL, and the unique key on project, provider and       *)
(* account is about the rows only that have the account's id.  Here is one *)
(* user's one project; an account stands for a provider with an account.   *)
(***************************************************************************)
EXTENDS Integers, FiniteSets, Sequences

CONSTANTS
    Flows,       \* rows of oauth_states, one for each authorisation that is started
    Accounts,    \* the user's accounts at the providers
    Identified,  \* those whose provider's class asks for the account
    Callbacks,   \* callback requests in flight at a time
    Limit,       \* the plan's number of connections
    MaxCodes,    \* bound: approvals of one authorisation (reloads of its page)
    MaxRows,     \* bound: connections of one account
    Nobody

ASSUME ConstantsAssumption ==
    /\ Identified \subseteq Accounts
    /\ IsFiniteSet(Accounts) /\ IsFiniteSet(Callbacks)
    /\ Limit \in Nat \ {0} /\ MaxCodes \in Nat /\ MaxRows \in Nat
    /\ Nobody \notin Callbacks \cup Accounts \cup Flows

VARIABLES
    flow,      \* the committed row of each state
    codes,     \* the codes the provider has issued: unused or used
    conns,     \* the committed connections of each account: status, and if told
    locked,    \* the callback that has the row of a state locked
    claimed,   \* the callback that has inserted an account by its id, not committed
    callback,  \* the state of each callback request
    made       \* history: how many connections were made with each state

vars == <<flow, codes, conns, locked, claimed, callback, made>>

FlowStates == {"none", "open", "expired", "consumed", "gone"}
Codes      == [flow: Flows, account: Accounts, nth: 1..MaxCodes]
Connection == [status: {"active", "retired"}, told: BOOLEAN]
Idle       == [phase |-> "idle", code |-> Nobody, told |-> FALSE]
Phases     == {"idle",
               "read",       \* the state was read: not consumed, not expired
               "claimed",    \* the state is marked consumed and its row locked
               "allowed",    \* the user has fewer connections than the limit
               "exchanged",  \* tokens for the code are there, and told or not whose
               "inserted"}   \* connection and vault are inserted, webhooks posted

Init ==
    /\ flow = [f \in Flows |-> "none"]
    /\ codes = [unused |-> {}, used |-> {}]
    /\ conns = [a \in Accounts |-> <<>>]
    /\ locked = [f \in Flows |-> Nobody]
    /\ claimed = [a \in Accounts |-> Nobody]
    /\ callback = [c \in Callbacks |-> Idle]
    /\ made = [f \in Flows |-> 0]

-----------------------------------------------------------------------------
\* start_oauth_flow
Authorize(f) ==
    /\ flow[f] = "none"
    /\ flow' = [flow EXCEPT ![f] = "open"]
    /\ UNCHANGED <<codes, conns, locked, claimed, callback, made>>

\* The user opens the authorisation URL and approves (external): a code.
Approve(code) ==
    /\ flow[code.flow] # "none"
    /\ code \notin codes.unused \cup codes.used
    /\ codes' = [codes EXCEPT !.unused = @ \cup {code}]
    /\ UNCHANGED <<flow, conns, locked, claimed, callback, made>>

\* Ten minutes pass.
Expire(f) ==
    /\ flow[f] = "open"
    /\ flow' = [flow EXCEPT ![f] = "expired"]
    /\ UNCHANGED <<codes, conns, locked, claimed, callback, made>>

\* _cleanup_expired_states deletes what expired over an hour ago, consumed or
\* not: no callback that read the state before it expired is still running.
Cleanup(f) ==
    /\ flow[f] \in {"expired", "consumed"}
    /\ \A c \in Callbacks : callback[c].phase # "idle" => callback[c].code.flow # f
    /\ flow' = [flow EXCEPT ![f] = "gone"]
    /\ UNCHANGED <<codes, conns, locked, claimed, callback, made>>

\* A connection goes out of service (TokenRefresh): revoked or in error.
Retire(a) ==
    /\ \E i \in DOMAIN conns[a] :
          /\ conns[a][i].status = "active"
          /\ conns' = [conns EXCEPT ![a][i].status = "retired"]
    /\ UNCHANGED <<flow, codes, locked, claimed, callback, made>>

-----------------------------------------------------------------------------
(***************************************************************************)
(* handle_oauth_callback.                                                  *)
(***************************************************************************)
FlowOf(c)    == callback[c].code.flow
AccountOf(c) == callback[c].code.account

Goes(c, phase) == callback' = [callback EXCEPT ![c].phase = phase]

\* The rows of oauth_connections, the active ones and their COUNT.
Rows        == UNION {{a} \X DOMAIN conns[a] : a \in Accounts}
Active      == {row \in Rows : conns[row[1]][row[2]].status = "active"}
ActiveCount == Cardinality(Active)

\* The rows of an account that the unique key is about.
UnderItsId(a) == {i \in DOMAIN conns[a] : conns[a][i].told}

\* The callback that has read the state of its code.
Taken(code) == [phase |-> "read", code |-> code, told |-> FALSE]

\* Mutant of ReadState: the query does not ask for consumed_at.
ReadsConsumed(c, code) ==
    /\ callback[c].phase = "idle"
    /\ code \in codes.unused \cup codes.used
    /\ flow[code.flow] \in {"open", "consumed"}
    /\ callback' = [callback EXCEPT ![c] = Taken(code)]
    /\ UNCHANGED <<flow, codes, conns, locked, claimed, made>>

\* The browser comes with a code and its state, for the first time or again.
\* Unknown, consumed and expired states are answered with an error.
ReadState(c, code) ==
    /\ callback[c].phase = "idle"
    /\ code \in codes.unused \cup codes.used
    /\ flow[code.flow] = "open"
    /\ callback' = [callback EXCEPT ![c] = Taken(code)]
    /\ UNCHANGED <<flow, codes, conns, locked, claimed, made>>

\* The UPDATE of consumed_at waits for the row of the state.
MarkConsumed(c) ==
    /\ callback[c].phase = "read"
    /\ locked[FlowOf(c)] = Nobody
    /\ locked' = [locked EXCEPT ![FlowOf(c)] = c]
    /\ Goes(c, "claimed")
    /\ UNCHANGED <<flow, codes, conns, claimed, made>>

\* Mutant of CheckLimit: > for >=.
ChecksOffByOne(c) ==
    /\ callback[c].phase = "claimed"
    /\ ActiveCount <= Limit
    /\ Goes(c, "allowed")
    /\ UNCHANGED <<flow, codes, conns, locked, claimed, made>>

\* check_connection_limit counts the committed connections that are active.
CheckLimit(c) ==
    /\ callback[c].phase = "claimed"
    /\ ActiveCount < Limit
    /\ Goes(c, "allowed")
    /\ UNCHANGED <<flow, codes, conns, locked, claimed, made>>

\* exchange_code: the provider accepts a code once.  Then get_account_info, which
\* returns None whenever it is not answered with 200, or when the class has none.
Exchange(c) ==
    /\ callback[c].phase = "allowed"
    /\ callback[c].code \in codes.unused
    /\ codes' = [unused |-> codes.unused \ {callback[c].code},
                 used   |-> codes.used \cup {callback[c].code}]
    /\ \E told \in BOOLEAN :
          /\ told => AccountOf(c) \in Identified
          /\ callback' = [callback EXCEPT ![c].phase = "exchanged", ![c].told = told]
    /\ UNCHANGED <<flow, conns, locked, claimed, made>>

\* The transaction of c ends: its locks are freed and its session is gone.
EndTransaction(c) ==
    /\ locked' = [f \in Flows |-> IF locked[f] = c THEN Nobody ELSE locked[f]]
    /\ claimed' = [a \in Accounts |-> IF claimed[a] = c THEN Nobody ELSE claimed[a]]
    /\ callback' = [callback EXCEPT ![c] = Idle]

\* Mutant of Insert: no unique constraint.
InsertsAnyway(c) ==
    /\ callback[c].phase = "exchanged"
    /\ Len(conns[AccountOf(c)]) < MaxRows
    /\ Goes(c, "inserted")
    /\ UNCHANGED <<flow, codes, conns, locked, claimed, made>>

\* The INSERT of a connection waits for an uncommitted row of the same account.
\* A row whose account was not told, and one that is to get no account, is never
\* in the way.
Insert(c) ==
    LET a == AccountOf(c) IN
    /\ callback[c].phase = "exchanged"
    /\ Len(conns[a]) < MaxRows
    /\ IF callback[c].told
       THEN /\ claimed[a] = Nobody
            /\ UnderItsId(a) = {}
            /\ claimed' = [claimed EXCEPT ![a] = c]
       ELSE UNCHANGED claimed
    /\ Goes(c, "inserted")
    /\ UNCHANGED <<flow, codes, conns, locked, made>>

\* Webhooks are posted, the redirect is built: get_db commits.
Commit(c) ==
    /\ callback[c].phase = "inserted"
    /\ flow' = [flow EXCEPT ![FlowOf(c)] = "consumed"]
    /\ conns' = [conns EXCEPT ![AccountOf(c)] =
                    Append(@, [status |-> "active", told |-> callback[c].told])]
    /\ made' = [made EXCEPT ![FlowOf(c)] = @ + 1]
    /\ EndTransaction(c)
    /\ UNCHANGED codes

\* What makes the handler raise: the limit, a code the provider does not accept,
\* an account that is connected under its id, whatever its connection's status is.
Refused(c) ==
    \/ callback[c].phase = "claimed" /\ ActiveCount >= Limit
    \/ callback[c].phase = "allowed" /\ callback[c].code \in codes.used
    \/ /\ callback[c].phase = "exchanged" /\ callback[c].told
       /\ claimed[AccountOf(c)] = Nobody /\ UnderItsId(AccountOf(c)) # {}

\* Mutant of Raise: the state stays consumed.
RaiseConsumes(c) ==
    /\ Refused(c)
    /\ EndTransaction(c)
    /\ flow' = [flow EXCEPT ![FlowOf(c)] = "consumed"]
    /\ UNCHANGED <<codes, conns, made>>

\* The handler raises: rolled back, and the state is not consumed any more.
Raise(c) ==
    /\ Refused(c)
    /\ EndTransaction(c)
    /\ UNCHANGED <<flow, codes, conns, made>>

\* Mutant of Abort: the transaction is left open.
AbortLeaks(c) ==
    /\ callback[c].phase # "idle"
    /\ callback' = [callback EXCEPT ![c] = Idle]
    /\ UNCHANGED <<flow, codes, conns, locked, claimed, made>>

\* The provider, the database or the process fails.
Abort(c) ==
    /\ callback[c].phase # "idle"
    /\ EndTransaction(c)
    /\ UNCHANGED <<flow, codes, conns, made>>

-----------------------------------------------------------------------------
Environment ==
    \/ \E f \in Flows : Authorize(f) \/ Expire(f) \/ Cleanup(f)
    \/ \E code \in Codes : Approve(code)
    \/ \E a \in Accounts : Retire(a)

Arrival(c) == \E code \in Codes : ReadState(c, code)

Step(c) ==
    \/ MarkConsumed(c) \/ CheckLimit(c) \/ Exchange(c) \/ Insert(c)
    \/ Commit(c) \/ Raise(c)

Next ==
    \/ Environment
    \/ \E c \in Callbacks : Arrival(c) \/ Step(c) \/ Abort(c)

Spec == Init /\ [][Next]_vars

\* A callback that has started runs on (its calls to the provider time out), and
\* PostgreSQL grants a lock in the order it was asked for.
FairSpec == Spec /\ \A c \in Callbacks : SF_vars(Step(c))

-----------------------------------------------------------------------------
(***************************************************************************)
(* Properties.                                                             *)
(***************************************************************************)
\* The types of the tables, the locks and the callbacks.
TypeOK ==
    /\ flow \in [Flows -> FlowStates]
    /\ codes \in [unused: SUBSET Codes, used: SUBSET Codes]
    /\ conns \in [Accounts -> Seq(Connection)]
    /\ locked \in [Flows -> Callbacks \cup {Nobody}]
    /\ claimed \in [Accounts -> Callbacks \cup {Nobody}]
    /\ callback \in [Callbacks -> {Idle} \cup [phase: Phases \ {"idle"}, code: Codes,
                                           told: BOOLEAN]]
    /\ made \in [Flows -> Nat]

\* A state is consumed exactly when a connection was made with it: a callback that
\* is refused or fails leaves the state as it was, for the user to try again.
ConsumedWithConnection ==
    \A f \in Flows :
        /\ flow[f] = "consumed" => made[f] > 0
        /\ flow[f] \in {"none", "open", "expired"} => made[f] = 0

\* The callbacks that have passed the limit and not ended.
Allowed == {c \in Callbacks : callback[c].phase \in {"allowed", "exchanged", "inserted"}}

\* The limit is checked on what is committed, so it is overrun, but by no more than
\* the callbacks that were in flight together (not at all by one at a time).
OverrunIsBounded == ActiveCount + Cardinality(Allowed) <= Limit - 1 + Cardinality(Callbacks)

\* The callbacks that hold the state of f, which they read before it was consumed.
Holding(f) == {c \in Callbacks : callback[c].phase # "idle" /\ FlowOf(c) = f}

\* A state leads to one connection, or to one for each of the callbacks that were
\* in flight together when it was read: once it is consumed nobody uses it again.
ReuseIsBounded ==
    \A f \in Flows : made[f] + Cardinality(Holding(f)) <= Cardinality(Callbacks)

\* An account keeps the one connection it has under its id, and when that went out
\* of service it stays so: a new authorisation runs into the row.  Only one whose
\* lookup is not answered connects the account again, beside it and without the id.
NoWayBack ==
    [][\A a \in Accounts : \A i \in UnderItsId(a) :
          /\ UnderItsId(a)' = {i}
          /\ conns[a][i].status = "retired" => conns'[a][i].status = "retired"]_conns

\* A callback ends: the two locks it takes are always taken in the same order.
CallbacksEnd == \A c \in Callbacks : callback[c].phase # "idle" ~> callback[c].phase = "idle"

=============================================================================
