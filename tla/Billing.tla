------------------------------- MODULE Billing -------------------------------
(***************************************************************************)
(* What the plan of one user allows, day by day: the subscriptions that    *)
(* name the plan, the monthly and the daily usage records, which are rows  *)
(* of one table, and what get_usage tells the user of them.                *)
(*                                                                         *)
(* Handlers are one step each here, and Stripe's events come in order: the *)
(* interleavings are those of Metering, OAuthFlow and StripeEvents.  The   *)
(* user has one project, as the sums are over all that is the user's.      *)
(***************************************************************************)
EXTENDS Integers, FiniteSets, Functions

CONSTANTS
    Plans,          \* the plans with a price
    Limits,         \* PLAN_LIMITS, of "free" too
    Subscriptions,  \* bound: the subscriptions the user ever buys
    Period,         \* days between two invoices of a subscription
    MonthLength,    \* days of a month
    MaxDay,         \* bound: the last day
    MaxConns        \* bound: connections in service

ASSUME ConstantsAssumption ==
    /\ IsFiniteSet(Subscriptions)
    /\ Limits \in [Plans \cup {"free"} -> [connections: Nat \ {0},
                                            token_retrievals: Nat \ {0}]]
    /\ Period \in Nat \ {0} /\ MonthLength \in Nat \ {0} /\ MaxDay \in Nat /\ MaxConns \in Nat

VARIABLES
    today,
    sub,        \* the rows of subscriptions
    conns,      \* the number of active connections
    record,     \* the rows of usage_records, by period_start
    served,     \* history: the retrievals of the month
    invoiced    \* history: <<s, t>> when t was invoiced since s last was, if ever

vars == <<today, sub, conns, record, served, invoiced>>

Days     == 0..MaxDay
NoSub    == [plan |-> "free", status |-> "none", period_end |-> 0]
NoRecord == [token_retrievals |-> 0, connections_count |-> 0, there |-> FALSE]

FirstOf(d) == d - (d % MonthLength)

Init ==
    /\ today = 0
    /\ sub = [s \in Subscriptions |-> NoSub]
    /\ conns = 0
    /\ record = [d \in Days |-> NoRecord]
    /\ served = 0
    /\ invoiced = {}

-----------------------------------------------------------------------------
(***************************************************************************)
(* The plan in force.                                                      *)
(***************************************************************************)
\* The subscriptions with a status that _get_active_subscription asks for.
Running == {s \in Subscriptions : sub[s].status \in {"active", "trialing", "past_due"}}

\* Mutant of ActiveSubscription: the order is ascending.
EarliestEnding ==
    CHOOSE s \in Running : \A t \in Running : sub[s].period_end <= sub[t].period_end

\* Of those the one with the latest current_period_end.
ActiveSubscription ==
    CHOOSE s \in Running : \A t \in Running : sub[s].period_end >= sub[t].period_end

\* get_plan_name
PlanName == IF Running = {} THEN "free" ELSE sub[ActiveSubscription].plan

LimitOf(kind) == Limits[PlanName][kind]

-----------------------------------------------------------------------------
(***************************************************************************)
(* The month's usage.                                                      *)
(***************************************************************************)
\* Mutant of ThisMonth: > for >=.
LaterThisMonth == {d \in Days : record[d].there /\ d > FirstOf(today)}

\* The records with period_start in the month: the monthly one and the daily ones.
ThisMonth == {d \in Days : record[d].there /\ d >= FirstOf(today)}

Total(column) == SumFunctionOnSet([d \in Days |-> record[d][column]], ThisMonth)

\* What check_retrieval_limit and check_connection_limit refuse.
RetrievalRefused  == Total("token_retrievals") >= LimitOf("token_retrievals")
ConnectionRefused == conns >= LimitOf("connections")

\* Mutant of Warning: the threshold of 80 per cent is passed, not met.
WarnsLate(count, max) ==
    CASE count >= max -> "reached"
      [] count < max /\ 10 * count > 8 * max -> "approaching"
      [] OTHER -> "none"

\* The warning at 80 and at 100 per cent of a limit.
Warning(count, max) ==
    CASE count >= max -> "reached"
      [] count < max /\ 10 * count >= 8 * max -> "approaching"
      [] OTHER -> "none"

\* get_usage.  connections_count is the sum over the daily records; the warning is
\* about the connections there are.
Usage ==
    [token_retrievals  |-> Total("token_retrievals"),
     connections_count |-> Total("connections_count"),
     retrieval_warning  |-> Warning(Total("token_retrievals"), LimitOf("token_retrievals")),
     connection_warning |-> Warning(conns, LimitOf("connections"))]

-----------------------------------------------------------------------------
(***************************************************************************)
(* Subscriptions: a checkout, and what Stripe tells of one afterwards.     *)
(***************************************************************************)
Invoiced(s) ==
    invoiced' = {x \in invoiced : x[1] # s /\ x[2] # s}
                  \cup {<<t, s>> : t \in Subscriptions \ {s}}

\* Bound: no two subscriptions are invoiced at one instant.
OwnInstant(s, end) == \A t \in Subscriptions \ {s} : sub[t].period_end # end

\* A checkout is completed, whatever subscriptions there are: create_checkout_session
\* looks for none, and _handle_checkout_completed inserts the row.
Subscribe(s, plan) ==
    /\ sub[s] = NoSub
    /\ OwnInstant(s, today + Period)
    /\ sub' = [sub EXCEPT ![s] = [plan |-> plan, status |-> "active",
                                  period_end |-> today + Period]]
    /\ Invoiced(s)
    /\ UNCHANGED <<today, conns, record, served>>

\* The period is over: Stripe sends an invoice, which is paid or not.  In either
\* case the update moves current_period_end.
Renew(s, paid) ==
    /\ s \in Running /\ sub[s].period_end = today
    /\ OwnInstant(s, today + Period)
    /\ sub' = [sub EXCEPT ![s].period_end = today + Period,
                          ![s].status = IF paid THEN "active" ELSE "past_due"]
    /\ Invoiced(s)
    /\ UNCHANGED <<today, conns, record, served>>

\* invoice.payment_succeeded, of an invoice that was overdue.
Recover(s) ==
    /\ sub[s].status = "past_due"
    /\ sub' = [sub EXCEPT ![s].status = "active"]
    /\ UNCHANGED <<today, conns, record, served, invoiced>>

\* customer.subscription.deleted
Cancel(s) ==
    /\ s \in Running
    /\ sub' = [sub EXCEPT ![s].status = "canceled"]
    /\ UNCHANGED <<today, conns, record, served, invoiced>>

-----------------------------------------------------------------------------
(***************************************************************************)
(* Use.                                                                    *)
(***************************************************************************)
\* The monthly record, after track_token_retrieval.
Counted(r) == [r EXCEPT !.token_retrievals = @ + 1, !.there = TRUE]

\* get_token, within the limit.
Retrieve ==
    /\ ~RetrievalRefused
    /\ record' = [record EXCEPT ![FirstOf(today)] = Counted(@)]
    /\ served' = served + 1
    /\ UNCHANGED <<today, sub, conns, invoiced>>

\* handle_oauth_callback, within the limit.
Connect ==
    /\ conns < MaxConns
    /\ ~ConnectionRefused
    /\ conns' = conns + 1
    /\ UNCHANGED <<today, sub, record, served, invoiced>>

\* A connection is revoked, or in error.
Retire ==
    /\ conns > 0
    /\ conns' = conns - 1
    /\ UNCHANGED <<today, sub, record, served, invoiced>>

\* The daily record, after aggregate_daily_usage.
Daily(r) == [r EXCEPT !.connections_count = conns, !.there = TRUE]

\* aggregate_daily_usage, at midnight or late, or again by hand.
Aggregate ==
    /\ record' = [record EXCEPT ![today] = Daily(@)]
    /\ UNCHANGED <<today, sub, conns, served, invoiced>>

\* Stripe has sent the invoices of the day.
NextDay ==
    /\ today < MaxDay
    /\ \A s \in Running : sub[s].period_end > today
    /\ today' = today + 1
    /\ served' = IF FirstOf(today + 1) = today + 1 THEN 0 ELSE served
    /\ UNCHANGED <<sub, conns, record, invoiced>>

-----------------------------------------------------------------------------
Next ==
    \/ \E s \in Subscriptions :
          \/ \E plan \in Plans : Subscribe(s, plan)
          \/ \E paid \in BOOLEAN : Renew(s, paid)
          \/ Recover(s) \/ Cancel(s)
    \/ Retrieve \/ Connect \/ Retire \/ Aggregate \/ NextDay

Spec == Init /\ [][Next]_vars

-----------------------------------------------------------------------------
(***************************************************************************)
(* Properties.                                                             *)
(***************************************************************************)
\* The types of the rows.
TypeOK ==
    /\ today \in Days /\ conns \in 0..MaxConns /\ served \in Nat
    /\ sub \in [Subscriptions -> [plan: Plans \cup {"free"},
                                  status: {"none", "active", "past_due", "canceled"},
                                  period_end: Nat]]
    /\ record \in [Days -> [token_retrievals: Nat, connections_count: Nat, there: BOOLEAN]]
    /\ invoiced \subseteq Subscriptions \X Subscriptions

\* The sum that is held against the limit is what was served this month, however
\* often the daily job has run: on the first day it writes the monthly record, on
\* the others rows of its own, and last month's rows are left out.
MonthIsExact == Total("token_retrievals") = served

\* With several subscriptions, which nothing keeps a user from buying, the plan in
\* force is the one that was invoiced last, and so not always the one bought last,
\* nor one that is paid: the renewal of the old one takes an upgrade back.
PlanIsInvoicedLast ==
    IF Running = {} THEN PlanName = "free"
    ELSE \E s \in Running : /\ \A t \in Running \ {s} : <<t, s>> \in invoiced
                            /\ PlanName = sub[s].plan

\* "Limit reached" is told when the next use is refused and at no other time, and
\* "approaching" before it, unless the plan has changed, or the limit is below
\* five, of which no number but the limit is 80 per cent: the free plan's three
\* connections are reached without a warning.
WarnedFirst ==
    [][/\ (Usage.retrieval_warning = "reached") = RetrievalRefused
       /\ (Usage.connection_warning = "reached") = ConnectionRefused
       /\ Usage.retrieval_warning = "none" /\ RetrievalRefused' =>
             PlanName' # PlanName \/ LimitOf("token_retrievals") < 5
       /\ Usage.connection_warning = "none" /\ ConnectionRefused' =>
             PlanName' # PlanName \/ LimitOf("connections") < 5]_vars

=============================================================================
