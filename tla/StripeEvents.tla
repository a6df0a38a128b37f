---------------------------- MODULE StripeEvents ----------------------------
(***************************************************************************)
(* The Stripe webhook of oaupa-server: events about one subscription are   *)
(* delivered, in any order and more than once, to handlers that run        *)
(* concurrently, each in a transaction of its own.                         *)
(*                                                                         *)
(* A handler looks up the event id, runs the branch for the event's type,  *)
(* inserts the event id (unique) and commits.  A checkout first retrieves  *)
(* the subscription from Stripe.  Every branch reads the row FOR UPDATE,   *)
(* which waits for the row's lock when there is a row and locks nothing    *)
(* when there is none.  Prices and plans correspond one to one             *)
(* (PRICE_TO_PLAN), so a plan is named by its price.                       *)
(***************************************************************************)
EXTENDS Integers, Sequences

CONSTANTS
    Handlers,    \* webhook requests in flight at a time
    Prices,      \* the prices of PRICE_TO_PLAN, and their plans
    MaxEvents,   \* bound: events Stripe emits while the price stays
    MaxRepriced, \* bound: events Stripe emits when the price changes
    MaxAborts,   \* bound: handlers that fail
    Nobody

ASSUME ConstantsAssumption ==
    /\ MaxEvents \in Nat /\ MaxRepriced \in Nat /\ MaxAborts \in Nat
    /\ Nobody \notin Handlers
    /\ "none" \notin Prices

VARIABLES
    stripe,     \* the subscription at Stripe
    emitted,    \* the events Stripe has emitted about it
    processed,  \* the committed rows of stripe_events (indices of emitted)
    row,        \* the committed row of subscriptions
    lock,       \* the transaction that locks the row, or has inserted it
    handler,    \* the state of each webhook request
    aborts,     \* how many handlers have failed
    born,       \* history: how many events had been emitted when row was stored
    ordered     \* history: each event was delivered after the earlier ones were processed

vars == <<stripe, emitted, processed, row, lock, handler, aborts, born, ordered>>

Statuses == {"none", "active", "past_due", "canceled"}
Types    == {"checkout", "updated", "deleted", "failed", "succeeded"}
NoRow    == [status |-> "none", price |-> "none", plan |-> "none"]
NoSub    == [status |-> "none", price |-> "none"]
Idle     == [phase |-> "idle", event |-> 0, seen |-> NoSub, change |-> NoRow]

Init ==
    /\ stripe = NoSub
    /\ emitted = <<>>
    /\ processed = {}
    /\ row = NoRow
    /\ lock = Nobody
    /\ handler = [h \in Handlers |-> Idle]
    /\ aborts = 0
    /\ born = 0
    /\ ordered = TRUE

-----------------------------------------------------------------------------
(***************************************************************************)
(* Stripe (external).  The subscription changes, and an event is emitted   *)
(* for each thing the service listens to.                                  *)
(***************************************************************************)
Bound(price) ==
    IF \E k \in DOMAIN emitted : emitted[k].price # price THEN MaxRepriced ELSE MaxEvents

Becomes(status, price, types) ==
    /\ Len(emitted) + Len(types) <= Bound(price)
    /\ stripe' = [status |-> status, price |-> price]
    /\ emitted' = emitted \o [k \in DOMAIN types |->
                                [type |-> types[k], status |-> status, price |-> price]]
    /\ UNCHANGED <<processed, row, lock, handler, aborts, born, ordered>>

Subscribe(p) == stripe.status = "none" /\ Becomes("active", p, <<"checkout">>)

Running == stripe.status \in {"active", "past_due"}

PaymentFails    == Running /\ Becomes("past_due", stripe.price, <<"failed", "updated">>)
PaymentSucceeds ==
    \/ stripe.status = "active" /\ Becomes("active", stripe.price, <<"succeeded">>)
    \/ stripe.status = "past_due" /\ Becomes("active", stripe.price, <<"succeeded", "updated">>)
ChangePlan(p)   == Running /\ p # stripe.price /\ Becomes(stripe.status, p, <<"updated">>)
Cancel          == Running /\ Becomes("canceled", stripe.price, <<"deleted">>)

-----------------------------------------------------------------------------
(***************************************************************************)
(* The handlers.                                                           *)
(***************************************************************************)
Event(h) == emitted[handler[h].event]

\* handle_stripe_webhook: the event id is not among the committed ones.  (When
\* it is, the handler answers at once and nothing changes.)
Deliver(h, i) ==
    /\ handler[h].phase = "idle"
    /\ i \notin processed
    /\ ordered' = (ordered /\ 1..(i - 1) \subseteq processed)
    /\ handler' = [handler EXCEPT ![h] = [Idle EXCEPT !.phase = "checked", !.event = i]]
    /\ UNCHANGED <<stripe, emitted, processed, row, lock, aborts, born>>

\* _handle_checkout_completed: the subscription as Stripe has it now.
Retrieve(h) ==
    /\ handler[h].phase = "checked"
    /\ Event(h).type = "checkout"
    /\ handler' = [handler EXCEPT ![h].phase = "retrieved", ![h].seen = stripe]
    /\ UNCHANGED <<stripe, emitted, processed, row, lock, aborts, born, ordered>>

\* The row that a completed checkout stores: the plan is that of the session's
\* metadata, the rest what was retrieved.
CheckedOut(h) == [status |-> handler[h].seen.status, price |-> handler[h].seen.price,
                  plan |-> Event(h).price]

\* Mutant of UpdatedRow: the plan of the checkout stays.
UpdatesPriceOnly(h) ==
    [status |-> Event(h).status, price |-> Event(h).price, plan |-> row.plan]

\* The row after an update of the subscription: the plan changes with the price.
UpdatedRow(h) ==
    [status |-> Event(h).status, price |-> Event(h).price,
     plan |-> IF Event(h).price = row.price THEN row.plan ELSE Event(h).price]

\* Mutant of Effect: the deletion of a subscription is not listened to.
EffectIgnoresDeletion(h) ==
    CASE Event(h).type = "checkout"  -> CheckedOut(h)
      [] Event(h).type = "updated"   -> UpdatedRow(h)
      [] Event(h).type = "failed"    -> [row EXCEPT !.status = "past_due"]
      [] Event(h).type = "succeeded" ->
            [row EXCEPT !.status = IF @ = "past_due" THEN "active" ELSE @]
      [] OTHER                       -> row

\* What the branch for the event's type makes of the row it has read.
Effect(h) ==
    CASE Event(h).type = "checkout"  -> CheckedOut(h)
      [] Event(h).type \in {"updated", "deleted"} -> UpdatedRow(h)
      [] Event(h).type = "failed"    -> [row EXCEPT !.status = "past_due"]
      [] Event(h).type = "succeeded" ->
            [row EXCEPT !.status = IF @ = "past_due" THEN "active" ELSE @]

Ready(h) ==
    \/ handler[h].phase = "checked" /\ Event(h).type # "checkout"
    \/ handler[h].phase = "retrieved"

\* SELECT ... FOR UPDATE finds the row, waits for its lock and keeps it.
LockRow(h) ==
    /\ Ready(h)
    /\ row # NoRow
    /\ lock = Nobody
    /\ lock' = h
    /\ handler' = [handler EXCEPT ![h].phase = "applied", ![h].change = Effect(h)]
    /\ UNCHANGED <<stripe, emitted, processed, row, aborts, born, ordered>>

\* SELECT ... FOR UPDATE finds no committed row: a checkout goes on to insert
\* one, every other branch does nothing.
FindNoRow(h) ==
    /\ Ready(h)
    /\ row = NoRow
    /\ handler' = [handler EXCEPT ![h].phase =
                      IF Event(h).type = "checkout" THEN "inserting" ELSE "applied"]
    /\ UNCHANGED <<stripe, emitted, processed, row, lock, aborts, born, ordered>>

\* The INSERT waits for an uncommitted row with the same stripe_subscription_id.
\* When a row has been committed meanwhile it is refused and the handler raises.
InsertRow(h) ==
    /\ handler[h].phase = "inserting"
    /\ lock = Nobody
    /\ IF row = NoRow
       THEN /\ lock' = h
            /\ handler' = [handler EXCEPT ![h].phase = "applied", ![h].change = CheckedOut(h)]
       ELSE /\ handler' = [handler EXCEPT ![h] = Idle]
            /\ UNCHANGED lock
    /\ UNCHANGED <<stripe, emitted, processed, row, aborts, born, ordered>>

Release(h) ==
    /\ lock' = IF lock = h THEN Nobody ELSE lock
    /\ handler' = [handler EXCEPT ![h] = Idle]

\* Mutant of Finish: event ids need not be unique.
FinishAnyway(h) ==
    /\ handler[h].phase = "applied"
    /\ row' = IF lock = h THEN handler[h].change ELSE row
    /\ processed' = processed \cup {handler[h].event}
    /\ born' = IF row = NoRow /\ row' # NoRow THEN Len(emitted) ELSE born
    /\ Release(h)
    /\ UNCHANGED <<stripe, emitted, aborts, ordered>>

\* The event id is inserted and get_db commits; an id that another handler has
\* committed meanwhile is refused, and everything the handler did is undone.
Finish(h) ==
    /\ handler[h].phase = "applied"
    /\ IF handler[h].event \in processed
       THEN UNCHANGED <<row, processed>>
       ELSE /\ row' = IF lock = h THEN handler[h].change ELSE row
            /\ processed' = processed \cup {handler[h].event}
    /\ born' = IF row = NoRow /\ row' # NoRow THEN Len(emitted) ELSE born
    /\ Release(h)
    /\ UNCHANGED <<stripe, emitted, aborts, ordered>>

\* Mutant of Abort: the transaction is left open.
AbortLeaks(h) ==
    /\ handler[h].phase # "idle"
    /\ aborts < MaxAborts
    /\ aborts' = aborts + 1
    /\ handler' = [handler EXCEPT ![h] = Idle]
    /\ UNCHANGED <<stripe, emitted, processed, row, lock, born, ordered>>

\* Stripe cannot be reached, the process dies, the answer times out: rolled back,
\* and Stripe delivers the event again.
Abort(h) ==
    /\ handler[h].phase # "idle"
    /\ aborts < MaxAborts
    /\ aborts' = aborts + 1
    /\ Release(h)
    /\ UNCHANGED <<stripe, emitted, processed, row, born, ordered>>

-----------------------------------------------------------------------------
Stripe ==
    \/ \E p \in Prices : Subscribe(p) \/ ChangePlan(p)
    \/ PaymentFails \/ PaymentSucceeds \/ Cancel

Delivery(h) == \E i \in 1..Len(emitted) : Deliver(h, i)

Step(h) == Retrieve(h) \/ LockRow(h) \/ FindNoRow(h) \/ InsertRow(h) \/ Finish(h)

Next ==
    \/ Stripe
    \/ \E h \in Handlers : Delivery(h) \/ Step(h) \/ Abort(h)

Spec == Init /\ [][Next]_vars

(***************************************************************************)
(* Fairness.  Stripe delivers an event until it is answered with success   *)
(* (the bound on aborts stands for outages that end); a handler runs on.   *)
(***************************************************************************)
FairSpec ==
    /\ Spec
    /\ \A h \in Handlers : WF_vars(Delivery(h)) /\ WF_vars(Step(h))

-----------------------------------------------------------------------------
(***************************************************************************)
(* Properties.                                                             *)
(***************************************************************************)
Sub  == [status: Statuses, price: Prices \cup {"none"}]
Rows == [status: Statuses, price: Prices \cup {"none"}, plan: Prices \cup {"none"}]

\* The types of Stripe's state, the two tables and the handlers.
TypeOK ==
    /\ stripe \in Sub
    /\ emitted \in Seq([type: Types, status: Statuses, price: Prices])
    /\ processed \subseteq 1..Len(emitted)
    /\ row \in Rows
    /\ lock \in Handlers \cup {Nobody}
    /\ handler \in [Handlers -> [phase: {"idle", "checked", "retrieved", "inserting", "applied"},
                                 event: 0..Len(emitted), seen: Sub, change: Rows]]
    /\ aborts \in 0..MaxAborts
    /\ born \in 0..Len(emitted)
    /\ ordered \in BOOLEAN

\* All that Stripe has emitted is processed and no handler is at work.
Settled ==
    /\ processed = 1..Len(emitted)
    /\ \A h \in Handlers : handler[h].phase = "idle"

\* When every event has been handled the stored status and price are Stripe's.
RowSettles ==
    Settled => row.status = stripe.status /\ row.price = stripe.price

\* So it is when events are delivered one after the other (each perhaps to two
\* handlers at once), even though a checkout stores a later state than its own and
\* the events since are then replayed on it.
InOrderSettles == ordered => RowSettles

\* The plan whose limits apply is the plan that is paid for, in whatever order the
\* events are handled, unless the price changed before the event of the checkout was
\* (the row then has the new price and the plan of the checkout, and the update finds
\* no difference).
PlanFollowsPrice ==
    \/ row.plan = row.price
    \/ \E i \in 1..born : emitted[i].price # emitted[1].price

\* Every event Stripe emits is processed in the end (it emits a bounded number).
EventsProcessed == <>[](processed = 1..Len(emitted))

-----------------------------------------------------------------------------
Ledger == INSTANCE SubscriptionLedger

\* Concurrent handlers, duplicates and failures included, each event takes effect
\* at most once, whole, and on the row that the commit before it left (an event
\* older than the row may be dropped).
ImplementsLedger == Ledger!Spec

=============================================================================
