------------------------- MODULE SubscriptionLedger -------------------------
(***************************************************************************)
(* What handle_stripe_webhook promises of a subscription, with no word     *)
(* about handlers, locks or transactions: every event of Stripe takes      *)
(* effect at most once, as a whole, and on the row as the events before it *)
(* left it.  Nothing is said about the order in which events take effect,  *)
(* and an event emitted before the row was first stored may be dropped     *)
(* even after it is: FOR UPDATE locks nothing where there is no row.       *)
(* StripeEvents implements it.                                             *)
(***************************************************************************)
EXTENDS Integers, Sequences

VARIABLES
    emitted,    \* the events Stripe has emitted
    processed,  \* the indices of those that took effect
    row,        \* the stored subscription
    born        \* history: how many events had been emitted when it was stored

vars == <<emitted, processed, row, born>>

NoRow == [status |-> "none", price |-> "none", plan |-> "none"]

Init == emitted = <<>> /\ processed = {} /\ row = NoRow /\ born = 0

\* Stripe emits more events.
Emit ==
    /\ Len(emitted) <= Len(emitted')
    /\ \A i \in 1..Len(emitted) : emitted'[i] = emitted[i]
    /\ UNCHANGED <<processed, row, born>>

\* The completed checkout stores the subscription as Stripe had it at some
\* moment since, with the plan that was bought.
CheckOut(i) ==
    \E j \in i..Len(emitted) :
        row' = [status |-> emitted[j].status, price |-> emitted[j].price,
                plan |-> emitted[i].price]

\* Any other event changes a subscription that is stored, or nothing.
Change(e) ==
    IF row = NoRow THEN NoRow
    ELSE CASE e.type \in {"updated", "deleted"} ->
                [status |-> e.status, price |-> e.price,
                 plan |-> IF e.price = row.price THEN row.plan ELSE e.price]
           [] e.type = "failed" -> [row EXCEPT !.status = "past_due"]
           [] OTHER -> [row EXCEPT !.status = IF @ = "past_due" THEN "active" ELSE @]

Dropped(i) == i <= born /\ row' = row

Process(i) ==
    /\ i \notin processed
    /\ processed' = processed \cup {i}
    /\ IF emitted[i].type = "checkout"
       THEN CheckOut(i)
       ELSE row' = Change(emitted[i]) \/ Dropped(i)
    /\ born' = IF row = NoRow /\ row' # NoRow THEN Len(emitted) ELSE born
    /\ UNCHANGED emitted

Next == Emit \/ \E i \in 1..Len(emitted) : Process(i)

Spec == Init /\ [][Next]_vars

=============================================================================
