------------------------- MODULE StripeEventsProofs -------------------------
(***************************************************************************)
(* StripeEvents implements SubscriptionLedger, for any number of handlers, *)
(* events, prices and failures: handlers that run at once, duplicates and  *)
(* rollbacks never make an event count twice or in part; and what is       *)
(* stored comes to what Stripe has.                                        *)
(***************************************************************************)
EXTENDS StripeEvents, SequenceTheorems, TLAPS

EventSet == [type: Types, status: Statuses, price: Prices]

\* What Stripe shows of the subscription with event e.
Shown(e) == [status |-> e.status, price |-> e.price]

(***************************************************************************)
(* The inductive invariant.                                                *)
(***************************************************************************)
\* Stripe's subscription is as its last event says.
StripeFits ==
    stripe = IF Len(emitted) = 0 THEN NoSub ELSE Shown(emitted[Len(emitted)])

\* What the handler of a checkout has retrieved is what Stripe showed at its event or
\* a later one.
SeenFits(h) ==
    \E j \in handler[h].event..Len(emitted) : handler[h].seen = Shown(emitted[j])

\* What the handler that locks the row is to store is what its event makes of the row
\* as it is.
ChangeFits(h) ==
    IF Event(h).type = "checkout"
    THEN \E j \in handler[h].event..Len(emitted) :
            handler[h].change = [status |-> emitted[j].status, price |-> emitted[j].price,
                                 plan |-> Event(h).price]
    ELSE row # NoRow /\ handler[h].change = Ledger!Change(Event(h))

\* A handler that has found no row drops its event, which is then older than the row.
DropFits(h) ==
    Event(h).type # "checkout" /\ (row = NoRow \/ handler[h].event <= born)

HandlerFits(h) ==
    /\ lock = h => handler[h].phase = "applied"
    /\ handler[h].phase # "idle" => handler[h].event \in 1..Len(emitted)
    /\ handler[h].phase \in {"retrieved", "inserting"} =>
          Event(h).type = "checkout" /\ SeenFits(h)
    /\ handler[h].phase = "applied" /\ lock = h => ChangeFits(h)
    /\ handler[h].phase = "applied" /\ lock # h => DropFits(h)

StripeInv == TypeOK /\ StripeFits /\ \A h \in Handlers : HandlerFits(h)

LEMMA StripeInit == Init => StripeInv
<1> SUFFICES ASSUME Init PROVE StripeInv
  OBVIOUS
<1> USE ConstantsAssumption DEF Init
<1>0. Len(emitted) = 0 /\ emitted \in Seq(EventSet)
  BY EmptySeq DEF EventSet
<1>1. TypeOK
  <2>1. stripe \in Sub /\ row \in Rows
    BY DEF NoSub, NoRow, Sub, Rows, Statuses
  <2>2. Idle \in [phase: {"idle", "checked", "retrieved", "inserting", "applied"},
                  event: 0..Len(emitted), seen: Sub, change: Rows]
    BY <1>0 DEF Idle, NoSub, NoRow, Sub, Rows, Statuses
  <2> QED
    BY <1>0, <2>1, <2>2 DEF TypeOK, EventSet
<1>2. StripeFits
  BY <1>0 DEF StripeFits
<1>3. \A h \in Handlers : HandlerFits(h)
  BY DEF HandlerFits, Idle
<1> QED
  BY <1>1, <1>2, <1>3 DEF StripeInv

-----------------------------------------------------------------------------
(***************************************************************************)
(* Stripe emits.                                                           *)
(***************************************************************************)
\* Some events more, the last of which shows the subscription as it then is.
Emits ==
    /\ emitted' \in Seq(EventSet)
    /\ Len(emitted) < Len(emitted')
    /\ \A i \in 1..Len(emitted) : emitted'[i] = emitted[i]
    /\ stripe' = Shown(emitted'[Len(emitted')])
    /\ UNCHANGED <<processed, row, lock, handler, aborts, born, ordered>>

LEMMA BecomesEmits ==
    ASSUME TypeOK, NEW types \in Seq(Types), Len(types) > 0,
           NEW status \in Statuses, NEW price \in Prices, Becomes(status, price, types)
    PROVE  Emits
<1> DEFINE new == [k \in DOMAIN types |->
                      [type |-> types[k], status |-> status, price |-> price]]
<1>1. emitted \in Seq(EventSet)
  BY DEF TypeOK, EventSet
<1>2. new \in Seq(EventSet) /\ Len(new) = Len(types)
  <2>1. \A k \in 1..Len(types) : new[k] \in EventSet
    BY ElementOfSeq DEF EventSet
  <2>2. new = [k \in 1..Len(types) |-> new[k]]
    OBVIOUS
  <2> QED
    BY <2>1, <2>2, IsASeq
<1>3. emitted' = emitted \o new /\ stripe' = [status |-> status, price |-> price]
  BY DEF Becomes
<1> HIDE DEF new
<1>4. /\ emitted' \in Seq(EventSet) /\ Len(emitted') = Len(emitted) + Len(new)
      /\ \A i \in 1..Len(emitted) + Len(new) :
            emitted'[i] = IF i <= Len(emitted) THEN emitted[i] ELSE new[i - Len(emitted)]
  BY <1>1, <1>2, <1>3, ConcatProperties
<1>5. Len(emitted) \in Nat /\ Len(new) \in Nat /\ Len(new) > 0
  BY <1>1, <1>2, LenProperties
<1>6. emitted'[Len(emitted')] = new[Len(new)]
  BY <1>4, <1>5
<1>7. Shown(new[Len(new)]) = [status |-> status, price |-> price]
  BY <1>2, <1>5 DEF new, Shown
<1> QED
  BY <1>3, <1>4, <1>5, <1>6, <1>7 DEF Emits, Becomes

LEMMA StripeEmits ==
    ASSUME StripeInv, Stripe
    PROVE  Emits
<1> USE DEF StripeInv
<1>1. TypeOK
  OBVIOUS
<1>2. ASSUME stripe.status # "none" PROVE stripe.status \in Statuses /\ stripe.price \in Prices
  <2>1. emitted \in Seq(EventSet)
    BY DEF TypeOK, EventSet
  <2>2. Len(emitted) \in Nat
    BY <2>1, LenProperties
  <2>3. Len(emitted) # 0 /\ stripe = Shown(emitted[Len(emitted)])
    BY <1>2 DEF StripeFits, NoSub
  <2>4. emitted[Len(emitted)] \in EventSet
    BY <2>1, <2>2, <2>3, ElementOfSeq
  <2> QED
    BY <2>3, <2>4 DEF Shown, EventSet
<1>3. \A t, u \in Types : /\ <<t>> \in Seq(Types) /\ Len(<<t>>) = 1
                          /\ <<t, u>> \in Seq(Types) /\ Len(<<t, u>>) = 2
  OBVIOUS
<1> HIDE DEF StripeInv
<1>4. \A price \in Prices, status \in Statuses, t, u \in Types :
         Becomes(status, price, <<t>>) \/ Becomes(status, price, <<t, u>>) => Emits
  <2> TAKE price \in Prices, status \in Statuses, t, u \in Types
  <2>1. ASSUME Becomes(status, price, <<t>>) PROVE Emits
    <3>1. <<t>> \in Seq(Types) /\ Len(<<t>>) > 0
      BY <1>3
    <3> QED
      BY <1>1, <2>1, <3>1, BecomesEmits
  <2>2. ASSUME Becomes(status, price, <<t, u>>) PROVE Emits
    <3>1. <<t, u>> \in Seq(Types) /\ Len(<<t, u>>) > 0
      BY <1>3
    <3> QED
      BY <1>1, <2>2, <3>1, BecomesEmits
  <2> QED
    BY <2>1, <2>2
<1>5. Types = {"checkout", "updated", "deleted", "failed", "succeeded"}
      /\ Statuses = {"none", "active", "past_due", "canceled"}
  BY DEF Types, Statuses
<1> HIDE DEF StripeInv
<1>6. ASSUME NEW p \in Prices, Subscribe(p) PROVE Emits
  BY <1>4, <1>5, <1>6 DEF Subscribe
<1>7. ASSUME NEW p \in Prices, ChangePlan(p) PROVE Emits
  BY <1>2, <1>4, <1>5, <1>7 DEF ChangePlan, Running
<1>8. CASE PaymentFails
  BY <1>2, <1>4, <1>5, <1>8 DEF PaymentFails, Running
<1>9. CASE PaymentSucceeds
  BY <1>2, <1>4, <1>5, <1>9 DEF PaymentSucceeds
<1>10. CASE Cancel
  BY <1>2, <1>4, <1>5, <1>10 DEF Cancel, Running
<1> QED
  BY <1>6, <1>7, <1>8, <1>9, <1>10 DEF Stripe

LEMMA EmitsFits ==
    ASSUME StripeInv, Emits
    PROVE  StripeInv'
<1> USE DEF StripeInv, Emits
<1>1. Len(emitted) \in Nat /\ Len(emitted') \in Nat
  BY LenProperties DEF TypeOK
<1>2. 0..Len(emitted) \subseteq 0..Len(emitted') /\ 1..Len(emitted) \subseteq 1..Len(emitted')
  BY <1>1
<1>3. TypeOK'
  <2>1. emitted'[Len(emitted')] \in EventSet
    BY <1>1, ElementOfSeq
  <2>2. stripe' \in Sub
    BY <2>1 DEF Shown, EventSet, Sub
  <2>3. handler' \in [Handlers -> [phase: {"idle", "checked", "retrieved", "inserting",
                                           "applied"},
                                   event: 0..Len(emitted'), seen: Sub, change: Rows]]
    BY <1>2 DEF TypeOK
  <2> QED
    BY <1>2, <2>2, <2>3 DEF TypeOK, EventSet
<1>4. StripeFits'
  BY <1>1 DEF StripeFits
<1>5. ASSUME NEW h \in Handlers PROVE HandlerFits(h)'
  <2>1. handler[h].phase # "idle" => Event(h)' = Event(h)
    BY DEF HandlerFits, Event
  <2>2. handler[h].phase # "idle" =>
           \A j \in handler[h].event..Len(emitted) :
              j \in handler[h].event..Len(emitted') /\ emitted'[j] = emitted[j]
    BY <1>1 DEF HandlerFits
  <2>3. handler[h].phase # "idle" /\ SeenFits(h) => SeenFits(h)'
    BY <2>2 DEF SeenFits
  <2>4. handler[h].phase # "idle" /\ ChangeFits(h) => ChangeFits(h)'
    <3> SUFFICES ASSUME handler[h].phase # "idle", ChangeFits(h) PROVE ChangeFits(h)'
      OBVIOUS
    <3>1. Ledger!Change(Event(h))' = Ledger!Change(Event(h))
      BY <2>1 DEF Ledger!Change, Ledger!NoRow
    <3>2. CASE Event(h).type = "checkout"
      BY <2>1, <2>2, <3>2 DEF ChangeFits
    <3>3. CASE Event(h).type # "checkout"
      BY <2>1, <3>1, <3>3 DEF ChangeFits
    <3> QED
      BY <3>2, <3>3
  <2>5. handler[h].phase # "idle" /\ DropFits(h) => DropFits(h)'
    BY <2>1 DEF DropFits
  <2> QED
    BY <1>2, <2>1, <2>3, <2>4, <2>5 DEF HandlerFits
<1> QED
  BY <1>3, <1>4, <1>5

-----------------------------------------------------------------------------
(***************************************************************************)
(* The handlers.                                                           *)
(***************************************************************************)
HandlerStates ==
    [phase: {"idle", "checked", "retrieved", "inserting", "applied"},
     event: 0..Len(emitted), seen: Sub, change: Rows]

\* The event of a handler, which is one of Stripe's.
LEMMA EventFits ==
    ASSUME StripeInv, NEW h \in Handlers, handler[h].phase # "idle"
    PROVE  /\ Event(h) \in EventSet
           /\ Len(emitted) \in Nat /\ handler[h].event \in 1..Len(emitted)
<1>1. emitted \in Seq(EventSet)
  BY DEF StripeInv, TypeOK, EventSet
<1>2. Len(emitted) \in Nat /\ handler[h].event \in 1..Len(emitted)
  BY <1>1, LenProperties DEF StripeInv, HandlerFits
<1> QED
  BY <1>1, <1>2, ElementOfSeq DEF Event

\* A step of handler h that leaves the tables and the lock to the others.
LEMMA HandlerStep ==
    ASSUME StripeInv, NEW h \in Handlers, NEW new \in HandlerStates,
           handler' = [handler EXCEPT ![h] = new],
           UNCHANGED <<stripe, emitted, processed, row, aborts, born>>, ordered' \in BOOLEAN,
           lock' \in {lock, Nobody, h}, lock # h => lock' = lock \/ lock = Nobody,
           HandlerFits(h)'
    PROVE  StripeInv'
<1> USE DEF StripeInv
<1>1. handler'[h] = new /\ \A q \in Handlers : q # h => handler'[q] = handler[q]
  BY DEF TypeOK
<1>2. TypeOK'
  BY DEF TypeOK, HandlerStates
<1>3. StripeFits'
  BY DEF StripeFits
<1>4. ASSUME NEW q \in Handlers, q # h PROVE HandlerFits(q)'
  <2>1. Event(q)' = Event(q) /\ (lock' = q <=> lock = q)
    BY <1>1, <1>4, ConstantsAssumption DEF Event
  <2>2. HandlerFits(q)
    OBVIOUS
  <2>3. SeenFits(q)' = SeenFits(q)
    BY <1>1, <1>4 DEF SeenFits
  <2>4. ChangeFits(q)' = ChangeFits(q)
    <3>1. Ledger!Change(Event(q))' = Ledger!Change(Event(q))
      BY <2>1 DEF Ledger!Change, Ledger!NoRow
    <3> QED
      BY <1>1, <1>4, <2>1, <3>1 DEF ChangeFits
  <2>5. DropFits(q)' = DropFits(q)
    BY <1>1, <1>4, <2>1 DEF DropFits
  <2> QED
    BY <1>1, <1>4, <2>1, <2>2, <2>3, <2>4, <2>5 DEF HandlerFits
<1> QED
  BY <1>2, <1>3, <1>4

\* What a handler stores of an event that is not a checkout's.
LEMMA EffectIsChange ==
    ASSUME StripeInv, NEW h \in Handlers, handler[h].phase # "idle", row # NoRow,
           Event(h).type # "checkout"
    PROVE  Effect(h) = Ledger!Change(Event(h)) /\ Effect(h) \in Rows
<1>1. Event(h) \in EventSet /\ row \in Rows
  BY EventFits DEF StripeInv, TypeOK
<1>2. Event(h).type \in {"updated", "deleted", "failed", "succeeded"}
  BY <1>1 DEF EventSet, Types
<1>3. row # Ledger!NoRow
  BY DEF Ledger!NoRow, NoRow
<1>4. CASE Event(h).type \in {"updated", "deleted"}
  <2>1. Effect(h) = UpdatedRow(h)
    BY <1>4 DEF Effect
  <2>2. Ledger!Change(Event(h)) = UpdatedRow(h)
    BY <1>3, <1>4 DEF Ledger!Change, UpdatedRow
  <2>3. UpdatedRow(h) \in Rows
    BY <1>1 DEF UpdatedRow, EventSet, Rows
  <2> QED
    BY <2>1, <2>2, <2>3
<1>5. CASE Event(h).type = "failed"
  <2>1. Effect(h) = [row EXCEPT !.status = "past_due"]
    BY <1>5 DEF Effect
  <2>2. Ledger!Change(Event(h)) = [row EXCEPT !.status = "past_due"]
    BY <1>3, <1>5 DEF Ledger!Change
  <2>3. [row EXCEPT !.status = "past_due"] \in Rows
    BY <1>1 DEF Rows, Statuses
  <2> QED
    BY <2>1, <2>2, <2>3
<1>6. CASE Event(h).type = "succeeded"
  <2>1. Effect(h) = Ledger!Change(Event(h))
    BY <1>3, <1>6 DEF Effect, Ledger!Change
  <2>2. Effect(h) \in Rows
    BY <1>1, <1>6 DEF Effect, Rows, Statuses
  <2> QED
    BY <2>1, <2>2
<1> QED
  BY <1>2, <1>4, <1>5, <1>6

LEMMA DeliverFits ==
    ASSUME StripeInv, NEW h \in Handlers, NEW i \in 1..Len(emitted), Deliver(h, i)
    PROVE  StripeInv'
<1> DEFINE new == [Idle EXCEPT !.phase = "checked", !.event = i]
<1>1. new \in HandlerStates
  <2>1. NoSub \in Sub /\ NoRow \in Rows
    BY DEF NoSub, NoRow, Sub, Rows, Statuses
  <2>2. i \in 0..Len(emitted)
    OBVIOUS
  <2> QED
    BY <2>1, <2>2 DEF HandlerStates, Idle
<1>2. HandlerFits(h)'
  BY DEF StripeInv, TypeOK, Deliver, HandlerFits, Idle
<1>3. ordered' \in BOOLEAN
  BY Zenon DEF StripeInv, TypeOK, Deliver
<1> QED
  BY <1>1, <1>2, <1>3, HandlerStep DEF Deliver

LEMMA RetrieveFits ==
    ASSUME StripeInv, NEW h \in Handlers, Retrieve(h)
    PROVE  StripeInv'
<1> USE DEF Retrieve
<1> DEFINE new == [handler[h] EXCEPT !.phase = "retrieved", !.seen = stripe]
<1>1. new \in HandlerStates /\ handler' = [handler EXCEPT ![h] = new]
  BY DEF StripeInv, TypeOK, HandlerStates
<1>2. handler'[h] = new /\ Event(h)' = Event(h)
  BY <1>1 DEF StripeInv, TypeOK, Event
<1>3. SeenFits(h)'
  <2>1. Len(emitted) \in handler[h].event..Len(emitted) /\ Len(emitted) # 0
    BY EventFits
  <2>2. stripe = Shown(emitted[Len(emitted)])
    BY <2>1 DEF StripeInv, StripeFits
  <2> QED
    BY <1>1, <1>2, <2>1, <2>2 DEF SeenFits, StripeInv, TypeOK
<1>4. HandlerFits(h)'
  BY <1>1, <1>2, <1>3 DEF StripeInv, TypeOK, HandlerFits
<1> QED
  BY <1>1, <1>4, HandlerStep DEF StripeInv, TypeOK

\* What LockRow and InsertRow make of a checkout.
LEMMA CheckedOutFits ==
    ASSUME StripeInv, NEW h \in Handlers, handler[h].phase \in {"retrieved", "inserting"}
    PROVE  /\ CheckedOut(h) \in Rows
           /\ \E j \in handler[h].event..Len(emitted) :
                 CheckedOut(h) = [status |-> emitted[j].status, price |-> emitted[j].price,
                                  plan |-> Event(h).price]
<1>1. Event(h) \in EventSet /\ handler[h].seen \in Sub
  BY EventFits DEF StripeInv, TypeOK
<1>2. CheckedOut(h) \in Rows
  BY <1>1 DEF CheckedOut, EventSet, Sub, Rows
<1>3. PICK j \in handler[h].event..Len(emitted) : handler[h].seen = Shown(emitted[j])
  BY DEF StripeInv, HandlerFits, SeenFits
<1> QED
  BY <1>2, <1>3 DEF CheckedOut, Shown

LEMMA LockRowFits ==
    ASSUME StripeInv, NEW h \in Handlers, LockRow(h)
    PROVE  StripeInv'
<1> USE DEF LockRow
<1> DEFINE new == [handler[h] EXCEPT !.phase = "applied", !.change = Effect(h)]
<1>1. handler[h].phase # "idle"
  BY DEF Ready
<1>2. CASE Event(h).type = "checkout"
  <2>1. Effect(h) = CheckedOut(h) /\ handler[h].phase = "retrieved"
    BY <1>2 DEF Effect, Ready
  <2>2. new \in HandlerStates /\ handler' = [handler EXCEPT ![h] = new]
    BY <2>1, CheckedOutFits DEF StripeInv, TypeOK, HandlerStates
  <2>3. handler'[h] = new /\ Event(h)' = Event(h) /\ lock' = h
    BY <2>2 DEF StripeInv, TypeOK, Event
  <2>4. ChangeFits(h)'
    BY <1>2, <2>1, <2>2, <2>3, CheckedOutFits DEF ChangeFits, StripeInv, TypeOK
  <2>5. HandlerFits(h)'
    BY <1>1, <2>2, <2>3, <2>4 DEF StripeInv, TypeOK, HandlerFits
  <2> QED
    BY <2>2, <2>5, HandlerStep DEF StripeInv, TypeOK
<1>3. CASE Event(h).type # "checkout"
  <2>1. Effect(h) = Ledger!Change(Event(h)) /\ Effect(h) \in Rows
    BY <1>1, <1>3, EffectIsChange
  <2>2. new \in HandlerStates /\ handler' = [handler EXCEPT ![h] = new]
    BY <2>1 DEF StripeInv, TypeOK, HandlerStates
  <2>3. handler'[h] = new /\ Event(h)' = Event(h) /\ lock' = h
    BY <2>2 DEF StripeInv, TypeOK, Event
  <2>4. handler'[h].change = Effect(h)
    BY <2>2, <2>3 DEF StripeInv, TypeOK
  <2>5. Ledger!Change(Event(h))' = Ledger!Change(Event(h))
    BY <2>3 DEF Ledger!Change, Ledger!NoRow
  <2>6. ChangeFits(h)'
    BY <1>3, <2>1, <2>3, <2>4, <2>5 DEF ChangeFits
  <2>7. HandlerFits(h)'
    BY <1>1, <2>2, <2>3, <2>6 DEF StripeInv, TypeOK, HandlerFits
  <2> QED
    BY <2>2, <2>7, HandlerStep DEF StripeInv, TypeOK
<1> QED
  BY <1>2, <1>3

LEMMA FindNoRowFits ==
    ASSUME StripeInv, NEW h \in Handlers, FindNoRow(h)
    PROVE  StripeInv'
<1> USE DEF FindNoRow
<1> DEFINE phase == IF Event(h).type = "checkout" THEN "inserting" ELSE "applied"
           new == [handler[h] EXCEPT !.phase = phase]
<1>1. new \in HandlerStates /\ handler' = [handler EXCEPT ![h] = new]
  BY DEF StripeInv, TypeOK, HandlerStates
<1>2. handler'[h] = new /\ Event(h)' = Event(h) /\ lock' = lock
  BY <1>1 DEF StripeInv, TypeOK, Event
<1>3. handler[h].phase \in {"checked", "retrieved"} /\ lock # h
  BY DEF Ready, StripeInv, HandlerFits
<1>4. handler[h].phase = "retrieved" <=> Event(h).type = "checkout"
  BY <1>3 DEF Ready, StripeInv, HandlerFits
<1>5. Event(h).type = "checkout" => SeenFits(h)'
  BY <1>1, <1>2, <1>4 DEF SeenFits, StripeInv, TypeOK, HandlerFits
<1>6. Event(h).type # "checkout" => DropFits(h)'
  BY <1>2 DEF DropFits
<1>7. HandlerFits(h)'
  BY <1>1, <1>2, <1>3, <1>5, <1>6 DEF StripeInv, TypeOK, HandlerFits
<1> QED
  BY <1>1, <1>7, HandlerStep DEF StripeInv, TypeOK

LEMMA IdleFits ==
    ASSUME StripeInv
    PROVE  Idle \in HandlerStates
<1>1. Len(emitted) \in Nat
  BY LenProperties DEF StripeInv, TypeOK
<1>2. NoSub \in Sub /\ NoRow \in Rows
  BY DEF NoSub, NoRow, Sub, Rows, Statuses
<1> QED
  BY <1>1, <1>2 DEF HandlerStates, Idle

LEMMA InsertRowFits ==
    ASSUME StripeInv, NEW h \in Handlers, InsertRow(h)
    PROVE  StripeInv'
<1> USE DEF InsertRow
<1>1. CASE row = NoRow
  <2> DEFINE new == [handler[h] EXCEPT !.phase = "applied", !.change = CheckedOut(h)]
  <2>1. new \in HandlerStates /\ handler' = [handler EXCEPT ![h] = new]
    BY <1>1, CheckedOutFits DEF StripeInv, TypeOK, HandlerStates
  <2>2. handler'[h] = new /\ Event(h)' = Event(h) /\ lock' = h
    BY <1>1, <2>1 DEF StripeInv, TypeOK, Event
  <2>3. Event(h).type = "checkout"
    BY DEF StripeInv, HandlerFits
  <2>4. ChangeFits(h)'
    BY <2>1, <2>2, <2>3, CheckedOutFits DEF ChangeFits, StripeInv, TypeOK
  <2>5. HandlerFits(h)'
    BY <2>1, <2>2, <2>4 DEF StripeInv, TypeOK, HandlerFits
  <2> QED
    BY <2>1, <2>2, <2>5, HandlerStep DEF StripeInv, TypeOK
<1>2. CASE row # NoRow
  <2>1. handler' = [handler EXCEPT ![h] = Idle] /\ lock' = lock /\ lock # h
    BY <1>2, ConstantsAssumption
  <2>2. HandlerFits(h)'
    BY <2>1 DEF StripeInv, TypeOK, HandlerFits, Idle
  <2> QED
    BY <2>1, <2>2, IdleFits, HandlerStep DEF StripeInv, TypeOK
<1> QED
  BY <1>1, <1>2

\* What another handler knows stays true when h goes to rest, and with it the row is
\* stored if h has it locked.
LEMMA OthersFit ==
    ASSUME StripeInv, NEW h \in Handlers, Release(h), UNCHANGED emitted,
           row' # row => lock = h,
           born' = IF row = NoRow /\ row' # NoRow THEN Len(emitted) ELSE born,
           NEW q \in Handlers, q # h
    PROVE  HandlerFits(q)'
<1> USE DEF Release
<1>1. handler'[q] = handler[q] /\ Event(q)' = Event(q) /\ (lock' = q <=> lock = q)
  BY ConstantsAssumption DEF StripeInv, TypeOK, Event
<1>2. HandlerFits(q)
  BY DEF StripeInv
<1>3. SeenFits(q)' = SeenFits(q)
  BY <1>1 DEF SeenFits
<1>4. lock = q /\ ChangeFits(q) => ChangeFits(q)'
  <2> SUFFICES ASSUME lock = q, ChangeFits(q) PROVE ChangeFits(q)'
    OBVIOUS
  <2>1. row' = row
    OBVIOUS
  <2>2. Ledger!Change(Event(q))' = Ledger!Change(Event(q))
    BY <1>1, <2>1 DEF Ledger!Change, Ledger!NoRow
  <2> QED
    BY <1>1, <2>1, <2>2 DEF ChangeFits
<1>5. handler[q].phase # "idle" /\ DropFits(q) => DropFits(q)'
  <2>1. handler[q].phase # "idle" => handler[q].event <= Len(emitted)
    BY EventFits
  <2> QED
    BY <1>1, <2>1 DEF DropFits
<1> QED
  BY <1>1, <1>2, <1>3, <1>4, <1>5 DEF HandlerFits

\* The end of a handler, with the row it leaves.
LEMMA ReleaseFits ==
    ASSUME StripeInv, NEW h \in Handlers, Release(h), UNCHANGED <<stripe, emitted, ordered>>,
           row' \in Rows, row' # row => lock = h,
           born' = IF row = NoRow /\ row' # NoRow THEN Len(emitted) ELSE born,
           processed' \subseteq 1..Len(emitted), aborts' \in 0..MaxAborts
    PROVE  StripeInv'
<1>1. TypeOK'
  <2>1. Len(emitted) \in Nat
    BY LenProperties DEF StripeInv, TypeOK
  <2>2. born' \in 0..Len(emitted)
    BY <2>1 DEF StripeInv, TypeOK
  <2>3. handler' \in [Handlers -> HandlerStates]
    BY IdleFits DEF Release, StripeInv, TypeOK, HandlerStates
  <2>4. lock' \in Handlers \cup {Nobody}
    BY DEF Release, StripeInv, TypeOK
  <2>5. stripe' \in Sub /\ ordered' \in BOOLEAN
    BY Zenon DEF StripeInv, TypeOK
  <2> QED
    BY <2>2, <2>3, <2>4, <2>5 DEF StripeInv, TypeOK, HandlerStates
<1>2. StripeFits'
  BY DEF StripeInv, StripeFits
<1>3. HandlerFits(h)'
  <2>1. handler'[h] = Idle /\ lock' # h
    BY ConstantsAssumption DEF Release, StripeInv, TypeOK
  <2> QED
    BY <2>1 DEF HandlerFits, Idle
<1>4. \A q \in Handlers : q # h => HandlerFits(q)'
  BY OthersFit
<1> QED
  BY <1>1, <1>2, <1>3, <1>4 DEF StripeInv

LEMMA AbortFits ==
    ASSUME StripeInv, NEW h \in Handlers, Abort(h)
    PROVE  StripeInv'
<1>1. aborts' \in 0..MaxAborts
  BY ConstantsAssumption DEF Abort, StripeInv, TypeOK
<1> QED
  BY <1>1, ReleaseFits DEF Abort, StripeInv, TypeOK

LEMMA FinishFits ==
    ASSUME StripeInv, NEW h \in Handlers, Finish(h)
    PROVE  StripeInv'
<1>1. row' \in Rows /\ (row' # row => lock = h)
  BY DEF Finish, StripeInv, TypeOK
<1>2. processed' \subseteq 1..Len(emitted)
  BY EventFits DEF Finish, StripeInv, TypeOK
<1>3. aborts' \in 0..MaxAborts
  BY DEF Finish, StripeInv, TypeOK
<1> QED
  BY <1>1, <1>2, <1>3, ReleaseFits DEF Finish

LEMMA StripeNext == StripeInv /\ [Next]_vars => StripeInv'
<1> SUFFICES ASSUME StripeInv, [Next]_vars PROVE StripeInv'
  OBVIOUS
<1>1. CASE Stripe
  BY <1>1, StripeEmits, EmitsFits
<1>2. ASSUME NEW h \in Handlers, Delivery(h) PROVE StripeInv'
  BY <1>2, DeliverFits DEF Delivery
<1>3. ASSUME NEW h \in Handlers, Step(h) \/ Abort(h) PROVE StripeInv'
  BY <1>3, RetrieveFits, LockRowFits, FindNoRowFits, InsertRowFits, FinishFits, AbortFits DEF Step
<1>4. CASE UNCHANGED vars
  <2>1. TypeOK' /\ StripeFits'
    BY <1>4 DEF vars, StripeInv, TypeOK, StripeFits
  <2>2. ASSUME NEW h \in Handlers PROVE HandlerFits(h)'
    <3>1. Ledger!Change(Event(h))' = Ledger!Change(Event(h)) /\ Event(h)' = Event(h)
      BY <1>4 DEF vars, Event, Ledger!Change, Ledger!NoRow
    <3> QED
      BY <1>4, <3>1 DEF vars, StripeInv, HandlerFits, SeenFits, ChangeFits, DropFits
  <2> QED
    BY <2>1, <2>2 DEF StripeInv
<1> QED
  BY <1>1, <1>2, <1>3, <1>4 DEF Next

-----------------------------------------------------------------------------
(***************************************************************************)
(* The refinement.                                                         *)
(***************************************************************************)
\* A handler that commits processes its event, once and on the row as it was.
LEMMA FinishProcesses ==
    ASSUME StripeInv, NEW h \in Handlers, Finish(h)
    PROVE  [Ledger!Next]_(Ledger!vars)
<1> USE DEF Finish
<1> DEFINE i == handler[h].event
<1>1. handler[h].phase = "applied" /\ i \in 1..Len(emitted) /\ Event(h) = emitted[i]
  BY EventFits DEF Event
<1>2. CASE i \in processed
  BY <1>2 DEF Ledger!vars
<1>3. CASE i \notin processed
  <2>1. /\ processed' = processed \cup {i} /\ emitted' = emitted
        /\ row' = IF lock = h THEN handler[h].change ELSE row
        /\ born' = IF row = Ledger!NoRow /\ row' # Ledger!NoRow THEN Len(emitted) ELSE born
    BY <1>3 DEF NoRow, Ledger!NoRow
  <2>2. CASE lock = h
    <3>1. ChangeFits(h)
      BY <1>1, <2>2 DEF StripeInv, HandlerFits
    <3>2. CASE Event(h).type = "checkout"
      <4>1. Ledger!CheckOut(i)
        BY <1>1, <2>1, <2>2, <3>1, <3>2 DEF ChangeFits, Ledger!CheckOut
      <4> QED
        BY <1>1, <1>3, <2>1, <3>2, <4>1 DEF Ledger!Next, Ledger!Process
    <3>3. CASE Event(h).type # "checkout"
      <4>1. row' = Ledger!Change(emitted[i])
        BY <1>1, <2>1, <2>2, <3>1, <3>3 DEF ChangeFits
      <4> QED
        BY <1>1, <1>3, <2>1, <3>3, <4>1 DEF Ledger!Next, Ledger!Process
    <3> QED
      BY <3>2, <3>3
  <2>3. CASE lock # h
    <3>1. Event(h).type # "checkout" /\ (row = NoRow \/ i <= born) /\ row' = row
      BY <1>1, <2>1, <2>3 DEF StripeInv, HandlerFits, DropFits
    <3>2. row' = Ledger!Change(emitted[i]) \/ Ledger!Dropped(i)
      BY <3>1 DEF Ledger!Change, Ledger!Dropped, Ledger!NoRow, NoRow
    <3> QED
      BY <1>1, <1>3, <2>1, <3>1, <3>2 DEF Ledger!Next, Ledger!Process
  <2> QED
    BY <2>2, <2>3
<1> QED
  BY <1>2, <1>3

LEMMA StepIsLedgerStep == StripeInv /\ [Next]_vars => [Ledger!Next]_(Ledger!vars)
<1> SUFFICES ASSUME StripeInv, [Next]_vars PROVE [Ledger!Next]_(Ledger!vars)
  OBVIOUS
<1>1. CASE Stripe
  <2>1. Emits
    BY <1>1, StripeEmits
  <2>2. Len(emitted) \in Nat /\ Len(emitted') \in Nat
    BY <2>1, LenProperties DEF Emits, StripeInv, TypeOK
  <2> QED
    BY <2>1, <2>2 DEF Emits, Ledger!Next, Ledger!Emit
<1>2. ASSUME NEW h \in Handlers, Finish(h) PROVE [Ledger!Next]_(Ledger!vars)
  BY <1>2, FinishProcesses
<1>3. ASSUME NEW h \in Handlers,
             Delivery(h) \/ Retrieve(h) \/ LockRow(h) \/ FindNoRow(h) \/ InsertRow(h) \/ Abort(h)
      PROVE  UNCHANGED Ledger!vars
  BY <1>3 DEF Delivery, Deliver, Retrieve, LockRow, FindNoRow, InsertRow, Abort, Ledger!vars
<1>4. CASE UNCHANGED vars
  BY <1>4 DEF vars, Ledger!vars
<1> QED
  BY <1>1, <1>2, <1>3, <1>4 DEF Next, Step

-----------------------------------------------------------------------------
(***************************************************************************)
(* What the row comes to.  Events replayed on a later state may spoil it,  *)
(* but every change at Stripe emits an event that puts it right again.     *)
(***************************************************************************)
\* Event k states the subscription, or one after n does.
Changes(k)      == emitted[k].type \in {"updated", "deleted"}
ChangesAfter(n) == \E k \in DOMAIN emitted : k > n /\ Changes(k)

\* Whatever an event says that is no longer so is stated by a later one.
EventIsStated(k) ==
    /\ emitted[k].type = "checkout" <=> k = 1
    /\ emitted[k].status # "none"
    /\ emitted[k].type = "succeeded" => emitted[k].status = "active"
    /\ emitted[k].type = "failed" => ChangesAfter(k)
    /\ Shown(emitted[k]) = stripe \/ ChangesAfter(k)

EventsStated == \A k \in DOMAIN emitted : EventIsStated(k)

\* The row is the checkout's, and keeps the plan with the price.
RowFits ==
    /\ row = NoRow <=> 1 \notin processed
    /\ row = NoRow \/ row.price \in Prices
    /\ PlanFollowsPrice

\* What n events make of the row is as Stripe has it, or an event to come restates it.
UpTo(n) ==
    /\ processed = 1..n
    /\ n > 0 => ChangesAfter(n) \/ (row.status = stripe.status /\ row.price = stripe.price)

\* In order the handlers at work are at the next event, or at one that another has
\* processed, and one that is about to commit has the row.
InOrder ==
    /\ \E n \in 0..Len(emitted) : UpTo(n)
    /\ \A h \in Handlers :
          /\ handler[h].phase # "idle" => 1..(handler[h].event - 1) \subseteq processed
          /\ handler[h].phase = "applied" => lock = h

OrderInv == EventsStated /\ RowFits /\ (ordered => InOrder)

LEMMA OrderInit == Init => OrderInv
<1> SUFFICES ASSUME Init PROVE OrderInv
  OBVIOUS
<1> USE DEF Init
<1>1. EventsStated /\ Len(emitted) = 0
  BY DEF EventsStated
<1>2. RowFits
  BY DEF RowFits, PlanFollowsPrice, NoRow
<1>3. InOrder
  <2>1. 0 \in 0..Len(emitted) /\ UpTo(0)
    BY <1>1 DEF UpTo
  <2> QED
    BY <2>1 DEF InOrder, Idle
<1> QED
  BY <1>1, <1>2, <1>3 DEF OrderInv

-----------------------------------------------------------------------------
(***************************************************************************)
(* Stripe states what it changes.                                          *)
(***************************************************************************)
\* The last of what a change emits states it, unless nothing is changed by it.
Stated(status, price, types) ==
    /\ status # "none"
    /\ \A k \in DOMAIN types :
          /\ types[k] = "checkout" <=> Len(emitted) = 0
          /\ types[k] = "succeeded" => status = "active"
          /\ types[k] = "failed" => k < Len(types) /\ types[Len(types)] \in {"updated", "deleted"}
    /\ \/ types[Len(types)] \in {"updated", "deleted"}
       \/ Len(emitted) = 0 /\ Len(types) = 1
       \/ Len(emitted) # 0 /\ stripe = [status |-> status, price |-> price]

LEMMA BecomesStated ==
    ASSUME StripeInv, OrderInv, NEW types \in Seq(Types), Len(types) > 0,
           NEW status \in Statuses, NEW price \in Prices, Becomes(status, price, types),
           Stated(status, price, types)
    PROVE  OrderInv'
<1> DEFINE new == [k \in DOMAIN types |->
                      [type |-> types[k], status |-> status, price |-> price]]
           L == Len(emitted)
           N == Len(types)
<1>1. emitted \in Seq(EventSet) /\ L \in Nat /\ DOMAIN emitted = 1..L
  BY LenProperties DEF StripeInv, TypeOK, EventSet
<1>2. N \in Nat /\ N > 0 /\ DOMAIN types = 1..N
  BY LenProperties
<1>3. new \in Seq(EventSet) /\ Len(new) = N
  <2>1. \A k \in 1..N : new[k] \in EventSet
    BY ElementOfSeq DEF EventSet
  <2>2. new = [k \in 1..N |-> new[k]]
    BY <1>2
  <2> QED
    BY <1>2, <2>1, <2>2, IsASeq
<1>4. \A k \in 1..N : new[k].type = types[k] /\ Shown(new[k]) = [status |-> status, price |-> price]
                      /\ new[k].status = status
  BY <1>2 DEF Shown
<1>5. emitted' = emitted \o new /\ stripe' = [status |-> status, price |-> price]
      /\ UNCHANGED <<processed, row, lock, handler, aborts, born, ordered>>
  BY DEF Becomes
<1> HIDE DEF new
<1>6. /\ emitted' \in Seq(EventSet) /\ Len(emitted') = L + N /\ DOMAIN emitted' = 1..(L + N)
      /\ \A i \in 1..L : emitted'[i] = emitted[i]
      /\ \A k \in 1..N : emitted'[L + k] = new[k]
  <2>0. /\ emitted' \in Seq(EventSet) /\ Len(emitted') = Len(emitted) + Len(new)
        /\ \A i \in 1..Len(emitted) + Len(new) :
              emitted'[i] = IF i <= Len(emitted) THEN emitted[i] ELSE new[i - Len(emitted)]
    BY <1>1, <1>3, <1>5, ConcatProperties
  <2>1. /\ emitted' \in Seq(EventSet) /\ Len(emitted') = L + N
        /\ \A i \in 1..(L + N) : emitted'[i] = IF i <= L THEN emitted[i] ELSE new[i - L]
    BY <1>3, <2>0
  <2>2. DOMAIN emitted' = 1..(L + N)
    BY <2>1, LenProperties
  <2> HIDE DEF L, N
  <2>3. ASSUME NEW i \in 1..L PROVE emitted'[i] = emitted[i]
    BY <1>1, <1>2, <2>1
  <2>4. ASSUME NEW k \in 1..N PROVE emitted'[L + k] = new[k]
    <3>1. L + k \in 1..(L + N) /\ ~(L + k <= L) /\ (L + k) - L = k
      BY <1>1, <1>2
    <3> QED
      BY <2>1, <3>1
  <2> QED
    BY <2>1, <2>2, <2>3, <2>4
<1> HIDE DEF L, N
<1>7. \A n \in 0..L : ChangesAfter(n) => ChangesAfter(n)'
  BY <1>1, <1>2, <1>6 DEF ChangesAfter, Changes
<1>8. types[N] \in {"updated", "deleted"} => \A n \in Int : n < L + N => ChangesAfter(n)'
  <2> SUFFICES ASSUME types[N] \in {"updated", "deleted"}, NEW n \in Int, n < L + N
               PROVE  ChangesAfter(n)'
    OBVIOUS
  <2>1. L + N \in DOMAIN emitted' /\ emitted'[L + N].type = types[N]
    BY <1>1, <1>2, <1>4, <1>6
  <2> QED
    BY <2>1 DEF ChangesAfter, Changes
<1>9. \/ types[N] \in {"updated", "deleted"}
      \/ L = 0
      \/ stripe' = stripe
  BY <1>5 DEF Stated, N, L
<1>10. EventsStated'
  <2> SUFFICES ASSUME NEW k \in 1..(L + N) PROVE EventIsStated(k)'
    BY <1>6 DEF EventsStated
  <2>1. CASE k \in 1..L
    <3>1. EventIsStated(k) /\ emitted'[k] = emitted[k] /\ k \in 0..L /\ k < L + N /\ L # 0
      BY <1>1, <1>2, <1>6, <2>1 DEF OrderInv, EventsStated
    <3> QED
      BY <1>7, <1>8, <1>9, <3>1 DEF EventIsStated
  <2>2. CASE k \notin 1..L
    <3>1. PICK i \in 1..N : k = L + i
      <4>1. k - L \in 1..N /\ k = L + (k - L)
        BY <1>1, <1>2, <2>2
      <4> QED
        BY <4>1
    <3>2. emitted'[k] = new[i]
      BY <1>6, <3>1
    <3>3. types[i] = "checkout" <=> k = 1
      <4>1. CASE L = 0
        <5>1. N = 1
          <6>1. N \in DOMAIN types
            BY <1>2
          <6>2. types[N] = "checkout"
            BY <4>1, <6>1 DEF Stated, L, N
          <6> QED
            BY <4>1, <6>2 DEF Stated, L, N
        <5> QED
          BY <1>2, <3>1, <4>1, <5>1 DEF Stated, L
      <4>2. CASE L # 0
        BY <1>1, <1>2, <3>1, <4>2 DEF Stated, L
      <4> QED
        BY <4>1, <4>2
    <3>4. types[i] = "failed" => ChangesAfter(k)'
      BY <1>1, <1>2, <1>8, <3>1 DEF Stated, N
    <3>5. types[i] = "succeeded" => status = "active"
      BY <1>2, <3>1 DEF Stated
    <3>6. status # "none"
      BY DEF Stated
    <3> QED
      BY <1>4, <1>5, <3>2, <3>3, <3>4, <3>5, <3>6 DEF EventIsStated
  <2> QED
    BY <2>1, <2>2
<1>11. RowFits'
  <2>1. born \in 0..L
    BY DEF StripeInv, TypeOK, L
  <2>2. \A i \in 1..born : emitted'[i] = emitted[i] /\ emitted'[1] = emitted[1]
    BY <1>1, <1>6, <2>1
  <2> QED
    BY <1>5, <2>2 DEF OrderInv, RowFits, PlanFollowsPrice
<1>12. ordered' => InOrder'
  <2> SUFFICES ASSUME ordered PROVE InOrder'
    BY <1>5, Zenon
  <2>1. InOrder
    BY DEF OrderInv
  <2>2. PICK n \in 0..L : UpTo(n)
    BY <2>1 DEF InOrder, L
  <2>3. UpTo(n)'
    <3>1. n < L + N /\ n \in Int /\ (n > 0 => L # 0)
      BY <1>1, <1>2
    <3> QED
      BY <1>5, <1>7, <1>8, <1>9, <2>2, <3>1 DEF UpTo
  <2>4. n \in 0..Len(emitted')
    BY <1>1, <1>2, <1>6
  <2> QED
    BY <1>5, <2>1, <2>3, <2>4 DEF InOrder
<1> QED
  BY <1>10, <1>11, <1>12 DEF OrderInv

LEMMA StripeStates ==
    ASSUME StripeInv, OrderInv, Stripe
    PROVE  OrderInv'
<1>1. emitted \in Seq(EventSet) /\ Len(emitted) \in Nat
  BY LenProperties DEF StripeInv, TypeOK, EventSet
<1>2. Len(emitted) # 0 =>
         stripe.status # "none" /\ stripe.status \in Statuses /\ stripe.price \in Prices
  <2> SUFFICES ASSUME Len(emitted) # 0
               PROVE stripe.status # "none" /\ stripe.status \in Statuses /\ stripe.price \in Prices
    OBVIOUS
  <2>1. Len(emitted) \in DOMAIN emitted /\ emitted[Len(emitted)] \in EventSet
    BY <1>1, ElementOfSeq
  <2>2. stripe = Shown(emitted[Len(emitted)]) /\ emitted[Len(emitted)].status # "none"
    BY <2>1 DEF StripeInv, StripeFits, OrderInv, EventsStated, EventIsStated
  <2> QED
    BY <2>1, <2>2 DEF Shown, EventSet
<1>3. Len(emitted) = 0 => stripe.status = "none"
  BY DEF StripeInv, StripeFits, NoSub
<1>s. "active" \in Statuses /\ "past_due" \in Statuses /\ "canceled" \in Statuses
  BY DEF Statuses
<1>4. ASSUME NEW t \in Types, NEW status \in Statuses, NEW price \in Prices,
             Becomes(status, price, <<t>>), status # "none",
             t = "checkout" <=> Len(emitted) = 0,
             t = "succeeded" => status = "active" /\ stripe = [status |-> status, price |-> price],
             t # "failed"
      PROVE  OrderInv'
  <2>1. <<t>> \in Seq(Types) /\ Len(<<t>>) = 1 /\ DOMAIN <<t>> = {1} /\ <<t>>[1] = t
    OBVIOUS
  <2> DEFINE types == <<t>>
  <2>2. types \in Seq(Types) /\ Len(types) > 0 /\ Stated(status, price, types)
    BY <1>4, <2>1 DEF Stated, Types
  <2>3. Becomes(status, price, types)
    BY <1>4
  <2> HIDE DEF types
  <2> QED
    BY <2>2, <2>3, BecomesStated
<1>5. ASSUME NEW t \in {"failed", "succeeded"}, NEW status \in Statuses, NEW price \in Prices,
             Becomes(status, price, <<t, "updated">>), status # "none",
             t = "succeeded" => status = "active", Len(emitted) # 0
      PROVE  OrderInv'
  <2> DEFINE types == <<t, "updated">>
  <2>1. types \in Seq(Types) /\ Len(types) = 2 /\ DOMAIN types = {1, 2} /\ types[1] = t
        /\ types[2] = "updated"
    BY DEF Types
  <2> HIDE DEF types
  <2>2. Stated(status, price, types)
    BY <1>5, <2>1 DEF Stated
  <2>3. Becomes(status, price, types)
    BY <1>5 DEF types
  <2>4. Len(types) > 0
    BY <2>1
  <2> QED
    BY <2>1, <2>2, <2>3, <2>4, BecomesStated
<1>6. ASSUME NEW p \in Prices, Subscribe(p) PROVE OrderInv'
  BY <1>2, <1>4, <1>6, <1>s DEF Subscribe, Types
<1>7. ASSUME NEW p \in Prices, ChangePlan(p) PROVE OrderInv'
  BY <1>2, <1>3, <1>4, <1>7 DEF ChangePlan, Running, Types
<1>8. CASE PaymentFails
  BY <1>2, <1>3, <1>5, <1>8, <1>s DEF PaymentFails, Running
<1>9. CASE PaymentSucceeds
  <2>1. CASE stripe.status = "active" /\ Becomes("active", stripe.price, <<"succeeded">>)
    <3>1. stripe = [status |-> "active", price |-> stripe.price]
      BY <2>1 DEF StripeInv, TypeOK, Sub
    <3> QED
      BY <1>2, <1>3, <1>4, <1>s, <2>1, <3>1 DEF Types
  <2>2. CASE stripe.status = "past_due"
             /\ Becomes("active", stripe.price, <<"succeeded", "updated">>)
    BY <1>2, <1>3, <1>5, <1>s, <2>2
  <2> QED
    BY <1>9, <2>1, <2>2 DEF PaymentSucceeds
<1>10. CASE Cancel
  BY <1>2, <1>3, <1>4, <1>10, <1>s DEF Cancel, Running, Types
<1> QED
  BY <1>6, <1>7, <1>8, <1>9, <1>10 DEF Stripe

-----------------------------------------------------------------------------
(***************************************************************************)
(* The handlers replay what is stated.                                     *)
(***************************************************************************)
\* A step that leaves Stripe and the tables, and the handlers in order.
LEMMA OrderStays ==
    ASSUME OrderInv, UNCHANGED <<stripe, emitted, processed, row, born>>,
           ordered' => ordered,
           ASSUME ordered', InOrder, NEW h \in Handlers
           PROVE  /\ handler'[h].phase # "idle" => 1..(handler'[h].event - 1) \subseteq processed
                  /\ handler'[h].phase = "applied" => lock' = h
    PROVE  OrderInv'
<1>1. EventsStated'
  BY DEF OrderInv, EventsStated, EventIsStated, ChangesAfter, Changes
<1>2. RowFits'
  BY DEF OrderInv, RowFits, PlanFollowsPrice
<1>3. \A n : UpTo(n) => UpTo(n)'
  BY DEF UpTo, ChangesAfter, Changes
<1>4. ordered' => InOrder'
  <2> SUFFICES ASSUME ordered' PROVE InOrder'
    OBVIOUS
  <2>1. InOrder
    BY Zenon DEF OrderInv
  <2>2. PICK n \in 0..Len(emitted) : UpTo(n)
    BY <2>1 DEF InOrder
  <2> QED
    BY <1>3, <2>1, <2>2 DEF InOrder
<1> QED
  BY <1>1, <1>2, <1>4 DEF OrderInv

LEMMA HandlersStay ==
    ASSUME StripeInv, OrderInv, NEW h \in Handlers,
           Delivery(h) \/ Retrieve(h) \/ LockRow(h) \/ FindNoRow(h) \/ InsertRow(h) \/ Abort(h)
    PROVE  OrderInv'
<1>1. UNCHANGED <<stripe, emitted, processed, row, born>>
  BY DEF Delivery, Deliver, Retrieve, LockRow, FindNoRow, InsertRow, Abort
<1>2. ordered' => ordered
  BY DEF Delivery, Deliver, Retrieve, LockRow, FindNoRow, InsertRow, Abort
<1>3. ASSUME ordered', InOrder, NEW q \in Handlers
      PROVE  /\ handler'[q].phase # "idle" => 1..(handler'[q].event - 1) \subseteq processed
             /\ handler'[q].phase = "applied" => lock' = q
  <2>1. /\ handler[q].phase # "idle" => 1..(handler[q].event - 1) \subseteq processed
        /\ handler[q].phase = "applied" => lock = q
    BY <1>3 DEF InOrder
  <2>2. lock \in Handlers \cup {Nobody} /\ Nobody \notin Handlers
        /\ handler \in [Handlers -> HandlerStates]
    BY ConstantsAssumption DEF StripeInv, TypeOK, HandlerStates
  <2>3. CASE Delivery(h)
    <3>1. PICK i \in 1..Len(emitted) : Deliver(h, i)
      BY <2>3 DEF Delivery
    <3>2. 1..(i - 1) \subseteq processed /\ lock' = lock
      BY <1>3, <3>1 DEF Deliver
    <3>3. handler' = [handler EXCEPT ![h] = [Idle EXCEPT !.phase = "checked", !.event = i]]
      BY <3>1 DEF Deliver
    <3>4. [Idle EXCEPT !.phase = "checked", !.event = i].phase = "checked"
          /\ [Idle EXCEPT !.phase = "checked", !.event = i].event = i
      BY DEF Idle
    <3>5. CASE q = h
      BY <2>2, <3>2, <3>3, <3>4, <3>5
    <3>6. CASE q # h
      BY <2>1, <2>2, <3>2, <3>3, <3>6
    <3> QED
      BY <3>5, <3>6
  <2>4. CASE Retrieve(h)
    <3>1. handler'[q].event = handler[q].event
          /\ (handler'[q].phase = "idle" <=> handler[q].phase = "idle")
          /\ (handler'[q].phase = "applied" => handler[q].phase = "applied") /\ lock' = lock
      BY <2>2, <2>4 DEF Retrieve, HandlerStates
    <3> QED
      BY <2>1, <3>1
  <2>5. CASE LockRow(h)
    <3>1. /\ handler'[q].event = handler[q].event
          /\ handler'[q].phase = "idle" <=> handler[q].phase = "idle"
          /\ handler'[q].phase = "applied" => handler[q].phase = "applied" \/ q = h
          /\ lock' = h /\ lock = Nobody
      BY <2>2, <2>5 DEF LockRow, Ready, HandlerStates
    <3> QED
      BY <2>1, <2>2, <3>1
  <2>6. CASE FindNoRow(h)
    <3>1. row = NoRow /\ handler[h].phase # "idle" /\ lock' = lock
      BY <2>6 DEF FindNoRow, Ready
    <3>2. 1 \notin processed /\ handler[h].event \in 1..Len(emitted) /\ Len(emitted) \in Nat
      BY <3>1, EventFits DEF OrderInv, RowFits
    <3>3. handler[h].event = 1
      <4>1. 1..(handler[h].event - 1) \subseteq processed
        BY <1>3, <3>1 DEF InOrder
      <4> QED
        BY <3>2, <4>1
    <3>4. Event(h).type = "checkout"
      <4>1. 1 \in DOMAIN emitted
        BY <3>2, <3>3, LenProperties DEF StripeInv, TypeOK
      <4> QED
        BY <3>3, <4>1 DEF Event, OrderInv, EventsStated, EventIsStated
    <3>5. /\ handler'[q].event = handler[q].event
          /\ handler'[q].phase = "idle" <=> handler[q].phase = "idle"
          /\ handler'[q].phase = "applied" => handler[q].phase = "applied"
      BY <2>2, <2>6, <3>1, <3>4 DEF FindNoRow, HandlerStates
    <3> QED
      BY <2>1, <3>1, <3>5
  <2>7. CASE InsertRow(h)
    <3>1. CASE row = NoRow
      <4>1. /\ handler'[q].event = handler[q].event
            /\ handler'[q].phase = "idle" <=> handler[q].phase = "idle"
            /\ handler'[q].phase = "applied" => handler[q].phase = "applied" \/ q = h
            /\ lock' = h /\ lock = Nobody
        BY <2>2, <2>7, <3>1 DEF InsertRow, HandlerStates
      <4> QED
        BY <2>1, <2>2, <4>1
    <3>2. CASE row # NoRow
      <4>1. handler' = [handler EXCEPT ![h] = Idle] /\ lock' = lock /\ Idle.phase = "idle"
        BY <2>7, <3>2 DEF InsertRow, Idle
      <4> QED
        BY <2>1, <2>2, <4>1
    <3> QED
      BY <3>1, <3>2
  <2>8. CASE Abort(h)
    <3>1. handler' = [handler EXCEPT ![h] = Idle] /\ Idle.phase = "idle"
          /\ lock' = IF lock = h THEN Nobody ELSE lock
      BY <2>8 DEF Abort, Release, Idle
    <3> QED
      BY <2>1, <2>2, <3>1
  <2> QED
    BY <2>3, <2>4, <2>5, <2>6, <2>7, <2>8
<1> QED
  BY <1>1, <1>2, <1>3, OrderStays

\* What a commit makes of the row, if it changes it: the checkout's row, which there
\* was none of, or the change of a row that there is.
LEMMA FinishStores ==
    ASSUME StripeInv, OrderInv, NEW h \in Handlers, handler[h].phase = "applied", lock = h
    PROVE  LET i == handler[h].event IN
           /\ i \in DOMAIN emitted /\ emitted[i] \in EventSet /\ i \in Nat
           /\ i = 1 => \E j \in DOMAIN emitted :
                          handler[h].change = [status |-> emitted[j].status,
                                               price |-> emitted[j].price,
                                               plan |-> emitted[1].price]
           /\ i # 1 => /\ row # NoRow /\ handler[h].change = Ledger!Change(emitted[i])
                       /\ emitted[i].type \in {"updated", "deleted", "failed", "succeeded"}
<1> DEFINE i == handler[h].event
<1>1. i \in DOMAIN emitted /\ Event(h) \in EventSet /\ i \in 1..Len(emitted)
      /\ Len(emitted) \in Nat /\ DOMAIN emitted = 1..Len(emitted)
  BY EventFits, LenProperties DEF StripeInv, TypeOK
<1>2. ChangeFits(h) /\ Event(h) = emitted[i]
  BY DEF StripeInv, HandlerFits, Event
<1>3. Event(h).type = "checkout" <=> i = 1
  BY <1>1, <1>2 DEF OrderInv, EventsStated, EventIsStated
<1>4. CASE i = 1
  BY <1>1, <1>2, <1>3, <1>4 DEF ChangeFits
<1>5. CASE i # 1
  <2>1. row # NoRow /\ handler[h].change = Ledger!Change(emitted[i])
    BY <1>2, <1>3, <1>5 DEF ChangeFits
  <2>2. emitted[i].type \in {"updated", "deleted", "failed", "succeeded"}
    BY <1>1, <1>2, <1>3, <1>5 DEF EventSet, Types
  <2> QED
    BY <1>1, <1>2, <1>5, <2>1, <2>2
<1> QED
  BY <1>4, <1>5

\* A change of a row keeps its plan with its price, and states what it is or waits to
\* be restated.
LEMMA ChangeStates ==
    ASSUME StripeInv, OrderInv, NEW i \in DOMAIN emitted, emitted[i] \in EventSet,
           row # NoRow, emitted[i].type \in {"updated", "deleted", "failed", "succeeded"}
    PROVE  LET new == Ledger!Change(emitted[i]) IN
           /\ new.price \in Prices
           /\ row.plan = row.price => new.plan = new.price
           /\ \/ ChangesAfter(i)
              \/ new.status = stripe.status /\ new.price = stripe.price
              \/ emitted[i].type = "succeeded" /\ stripe.status = "active"
                 /\ new.price = row.price /\ (row.status = "active" => new.status = "active")
<1> DEFINE e == emitted[i]
           new == Ledger!Change(e)
<1>1. row \in Rows /\ row.price \in Prices /\ row # Ledger!NoRow
  BY DEF StripeInv, TypeOK, OrderInv, RowFits, NoRow, Ledger!NoRow
<1>2. EventIsStated(i)
  BY DEF OrderInv, EventsStated
<1>3. CASE e.type \in {"updated", "deleted"}
  <2>1. new = [status |-> e.status, price |-> e.price,
               plan |-> IF e.price = row.price THEN row.plan ELSE e.price]
    BY <1>1, <1>3 DEF Ledger!Change
  <2>2. new.price = e.price /\ new.status = e.status
        /\ new.plan = IF e.price = row.price THEN row.plan ELSE e.price
    BY <2>1
  <2> HIDE DEF new
  <2>3. e.price \in Prices
    BY DEF EventSet
  <2>4. ChangesAfter(i) \/ (new.status = stripe.status /\ new.price = stripe.price)
    BY <1>2, <2>2 DEF EventIsStated, Shown
  <2>5. row.plan = row.price => new.plan = new.price
    BY <2>2
  <2> QED
    BY <2>2, <2>3, <2>4, <2>5 DEF new
<1>4. CASE e.type = "failed"
  <2>1. new = [row EXCEPT !.status = "past_due"] /\ ChangesAfter(i)
    BY <1>1, <1>2, <1>4 DEF Ledger!Change, EventIsStated
  <2>2. new.price = row.price /\ new.plan = row.plan
    BY <1>1, <2>1 DEF Rows
  <2> HIDE DEF new
  <2> QED
    BY <1>1, <2>1, <2>2 DEF new
<1>5. CASE e.type = "succeeded"
  <2>1. new = [row EXCEPT !.status = IF @ = "past_due" THEN "active" ELSE @]
    BY <1>1, <1>5 DEF Ledger!Change
  <2>2. new.price = row.price /\ new.plan = row.plan
        /\ (row.status = "active" => new.status = "active")
    BY <1>1, <2>1 DEF Rows
  <2>3. ChangesAfter(i) \/ stripe.status = "active"
    BY <1>2, <1>5 DEF EventIsStated, Shown
  <2> HIDE DEF new
  <2> QED
    BY <1>1, <1>5, <2>2, <2>3 DEF new
<1> QED
  BY <1>3, <1>4, <1>5

LEMMA FinishKeepsOrder ==
    ASSUME StripeInv, OrderInv, NEW h \in Handlers, Finish(h)
    PROVE  OrderInv'
<1> DEFINE i == handler[h].event
           L == Len(emitted)
<1>1. /\ handler[h].phase = "applied" /\ UNCHANGED <<stripe, emitted, ordered>>
      /\ born' = IF row = NoRow /\ row' # NoRow THEN L ELSE born
      /\ lock' = IF lock = h THEN Nobody ELSE lock
      /\ handler' = [handler EXCEPT ![h] = Idle] /\ Idle.phase = "idle"
  BY DEF Finish, Release, Idle
<1>2. /\ i \in 1..L /\ L \in Nat /\ DOMAIN emitted = 1..L
      /\ lock \in Handlers \cup {Nobody} /\ handler \in [Handlers -> HandlerStates]
      /\ born \in 0..L
  BY <1>1, EventFits, LenProperties DEF StripeInv, TypeOK, HandlerStates
<1>3. CASE i \in processed
  <2>1. row' = row /\ processed' = processed /\ born' = born
    BY <1>1, <1>3 DEF Finish
  <2>2. ASSUME ordered', InOrder, NEW q \in Handlers
        PROVE  /\ handler'[q].phase # "idle" => 1..(handler'[q].event - 1) \subseteq processed
               /\ handler'[q].phase = "applied" => lock' = q
    BY <1>1, <1>2, <2>2 DEF InOrder
  <2> QED
    BY <1>1, <2>1, <2>2, OrderStays
<1>4. CASE i \notin processed
  <2>1. row' = (IF lock = h THEN handler[h].change ELSE row) /\ processed' = processed \cup {i}
    BY <1>4 DEF Finish
  <2>2. lock # h => i # 1
    <3>1. lock # h => Event(h).type # "checkout"
      BY <1>1 DEF StripeInv, HandlerFits, DropFits
    <3> QED
      BY <1>2, <3>1 DEF Event, OrderInv, EventsStated, EventIsStated
  <2>3. CASE lock = h /\ i = 1
    <3>1. PICK j \in DOMAIN emitted :
             handler[h].change = [status |-> emitted[j].status, price |-> emitted[j].price,
                                  plan |-> emitted[1].price]
      BY <1>1, <2>3, FinishStores
    <3>2. /\ row'.status = emitted[j].status /\ row'.price = emitted[j].price
          /\ row'.plan = emitted[1].price
      BY <2>1, <2>3, <3>1
    <3>3. emitted[j].price \in Prices
      <4>1. emitted \in Seq(EventSet) /\ j \in 1..L
        BY <1>2 DEF StripeInv, TypeOK, EventSet
      <4>2. emitted[j] \in EventSet
        BY <4>1, ElementOfSeq
      <4> QED
        BY <4>2 DEF EventSet
    <3>4. row' # NoRow /\ row = NoRow
      BY <1>4, <2>3, <3>2, <3>3, ConstantsAssumption DEF NoRow, OrderInv, RowFits
    <3>5. born' = L /\ j \in 1..L
      BY <1>1, <1>2, <3>4
    <3>6. RowFits'
      BY <1>1, <2>1, <2>3, <3>2, <3>3, <3>4, <3>5 DEF RowFits, PlanFollowsPrice
    <3>7. EventsStated'
      BY <1>1 DEF OrderInv, EventsStated, EventIsStated, ChangesAfter, Changes
    <3>8. ChangesAfter(1) \/ (row'.status = stripe.status /\ row'.price = stripe.price)
      <4>1. Shown(emitted[j]) = stripe \/ ChangesAfter(j)
        BY DEF OrderInv, EventsStated, EventIsStated
      <4>2. ChangesAfter(j) => ChangesAfter(1)
        BY <1>2 DEF ChangesAfter
      <4> QED
        BY <3>2, <4>1, <4>2 DEF Shown
    <3>9. ASSUME ordered, InOrder PROVE InOrder'
      <4>1. PICK n \in 0..L : UpTo(n)
        BY <3>9 DEF InOrder
      <4>2. n = 0
        BY <1>2, <1>4, <2>3, <4>1 DEF UpTo
      <4>3. processed' = 1..1
        BY <2>1, <2>3, <4>1, <4>2 DEF UpTo
      <4>4. UpTo(1)'
        BY <1>1, <3>8, <4>3 DEF UpTo, ChangesAfter, Changes
      <4>5. 1 \in 0..Len(emitted)'
        BY <1>1, <1>2, <2>3
      <4> QED
        BY <1>1, <1>2, <2>1, <3>9, <4>4, <4>5 DEF InOrder
    <3> QED
      BY <1>1, <3>6, <3>7, <3>9, Zenon DEF OrderInv
  <2>4. CASE i # 1
    <3>1. ASSUME lock = h
          PROVE  LET new == Ledger!Change(emitted[i]) IN
                 /\ row # NoRow /\ row' = new /\ new.price \in Prices
                 /\ row.plan = row.price => new.plan = new.price
                 /\ \/ ChangesAfter(i)
                    \/ new.status = stripe.status /\ new.price = stripe.price
                    \/ emitted[i].type = "succeeded" /\ stripe.status = "active"
                       /\ new.price = row.price /\ (row.status = "active" => new.status = "active")
      BY <1>1, <2>1, <2>4, <3>1, FinishStores, ChangeStates
    <3>2. lock # h => row' = row
      BY <2>1
    <3>3. /\ row' = NoRow <=> row = NoRow
          /\ row' = NoRow \/ row'.price \in Prices
          /\ row.plan = row.price => row'.plan = row'.price
          /\ born' = born
      BY <1>1, <3>1, <3>2, ConstantsAssumption DEF NoRow, OrderInv, RowFits
    <3>4. RowFits'
      BY <1>1, <2>1, <2>4, <3>3 DEF OrderInv, RowFits, PlanFollowsPrice
    <3>5. EventsStated'
      BY <1>1 DEF OrderInv, EventsStated, EventIsStated, ChangesAfter, Changes
    <3>6. ASSUME ordered, InOrder PROVE InOrder'
      <4>1. PICK n \in 0..L : UpTo(n)
        BY <3>6 DEF InOrder
      <4>2. lock = h /\ 1..(i - 1) \subseteq processed
        BY <1>1, <3>6 DEF InOrder
      <4>3. i = n + 1 /\ n > 0
        <5>1. i \in Nat /\ i > 1 /\ i - 1 \in 1..(i - 1) /\ n \in Nat
          BY <1>2, <2>4
        <5>2. i - 1 \in 1..n /\ i \notin 1..n
          BY <1>4, <4>1, <4>2, <5>1 DEF UpTo
        <5> HIDE DEF i
        <5> QED
          BY <5>1, <5>2
      <4>4. processed' = 1..i
        BY <2>1, <4>1, <4>3 DEF UpTo
      <4>5. ChangesAfter(n) => ChangesAfter(i) \/ Changes(i)
        BY <1>2, <4>1, <4>3 DEF ChangesAfter
      <4>6. ChangesAfter(i) \/ (row'.status = stripe.status /\ row'.price = stripe.price)
        <5>1. CASE emitted[i].type # "succeeded"
          BY <3>1, <4>2, <5>1
        <5>2. CASE emitted[i].type = "succeeded"
          BY <3>1, <4>1, <4>2, <4>3, <4>5, <5>2 DEF UpTo, Changes
        <5> QED
          BY <5>1, <5>2
      <4>7. PICK k \in 0..L : k = i
        BY <1>2
      <4>8. UpTo(k)'
        BY <1>1, <4>4, <4>6, <4>7 DEF UpTo, ChangesAfter, Changes
      <4> QED
        BY <1>1, <1>2, <2>1, <3>6, <4>2, <4>8 DEF InOrder
    <3> QED
      BY <1>1, <3>4, <3>5, <3>6, Zenon DEF OrderInv
  <2> QED
    BY <2>2, <2>3, <2>4
<1> QED
  BY <1>3, <1>4

LEMMA OrderNext == StripeInv /\ OrderInv /\ [Next]_vars => OrderInv'
<1> SUFFICES ASSUME StripeInv, OrderInv, [Next]_vars PROVE OrderInv'
  OBVIOUS
<1>1. CASE Stripe
  BY <1>1, StripeStates
<1>2. ASSUME NEW h \in Handlers, Finish(h) PROVE OrderInv'
  BY <1>2, FinishKeepsOrder
<1>3. ASSUME NEW h \in Handlers,
             Delivery(h) \/ Retrieve(h) \/ LockRow(h) \/ FindNoRow(h) \/ InsertRow(h) \/ Abort(h)
      PROVE  OrderInv'
  BY <1>3, HandlersStay
<1>4. CASE UNCHANGED vars
  <2>1. UNCHANGED <<stripe, emitted, processed, row, born, lock, handler, ordered>>
    BY <1>4 DEF vars
  <2> QED
    BY <2>1, OrderStays DEF InOrder
<1> QED
  BY <1>1, <1>2, <1>3, <1>4 DEF Next, Step

-----------------------------------------------------------------------------
\* The invariants, and with them the types, hold in every reachable state.
THEOREM StripeInductive == Spec => [](StripeInv /\ OrderInv)
BY StripeInit, StripeNext, OrderInit, OrderNext, PTL DEF Spec

\* The types of Stripe's state, the tables and the handlers.
THEOREM TypeCorrect == Spec => []TypeOK
BY StripeInductive, PTL DEF StripeInv

\* When events are delivered in their order the stored status and price end up as
\* Stripe's, however the handlers interleave: InOrderSettles holds.
THEOREM OrderSettles == Spec => []InOrderSettles
<1>1. StripeInv /\ OrderInv => InOrderSettles
  <2> SUFFICES ASSUME StripeInv, OrderInv, ordered, Settled
               PROVE  row.status = stripe.status /\ row.price = stripe.price
    BY DEF InOrderSettles, RowSettles
  <2>1. Len(emitted) \in Nat /\ DOMAIN emitted = 1..Len(emitted)
    BY LenProperties DEF StripeInv, TypeOK
  <2>2. PICK n \in 0..Len(emitted) : UpTo(n)
    BY DEF OrderInv, InOrder
  <2>3. n = Len(emitted)
    <3>1. 1..n = 1..Len(emitted)
      BY <2>2 DEF Settled, UpTo
    <3> DEFINE L == Len(emitted)
    <3>2. L \in Nat /\ n \in 0..L /\ 1..n = 1..L
      BY <2>1, <2>2, <3>1
    <3> HIDE DEF L
    <3>3. L = 0 \/ L \in 1..L
      BY <3>2
    <3>4. n = L
      BY <3>2, <3>3
    <3> QED
      BY <3>4 DEF L
  <2>4. CASE n = 0
    <3>1. stripe = NoSub /\ row = NoRow
      BY <2>2, <2>3, <2>4 DEF StripeInv, StripeFits, OrderInv, RowFits, UpTo
    <3> QED
      BY <3>1 DEF NoSub, NoRow
  <2>5. CASE n > 0
    BY <2>1, <2>2, <2>3, <2>5 DEF UpTo, ChangesAfter
  <2> QED
    BY <2>1, <2>2, <2>4, <2>5
<1> QED
  BY <1>1, StripeInductive, PTL

\* The plan in force is the plan that is paid for, unless the price changed before the
\* checkout was handled: PlanFollowsPrice holds in whatever order events come.
THEOREM PlanPaid == Spec => []PlanFollowsPrice
BY StripeInductive, PTL DEF OrderInv, RowFits

\* Concurrent handlers, duplicates and failures included, every event takes effect at
\* most once, whole, and on the row that the commit before it left.
THEOREM LedgerImplemented == Spec => ImplementsLedger
<1>1. Init => Ledger!Init
  BY DEF Init, Ledger!Init, NoRow, Ledger!NoRow
<1> QED
  BY <1>1, StripeInductive, StepIsLedgerStep, PTL DEF Spec, Ledger!Spec, ImplementsLedger

=============================================================================
