------------------------ MODULE WebhookDeliveryProofs ------------------------
(***************************************************************************)
(* Proofs about WebhookDelivery, for any number of webhooks, transactions, *)
(* workers, retries and crashes: what the records and the posts are worth. *)
(***************************************************************************)
EXTENDS WebhookDelivery, FiniteSetTheorems, SequenceTheorems, WellFoundedInduction, TLAPS

(***************************************************************************)
(* The inductive invariant.                                                *)
(***************************************************************************)
\* A sender, whatever it has answered.
Shape(r) ==
    /\ DOMAIN r = {"phase", "test", "todo", "at", "ok", "rows", "answer"}
    /\ r.phase \in SenderPhases
    /\ r.todo \subseteq Hooks

\* The states of a worker, idle or at a delivery.
TaskState == [phase: {"idle", "loaded", "ok", "failed", "retrying"},
              id: (Queued \X Hooks) \cup {Nobody}]

Shapes ==
    /\ DOMAIN sender = Senders
    /\ \A s \in Senders : Shape(sender[s])
    /\ delivery \in [Ids -> [attempts: Nat, delivered: BOOLEAN] \cup {NoRow}]
    /\ posts \in [Ids -> Nat]
    /\ queue \subseteq Queued \X Hooks
    /\ worker \in [Workers -> TaskState]

\* A sender has a row for each webhook it has posted to, but for the one it is
\* posting to; what is fired through the queue is posted after the commit.
PostsFit(s) ==
    \A h \in Hooks : posts[<<s, h>>] > 0 =>
        /\ sender[s].phase \notin {"idle", "begun"}
        /\ s \in Queued => sender[s].phase = "committed"
        /\ sender[s].phase \in {"firing", "posted", "answered"} =>
              \/ sender[s].phase = "posted" /\ sender[s].at = h
              \/ \E r \in sender[s].rows : r.hook = h
        /\ sender[s].phase = "committed" => Recorded(<<s, h>>)

\* The rows it is to commit are of what it was answered.
RowsFit(s) ==
    /\ sender[s].phase = "posted" =>
          /\ s \notin Queued /\ sender[s].at \in Hooks
          /\ sender[s].ok \in BOOLEAN /\ (sender[s].ok => <<s, sender[s].at>> \in told)
    /\ \A r \in sender[s].rows :
          /\ r.hook \in Hooks /\ r.row \in Row
          /\ r.row.delivered => <<s, r.hook>> \in told

\* What is recorded was committed, and delivered only if it was accepted.
RecordsFit(s) ==
    \A h \in Hooks :
        /\ Recorded(<<s, h>>) => sender[s].phase = "committed"
        /\ delivery[<<s, h>>].delivered => <<s, h>> \in told

\* A worker is at a delivery that is recorded.
WorkerFits(w) ==
    worker[w].phase # "idle" =>
        /\ worker[w].id \in Queued \X Hooks /\ Recorded(worker[w].id)
        /\ worker[w].phase = "ok" => worker[w].id \in told

SendersFit == \A s \in Senders : PostsFit(s) /\ RowsFit(s) /\ RecordsFit(s)
WorkersFit == \A w \in Workers : WorkerFits(w)

DeliveryInv == Shapes /\ SendersFit /\ WorkersFit

LEMMA DeliveryInit == Init => DeliveryInv
<1> SUFFICES ASSUME Init PROVE DeliveryInv
  OBVIOUS
<1> USE DEF Init, NewSender, IdleWorker, TaskState
<1>1. Shapes
  <2>1. Shape(NewSender)
    BY DEF Shape, SenderPhases
  <2> QED
    BY <2>1 DEF Shapes
<1>2. SendersFit
  BY DEF SendersFit, PostsFit, RowsFit, RecordsFit, Recorded, NoRow, Ids
<1>3. WorkersFit
  BY DEF WorkersFit, WorkerFits
<1> QED
  BY <1>1, <1>2, <1>3 DEF DeliveryInv

-----------------------------------------------------------------------------
(***************************************************************************)
(* The senders.                                                            *)
(***************************************************************************)
\* The senders and workers that a step of s does not touch.
LEMMA OthersFit ==
    ASSUME DeliveryInv, NEW s \in Senders, DOMAIN sender' = Senders, told \subseteq told',
           \A q \in Senders : q # s =>
              /\ sender'[q] = sender[q]
              /\ \A h \in Hooks : /\ posts'[<<q, h>>] = posts[<<q, h>>]
                                  /\ delivery'[<<q, h>>] = delivery[<<q, h>>]
    PROVE  \A q \in Senders : q # s => PostsFit(q)' /\ RowsFit(q)' /\ RecordsFit(q)'
<1> SUFFICES ASSUME NEW q \in Senders, q # s PROVE PostsFit(q)' /\ RowsFit(q)' /\ RecordsFit(q)'
  OBVIOUS
<1>1. PostsFit(q)' /\ RecordsFit(q)'
  BY DEF DeliveryInv, SendersFit, PostsFit, RecordsFit, Recorded
<1>2. RowsFit(q)'
  BY DEF DeliveryInv, SendersFit, RowsFit
<1> QED
  BY <1>1, <1>2

\* A step of s that changes neither records nor posts nor workers.
LEMMA QuietFits ==
    ASSUME DeliveryInv, NEW s \in Senders, NEW new, Shape(new),
           sender' = [sender EXCEPT ![s] = new],
           UNCHANGED <<delivery, posts, told, worker>>, queue' \subseteq Queued \X Hooks,
           \A h \in Hooks : ~Recorded(<<s, h>>),
           PostsFit(s)', RowsFit(s)'
    PROVE  DeliveryInv'
<1>1. DOMAIN sender' = Senders /\ sender'[s] = new
  BY DEF DeliveryInv, Shapes
<1>2. \A q \in Senders : q # s => sender'[q] = sender[q]
  BY DEF DeliveryInv, Shapes
<1>3. Shapes'
  BY <1>1, <1>2 DEF DeliveryInv, Shapes
<1>4. RecordsFit(s)'
  BY DEF DeliveryInv, SendersFit, RecordsFit, Recorded
<1>5. WorkersFit'
  BY DEF DeliveryInv, WorkersFit, WorkerFits, Recorded
<1> QED
  BY <1>1, <1>2, <1>3, <1>4, <1>5, OthersFit DEF DeliveryInv, SendersFit

\* Before its commit nothing of a sender is recorded.
LEMMA Unrecorded ==
    ASSUME DeliveryInv, NEW s \in Senders, sender[s].phase # "committed"
    PROVE  /\ \A h \in Hooks : ~Recorded(<<s, h>>)
           /\ Shape(sender[s])
           /\ PostsFit(s) /\ RowsFit(s)
BY DEF DeliveryInv, Shapes, SendersFit, RecordsFit

LEMMA UndoneFits ==
    ASSUME DeliveryInv, NEW s \in Senders, sender[s].phase # "committed", Undone(s),
           UNCHANGED <<delivery, posts, told, worker>>, queue' \subseteq Queued \X Hooks
    PROVE  DeliveryInv'
<1> DEFINE base == NewSender
           new == [base EXCEPT !.phase = "undone"]
<1>1. DOMAIN base = {"phase", "test", "todo", "at", "ok", "rows", "answer"} /\ base.todo = {}
      /\ base.rows = {}
  BY DEF NewSender
<1>2. sender' = [sender EXCEPT ![s] = new]
  BY DEF Undone
<1> HIDE DEF base
<1>3. Shape(new) /\ new.phase = "undone" /\ new.rows = {}
  BY <1>1 DEF Shape, SenderPhases
<1>4. sender'[s] = new
  BY <1>2 DEF DeliveryInv, Shapes
<1> HIDE DEF new
<1>5. PostsFit(s)' /\ RowsFit(s)'
  BY <1>3, <1>4, Unrecorded DEF PostsFit, RowsFit
<1> QED
  BY <1>2, <1>3, <1>5, Unrecorded, QuietFits

LEMMA BeginFits ==
    ASSUME DeliveryInv, NEW s \in Senders, Begin(s)
    PROVE  DeliveryInv'
<1> USE DEF Begin, hooks, tasks, history
<1>1. PICK test \in BOOLEAN :
          sender' = [sender EXCEPT ![s] = [sender[s] EXCEPT !.phase = "begun", !.test = test]]
  BY DEF DeliveryInv, Shapes
<1> DEFINE new == [sender[s] EXCEPT !.phase = "begun", !.test = test]
<1>2. Shape(new) /\ new.todo = sender[s].todo /\ new.phase = "begun" /\ new.rows = sender[s].rows
  BY Unrecorded DEF Shape, SenderPhases
<1>3. sender'[s] = new
  BY <1>1 DEF DeliveryInv, Shapes
<1> HIDE DEF new
<1>4. PostsFit(s)' /\ RowsFit(s)'
  BY <1>2, <1>3, Unrecorded DEF PostsFit, RowsFit
<1> QED
  BY <1>1, <1>2, <1>4, Unrecorded, QuietFits DEF new, DeliveryInv, Shapes

LEMMA SelectHooksFits ==
    ASSUME DeliveryInv, NEW s \in Senders, SelectHooks(s)
    PROVE  DeliveryInv'
<1> USE DEF SelectHooks, hooks, tasks, history
<1>q. queue' \subseteq Queued \X Hooks
  BY DEF DeliveryInv, Shapes
<1>1. CASE Undone(s)
  BY <1>1, <1>q, UndoneFits
<1>2. CASE ~Undone(s)
  <2>1. PICK T \in Targets(s) :
            sender' = [sender EXCEPT ![s] = [sender[s] EXCEPT !.phase = "firing", !.todo = T]]
    BY <1>2 DEF DeliveryInv, Shapes
  <2> DEFINE new == [sender[s] EXCEPT !.phase = "firing", !.todo = T]
  <2>2. T \subseteq Hooks
    BY DEF Targets
  <2>3. Shape(new) /\ new.todo = T /\ new.phase = "firing" /\ new.rows = sender[s].rows
    BY <2>2, Unrecorded DEF Shape, SenderPhases
  <2>4. sender'[s] = new
    BY <2>1 DEF DeliveryInv, Shapes
  <2> HIDE DEF new
  <2>5. PostsFit(s)' /\ RowsFit(s)'
    BY <2>3, <2>4, Unrecorded DEF PostsFit, RowsFit
  <2> QED
    BY <2>1, <2>2, <2>3, <2>5, <1>q, Unrecorded, QuietFits DEF new
<1> QED
  BY <1>1, <1>2

\* The insertion of a delivery of webhook h.
LEMMA InsertedFits ==
    ASSUME DeliveryInv, NEW s \in Senders, NEW h \in Hooks, NEW row \in Row,
           sender[s].phase \in {"firing", "posted"}, Inserted(s, h, row),
           sender[s].phase = "posted" => sender[s].at = h,
           row.delivered => <<s, h>> \in told,
           UNCHANGED <<delivery, posts, told, worker>>, queue' \subseteq Queued \X Hooks
    PROVE  DeliveryInv'
<1> DEFINE new == WithRow(sender[s], h, row)
           rec == [hook |-> h, row |-> row]
<1>1. sender' = [sender EXCEPT ![s] = new]
  BY DEF Inserted, DeliveryInv, Shapes
<1>2. Shape(new) /\ new.phase = "firing" /\ new.rows = sender[s].rows \cup {rec}
  BY Unrecorded DEF Shape, SenderPhases, WithRow
<1>3. sender'[s] = new
  BY <1>1 DEF DeliveryInv, Shapes
<1>4. rec.hook = h /\ rec.row = row
  OBVIOUS
<1> HIDE DEF new, rec
<1>5. PostsFit(s)'
  <2> SUFFICES ASSUME NEW g \in Hooks, posts[<<s, g>>] > 0 PROVE \E r \in new.rows : r.hook = g
    BY <1>2, <1>3, Unrecorded DEF PostsFit
  <2>1. g = h \/ \E r \in sender[s].rows : r.hook = g
    BY Unrecorded DEF PostsFit
  <2> QED
    BY <2>1, <1>2, <1>4
<1>6. RowsFit(s)'
  BY <1>2, <1>3, <1>4, Unrecorded DEF RowsFit
<1> QED
  BY <1>1, <1>2, <1>5, <1>6, Unrecorded, QuietFits

LEMMA InsertPostedFits ==
    ASSUME DeliveryInv, NEW s \in Senders, InsertPosted(s)
    PROVE  DeliveryInv'
<1> USE DEF InsertPosted, hooks, tasks, history
<1>q. queue' \subseteq Queued \X Hooks
  BY DEF DeliveryInv, Shapes
<1>1. CASE Undone(s)
  BY <1>1, <1>q, UndoneFits
<1>2. CASE ~Undone(s)
  <2>1. /\ sender[s].at \in Hooks /\ sender[s].ok \in BOOLEAN
        /\ sender[s].ok => <<s, sender[s].at>> \in told
    BY Unrecorded DEF RowsFit
  <2> DEFINE row == [attempts |-> 1, delivered |-> sender[s].ok]
  <2>2. row \in Row /\ row.delivered = sender[s].ok
    BY <2>1, ConstantsAssumption DEF Row
  <2>3. Inserted(s, sender[s].at, row)
    BY <1>2
  <2> HIDE DEF row
  <2> QED
    BY <1>q, <2>1, <2>2, <2>3, InsertedFits
<1> QED
  BY <1>1, <1>2

LEMMA InsertQueuedFits ==
    ASSUME DeliveryInv, NEW s \in Senders, InsertQueued(s)
    PROVE  DeliveryInv'
<1> USE DEF InsertQueued, hooks, history
<1>1. PICK h \in sender[s].todo :
          IF hook[h] = "gone"
          THEN Undone(s) /\ UNCHANGED queue
          ELSE /\ Inserted(s, h, [attempts |-> 0, delivered |-> FALSE])
               /\ queue' = queue \cup {<<s, h>>}
  OBVIOUS
<1>2. h \in Hooks
  BY Unrecorded DEF Shape
<1>3. queue' \subseteq Queued \X Hooks
  BY <1>1, <1>2 DEF DeliveryInv, Shapes
<1>4. CASE Undone(s)
  BY <1>3, <1>4, UndoneFits
<1>5. CASE ~Undone(s)
  <2> DEFINE row == [attempts |-> 0, delivered |-> FALSE]
  <2>1. row \in Row /\ ~row.delivered
    BY ConstantsAssumption DEF Row
  <2>2. Inserted(s, h, row)
    BY <1>1, <1>5
  <2> HIDE DEF row
  <2> QED
    BY <1>2, <1>3, <2>1, <2>2, InsertedFits
<1> QED
  BY <1>4, <1>5

LEMMA PostFits ==
    ASSUME DeliveryInv, NEW s \in Senders, Post(s)
    PROVE  DeliveryInv'
<1> USE DEF Post, hooks, tasks
<1>0. PICK h \in sender[s].todo, ok \in BOOLEAN :
          /\ Posted(<<s, h>>, ok)
          /\ sender' = [sender EXCEPT ![s].phase = "posted", ![s].at = h, ![s].ok = ok]
  OBVIOUS
<1> DEFINE new == [sender[s] EXCEPT !.phase = "posted", !.at = h, !.ok = ok]
<1>1. Posted(<<s, h>>, ok) /\ sender' = [sender EXCEPT ![s] = new]
  BY <1>0 DEF DeliveryInv, Shapes
<1>2. /\ Shape(new) /\ new.todo = sender[s].todo /\ new.phase = "posted" /\ new.at = h
      /\ new.ok = ok /\ new.rows = sender[s].rows
  BY Unrecorded DEF Shape, SenderPhases
<1>3. sender'[s] = new /\ DOMAIN sender' = Senders
      /\ \A q \in Senders : q # s => sender'[q] = sender[q]
  BY <1>1 DEF DeliveryInv, Shapes
<1>4. h \in Hooks /\ <<s, h>> \in Ids
  BY Unrecorded DEF Ids, Shape
<1> HIDE DEF new
<1>5. /\ told \subseteq told' /\ (ok => <<s, h>> \in told')
      /\ posts' \in [Ids -> Nat]
      /\ \A q \in Senders, g \in Hooks : <<q, g>> # <<s, h>> => posts'[<<q, g>>] = posts[<<q, g>>]
  BY <1>1, <1>4 DEF Posted, DeliveryInv, Shapes, Ids
<1>6. Shapes'
  BY <1>2, <1>3, <1>5, Unrecorded DEF DeliveryInv, Shapes
<1>7. PostsFit(s)'
  <2> SUFFICES ASSUME NEW g \in Hooks, posts'[<<s, g>>] > 0
               PROVE  g = h \/ \E r \in sender[s].rows : r.hook = g
    BY <1>2, <1>3 DEF PostsFit
  <2> QED
    BY <1>5, Unrecorded DEF PostsFit
<1>8. RowsFit(s)'
  BY <1>2, <1>3, <1>4, <1>5, Unrecorded DEF RowsFit
<1>9. RecordsFit(s)'
  BY <1>5, Unrecorded DEF DeliveryInv, SendersFit, RecordsFit, Recorded
<1>10. \A q \in Senders : q # s => PostsFit(q)' /\ RowsFit(q)' /\ RecordsFit(q)'
  BY <1>3, <1>5, OthersFit
<1>11. WorkersFit'
  BY <1>5 DEF DeliveryInv, WorkersFit, WorkerFits, Recorded
<1> QED
  BY <1>6, <1>7, <1>8, <1>9, <1>10, <1>11 DEF DeliveryInv, SendersFit

LEMMA AnswerKeepsFit ==
    ASSUME DeliveryInv, NEW s \in Senders, Answer(s)
    PROVE  DeliveryInv'
<1> USE DEF Answer, hooks, tasks, history
<1>1. PICK a : sender' = [sender EXCEPT ![s].phase = "answered", ![s].answer = a]
  OBVIOUS
<1> DEFINE new == [sender[s] EXCEPT !.phase = "answered", !.answer = a]
<1>2. sender' = [sender EXCEPT ![s] = new]
  BY <1>1 DEF DeliveryInv, Shapes
<1>3. Shape(new) /\ new.phase = "answered" /\ new.rows = sender[s].rows
  BY Unrecorded DEF Shape, SenderPhases
<1>4. sender'[s] = new
  BY <1>2 DEF DeliveryInv, Shapes
<1> HIDE DEF new
<1>5. sender[s].phase = "firing" /\ UNCHANGED <<posts, told>>
  OBVIOUS
<1>6. PostsFit(s)'
  BY <1>3, <1>4, <1>5, Unrecorded DEF PostsFit
<1>7. RowsFit(s)'
  BY <1>3, <1>4, <1>5, Unrecorded DEF RowsFit
<1> QED
  BY <1>2, <1>3, <1>5, <1>6, <1>7, Unrecorded, QuietFits DEF DeliveryInv, Shapes

LEMMA AbortFits ==
    ASSUME DeliveryInv, NEW s \in Senders, Abort(s)
    PROVE  DeliveryInv'
BY UndoneFits DEF Abort, hooks, tasks, history, DeliveryInv, Shapes

\* A commit records what was inserted, and for each webhook posted to there is a row.
LEMMA CommitFits ==
    ASSUME DeliveryInv, NEW s \in Senders, Commit(s)
    PROVE  DeliveryInv'
<1> USE DEF Commit, hooks, tasks, history
<1> DEFINE new == [sender[s] EXCEPT !.phase = "committed", !.rows = {}]
           rows(h) == {r \in sender[s].rows : r.hook = h}
<1>1. sender' = [sender EXCEPT ![s] = new]
  BY DEF DeliveryInv, Shapes
<1>2. sender[s].phase \in {"firing", "answered"}
  OBVIOUS
<1>3. Shape(new) /\ new.phase = "committed" /\ new.rows = {}
  BY <1>2, Unrecorded DEF Shape, SenderPhases
<1>4. /\ sender'[s] = new /\ DOMAIN sender' = Senders
      /\ \A q \in Senders : q # s => sender'[q] = sender[q]
  BY <1>1 DEF DeliveryInv, Shapes
<1> HIDE DEF new
<1>5. \A q \in Senders, h \in Hooks : q # s => delivery'[<<q, h>>] = delivery[<<q, h>>]
  BY DEF Ids
<1>6. ASSUME NEW h \in Hooks, rows(h) # {}
      PROVE  /\ delivery'[<<s, h>>] \in Row
             /\ delivery'[<<s, h>>].delivered => <<s, h>> \in told
  <2> DEFINE r == CHOOSE r \in sender[s].rows : <<s, h>> = <<s, r.hook>>
  <2>1. r \in sender[s].rows /\ r.hook = h
    BY <1>6
  <2>2. delivery'[<<s, h>>] = r.row
    BY <2>1 DEF Ids
  <2> HIDE DEF r
  <2> QED
    BY <1>2, <2>1, <2>2, Unrecorded DEF RowsFit
<1>7. ASSUME NEW h \in Hooks, rows(h) = {} PROVE delivery'[<<s, h>>] = NoRow
  BY <1>2, <1>7, Unrecorded DEF Ids, Recorded
<1>a. UNCHANGED <<posts, told, queue, worker>>
  OBVIOUS
<1> HIDE DEF Commit
<1>b. ~NoRow.delivered
  BY DEF NoRow
<1>8. Row \subseteq [attempts: Nat, delivered: BOOLEAN] /\ NoRow \notin Row
  BY ConstantsAssumption DEF Row, NoRow
<1>9. delivery' \in [Ids -> [attempts: Nat, delivered: BOOLEAN] \cup {NoRow}]
  <2> SUFFICES ASSUME NEW id \in Ids
               PROVE  delivery'[id] \in [attempts: Nat, delivered: BOOLEAN] \cup {NoRow}
    BY DEF Commit
  <2>1. PICK q \in Senders, h \in Hooks : id = <<q, h>>
    BY DEF Ids
  <2>2. CASE q = s
    BY <1>6, <1>7, <1>8, <2>1, <2>2
  <2>3. CASE q # s
    BY <1>5, <2>1, <2>3 DEF DeliveryInv, Shapes
  <2> QED
    BY <2>2, <2>3
<1>10. Shapes'
  BY <1>3, <1>4, <1>9, <1>a DEF DeliveryInv, Shapes
<1>11. PostsFit(s)'
  <2> SUFFICES ASSUME NEW h \in Hooks, posts[<<s, h>>] > 0 PROVE delivery'[<<s, h>>] # NoRow
    BY <1>3, <1>4, <1>a DEF PostsFit, Recorded
  <2>1. \E r \in sender[s].rows : r.hook = h
    BY <1>2, Unrecorded DEF PostsFit
  <2> QED
    BY <1>6, <1>8, <2>1
<1>12. RowsFit(s)'
  BY <1>3, <1>4, <1>a DEF RowsFit
<1>13. RecordsFit(s)'
  <2> SUFFICES ASSUME NEW h \in Hooks, delivery'[<<s, h>>].delivered PROVE <<s, h>> \in told
    BY <1>3, <1>4, <1>a DEF RecordsFit
  <2>1. CASE rows(h) # {}
    BY <1>6, <2>1
  <2>2. CASE rows(h) = {}
    BY <1>7, <1>b, <2>2
  <2> QED
    BY <2>1, <2>2
<1>14. \A q \in Senders : q # s => PostsFit(q)' /\ RowsFit(q)' /\ RecordsFit(q)'
  BY <1>4, <1>5, <1>a, OthersFit
<1>15. WorkersFit'
  <2> SUFFICES ASSUME NEW w \in Workers, WorkerFits(w) PROVE WorkerFits(w)'
    BY DEF DeliveryInv, WorkersFit
  <2>1. ASSUME NEW id \in Queued \X Hooks, Recorded(id) PROVE Recorded(id)'
    <3>1. PICK q \in Senders, h \in Hooks : id = <<q, h>>
      BY DEF Senders
    <3>2. q # s
      BY <1>2, <2>1, <3>1, Unrecorded
    <3> QED
      BY <1>5, <2>1, <3>1, <3>2 DEF Recorded
  <2> QED
    BY <1>a, <2>1 DEF WorkerFits
<1> QED
  BY <1>10, <1>11, <1>12, <1>13, <1>14, <1>15 DEF DeliveryInv, SendersFit

-----------------------------------------------------------------------------
(***************************************************************************)
(* The workers, and the rest.                                              *)
(***************************************************************************)
\* A step that leaves the senders alone, posts only what is recorded and keeps
\* the records, which it marks delivered only if they were accepted.
LEMMA SendersStayFit ==
    ASSUME DeliveryInv, UNCHANGED sender, told \subseteq told',
           \A id \in Ids :
              /\ Recorded(id)' <=> Recorded(id)
              /\ posts'[id] > 0 => posts[id] > 0 \/ Recorded(id)
              /\ delivery'[id].delivered => delivery[id].delivered \/ id \in told'
    PROVE  SendersFit'
<1> SUFFICES ASSUME NEW s \in Senders PROVE PostsFit(s)' /\ RowsFit(s)' /\ RecordsFit(s)'
  BY DEF SendersFit
<1>1. PostsFit(s) /\ RowsFit(s) /\ RecordsFit(s)
  BY DEF DeliveryInv, SendersFit
<1>2. \A h \in Hooks : <<s, h>> \in Ids
  BY DEF Ids
<1>3. PostsFit(s)'
  <2> SUFFICES ASSUME NEW h \in Hooks, posts[<<s, h>>] > 0 \/ Recorded(<<s, h>>)
               PROVE  /\ sender[s].phase \notin {"idle", "begun"}
                      /\ s \in Queued => sender[s].phase = "committed"
                      /\ sender[s].phase \in {"firing", "posted", "answered"} =>
                            \/ sender[s].phase = "posted" /\ sender[s].at = h
                            \/ \E r \in sender[s].rows : r.hook = h
                      /\ sender[s].phase = "committed" => Recorded(<<s, h>>)
    BY <1>2 DEF PostsFit
  <2>1. CASE posts[<<s, h>>] > 0
    BY <1>1, <2>1 DEF PostsFit
  <2>2. CASE Recorded(<<s, h>>)
    BY <1>1, <2>2 DEF RecordsFit
  <2> QED
    BY <2>1, <2>2
<1>4. RowsFit(s)'
  BY <1>1 DEF RowsFit
<1>5. RecordsFit(s)'
  BY <1>1, <1>2 DEF RecordsFit
<1> QED
  BY <1>3, <1>4, <1>5

\* What a step does to its worker, and to no other.
LEMMA WorkersStayFit ==
    ASSUME DeliveryInv, NEW w \in Workers, NEW new,
           new \in TaskState,
           worker' = [worker EXCEPT ![w] = new], told \subseteq told',
           \A id \in Ids : Recorded(id) => Recorded(id)',
           new.phase # "idle" =>
              /\ new.id \in Queued \X Hooks /\ Recorded(new.id)'
              /\ new.phase = "ok" => new.id \in told'
    PROVE  WorkersFit' /\ worker' \in [Workers -> TaskState]
<1>1. Queued \X Hooks \subseteq Ids
  BY DEF Ids, Senders
<1> QED
  BY <1>1 DEF DeliveryInv, Shapes, WorkersFit, WorkerFits, TaskState

LEMMA WorkerStepFits ==
    ASSUME DeliveryInv, NEW w \in Workers, WorkerStep(w) \/ CrashWorker(w)
    PROVE  DeliveryInv'
<1> USE DEF hooks, history, Goes, Ends, TaskState
<1>a. Queued \X Hooks \subseteq Ids
  BY DEF Ids, Senders
<1>b. WorkerFits(w) /\ Shapes
  BY DEF DeliveryInv, WorkersFit
<1>1. CASE TakeTask(w)
  <2>1. PICK id \in queue :
            /\ queue' = queue \ {id}
            /\ IF Recorded(id)
               THEN worker' = [worker EXCEPT ![w] = [phase |-> "loaded", id |-> id]]
               ELSE UNCHANGED worker
    BY <1>1 DEF TakeTask
  <2>2. UNCHANGED <<sender, delivery, posts, told>>
    BY <1>1 DEF TakeTask
  <2>3. \A i \in Ids : Recorded(i)' <=> Recorded(i)
    BY <2>2 DEF Recorded
  <2>4. id \in Queued \X Hooks
    BY <2>1, <1>b DEF Shapes
  <2>5. SendersFit'
    BY <2>2, <2>3, SendersStayFit
  <2>6. WorkersFit' /\ worker' \in [Workers -> TaskState]
    <3>1. CASE Recorded(id)
      BY <1>a, <2>1, <2>2, <2>3, <2>4, <3>1, WorkersStayFit
    <3>2. CASE ~Recorded(id)
      BY <2>1, <2>2, <3>2 DEF DeliveryInv, Shapes, WorkersFit, WorkerFits, Recorded
    <3> QED
      BY <3>1, <3>2
  <2> QED
    BY <1>b, <2>1, <2>2, <2>5, <2>6 DEF DeliveryInv, Shapes
<1>2. CASE PostTask(w)
  <2>1. PICK ok \in BOOLEAN :
            /\ Posted(worker[w].id, ok)
            /\ worker' = [worker EXCEPT ![w].phase = IF ok THEN "ok" ELSE "failed"]
    BY <1>2 DEF PostTask
  <2>2. UNCHANGED <<sender, delivery, queue>>
    BY <1>2 DEF PostTask
  <2> DEFINE new == [worker[w] EXCEPT !.phase = IF ok THEN "ok" ELSE "failed"]
             id == worker[w].id
  <2>3. worker' = [worker EXCEPT ![w] = new]
    BY <2>1, <1>b DEF Shapes
  <2>4. /\ new \in TaskState
        /\ new.id = id /\ new.phase = IF ok THEN "ok" ELSE "failed"
    BY <1>b DEF Shapes
  <2>5. id \in Queued \X Hooks /\ id \in Ids /\ Recorded(id)
    BY <1>2, <1>a, <1>b DEF PostTask, WorkerFits
  <2> HIDE DEF new, id
  <2>6. /\ posts' \in [Ids -> Nat] /\ told \subseteq told' /\ (ok => id \in told')
        /\ \A i \in Ids : i # id => posts'[i] = posts[i]
    BY <2>1, <2>5, <1>b DEF Posted, Shapes, id
  <2>7. \A i \in Ids : Recorded(i)' <=> Recorded(i)
    BY <2>2 DEF Recorded
  <2>8. SendersFit'
    BY <2>2, <2>5, <2>6, <2>7, SendersStayFit
  <2>9. WorkersFit' /\ worker' \in [Workers -> TaskState]
    BY <2>3, <2>4, <2>5, <2>6, <2>7, WorkersStayFit
  <2> QED
    BY <1>b, <2>2, <2>6, <2>8, <2>9 DEF DeliveryInv, Shapes
<1>3. CASE RecordSuccess(w) \/ RecordFailure(w)
  <2> DEFINE id == worker[w].id
  <2>1. id \in Queued \X Hooks /\ id \in Ids /\ Recorded(id)
    BY <1>3, <1>a, <1>b DEF RecordSuccess, RecordFailure, WorkerFits
  <2>2. delivery[id] \in [attempts: Nat, delivered: BOOLEAN]
    BY <2>1, <1>b DEF Shapes, Recorded
  <2>3. UNCHANGED <<sender, posts, told, queue>>
    BY <1>3 DEF RecordSuccess, RecordFailure
  <2>4. PICK row \in [attempts: Nat, delivered: BOOLEAN] :
            /\ delivery' = [delivery EXCEPT ![id] = row]
            /\ row.delivered => delivery[id].delivered \/ id \in told
    <3>1. CASE RecordSuccess(w)
      <4> DEFINE row == [delivery[id] EXCEPT !.delivered = TRUE]
      <4>1. row \in [attempts: Nat, delivered: BOOLEAN] /\ id \in told
        BY <2>2, <3>1, <1>b DEF RecordSuccess, WorkerFits
      <4>2. delivery' = [delivery EXCEPT ![id] = row]
        BY <3>1, <1>b DEF RecordSuccess, Shapes
      <4> QED
        BY <4>1, <4>2
    <3>2. CASE RecordFailure(w)
      <4> DEFINE row == [delivery[id] EXCEPT !.attempts = @ + 1]
      <4>1. row \in [attempts: Nat, delivered: BOOLEAN] /\ row.delivered = delivery[id].delivered
        BY <2>2
      <4>2. delivery' = [delivery EXCEPT ![id] = row]
        BY <3>2, <1>b DEF RecordFailure, Shapes
      <4> QED
        BY <4>1, <4>2
    <3> QED
      BY <1>3, <3>1, <3>2
  <2>5. PICK new \in {IdleWorker, [worker[w] EXCEPT !.phase = "retrying"]} :
            worker' = [worker EXCEPT ![w] = new]
    BY <1>3, <1>b DEF RecordSuccess, RecordFailure, Shapes
  <2>6. new \in TaskState
        /\ (new.phase # "idle" => new.phase = "retrying" /\ new.id = id)
    BY <2>5, <1>b DEF Shapes, IdleWorker
  <2> HIDE DEF id
  <2>7. /\ delivery' \in [Ids -> [attempts: Nat, delivered: BOOLEAN] \cup {NoRow}]
        /\ delivery'[id] = row
        /\ \A i \in Ids : i # id => delivery'[i] = delivery[i]
    BY <2>1, <2>4, <1>b DEF Shapes
  <2>8. row # NoRow
    BY <2>4 DEF NoRow
  <2>9. \A i \in Ids : Recorded(i)' <=> Recorded(i)
    BY <2>1, <2>7, <2>8 DEF Recorded
  <2>10. SendersFit'
    BY <2>3, <2>4, <2>7, <2>9, SendersStayFit
  <2>11. WorkersFit' /\ worker' \in [Workers -> TaskState]
    BY <2>1, <2>3, <2>5, <2>6, <2>9, WorkersStayFit
  <2> QED
    BY <1>b, <2>3, <2>7, <2>10, <2>11 DEF DeliveryInv, Shapes
<1>4. CASE Requeue(w) \/ CrashWorker(w)
  <2>1. /\ UNCHANGED <<sender, delivery, posts, told>>
        /\ worker' = [worker EXCEPT ![w] = IdleWorker]
    BY <1>4 DEF Requeue, CrashWorker
  <2>2. queue' \subseteq Queued \X Hooks
    BY <1>4, <1>b DEF Requeue, CrashWorker, WorkerFits, Shapes
  <2>3. \A i \in Ids : Recorded(i)' <=> Recorded(i)
    BY <2>1 DEF Recorded
  <2>4. IdleWorker \in TaskState
        /\ IdleWorker.phase = "idle"
    BY DEF IdleWorker
  <2>5. SendersFit'
    BY <2>1, <2>3, SendersStayFit
  <2>6. WorkersFit' /\ worker' \in [Workers -> TaskState]
    BY <2>1, <2>3, <2>4, WorkersStayFit
  <2> QED
    BY <1>b, <2>1, <2>2, <2>5, <2>6 DEF DeliveryInv, Shapes
<1> QED
  BY <1>1, <1>2, <1>3, <1>4 DEF WorkerStep

LEMMA DeliveryNext == DeliveryInv /\ [Next]_vars => DeliveryInv'
<1> SUFFICES ASSUME DeliveryInv, [Next]_vars PROVE DeliveryInv'
  OBVIOUS
<1>1. ASSUME UNCHANGED <<delivery, sender, queue, worker, posts, told>> PROVE DeliveryInv'
  BY <1>1 DEF DeliveryInv, Shapes, SendersFit, PostsFit, RowsFit, RecordsFit, WorkersFit,
              WorkerFits, Recorded
<1>2. ASSUME NEW h \in Hooks,
             DeleteStep(h) \/ CreateHook(h) \/ StartDelete(h) \/ AbortDelete(h)
      PROVE  DeliveryInv'
  BY <1>1, <1>2 DEF DeleteStep, LockHook, CommitDelete, CreateHook, StartDelete, AbortDelete, tasks,
                    history
<1>3. ASSUME NEW s \in Senders, SenderStep(s) \/ Begin(s) \/ Abort(s) PROVE DeliveryInv'
  BY <1>3, SelectHooksFits, PostFits, InsertPostedFits, InsertQueuedFits, AnswerKeepsFit, CommitFits,
     BeginFits, AbortFits DEF SenderStep
<1>4. ASSUME UNCHANGED vars PROVE DeliveryInv'
  BY <1>1, <1>4 DEF vars
<1> QED
  BY <1>2, <1>3, <1>4, WorkerStepFits DEF Next, Progress

\* The inductive invariant holds in every reachable state.
THEOREM DeliveryInductive == Spec => []DeliveryInv
BY DeliveryInit, DeliveryNext, PTL DEF Spec

\* A committed request has recorded what it posted, and what is recorded as
\* delivered was accepted: DeliveriesAreTrue holds whatever fails in between.
THEOREM RecordsTrue == Spec => []DeliveriesAreTrue
<1>1. DeliveryInv => DeliveriesAreTrue
  <2> SUFFICES ASSUME DeliveryInv, NEW s \in Senders, NEW h \in Hooks
               PROVE  /\ posts[<<s, h>>] > 0 /\ sender[s].phase = "committed"
                             => Recorded(<<s, h>>)
                      /\ delivery[<<s, h>>].delivered => <<s, h>> \in told
    BY DEF DeliveriesAreTrue, Ids
  <2> QED
    BY DEF DeliveryInv, SendersFit, PostsFit, RecordsFit
<1> QED
  BY <1>1, DeliveryInductive, PTL

-----------------------------------------------------------------------------
(***************************************************************************)
(* The order in which the transactions began.                              *)
(***************************************************************************)
\* Who has begun has one place in the order, which holds nobody else.
Order ==
    /\ began \in Seq(Senders)
    /\ \A s \in Senders : sender[s].phase # "idle" => \E i \in DOMAIN began : began[i] = s
    /\ \A i \in DOMAIN began : sender[began[i]].phase # "idle"
    /\ \A i, j \in DOMAIN began : began[i] = began[j] => i = j

\* An answer has begun, and not before the one that was asked for it.
AnswerFits(s) ==
    sender[s].answer # Nobody =>
        /\ sender[s].phase # "idle"
        /\ sender[s].answer \in Senders /\ sender[sender[s].answer].phase # "idle"
        /\ Started(sender[s].answer) >= Started(s)

AnswersFit == \A s \in Senders : AnswerFits(s)

OrderInv == Order /\ AnswersFit

\* A set of places has a last one: otherwise a smallest set without one would
\* have a smaller one, of those that come after some place of it.
LEMMA LastPlace ==
    ASSUME NEW n \in Nat, NEW S \in SUBSET (1..n), S # {}
    PROVE  \E m \in S : \A i \in S : i <= m
<1> DEFINE Without == {I \in SUBSET S : I # {} /\ \A m \in I : \E i \in I : i > m}
<1>1. IsFiniteSet(S)
  <2>1. \A k \in Nat : IsFiniteSet(1..k)
    BY FS_Interval
  <2> QED
    BY <2>1, FS_Subset
<1>2. S \subseteq Nat
  OBVIOUS
<1>3. SUFFICES ASSUME Without # {} PROVE FALSE
  <2>1. S \notin Without
    BY <1>3
  <2> QED
    BY <1>2, <2>1
<1>4. PICK I \in Without : \A J \in Without : <<J, I>> \notin StrictSubsetOrdering(S)
  <2>1. Without \subseteq FiniteSubsetsOf(S)
    BY <1>1, FS_FiniteSubsetsOfFinite
  <2> HIDE DEF Without
  <2> QED
    BY <1>3, <2>1, FS_StrictSubsetOrderingWellFounded, WFMin
<1>5. PICK m \in I : TRUE
  OBVIOUS
<1> DEFINE After == {i \in I : i > m}
<1>6. After \in SUBSET S /\ After \subseteq I /\ m \notin After /\ I \in SUBSET S
  <2>1. I \in SUBSET S /\ m \in Nat
    BY <1>2
  <2>2. ~ m > m
    BY <2>1
  <2>3. After \subseteq I /\ m \notin After
    BY <2>2
  <2> QED
    BY <2>1, <2>3
<1>7. After # {}
  OBVIOUS
<1>8. ASSUME NEW k \in After PROVE \E i \in After : i > k
  <2>1. PICK i \in I : i > k
    OBVIOUS
  <2>2. i \in Nat /\ k \in Nat /\ m \in Nat /\ k > m
    BY <1>2
  <2>3. i > m
    BY <2>1, <2>2
  <2> QED
    BY <2>1, <2>3
<1>9. After \in Without /\ <<After, I>> \in StrictSubsetOrdering(S)
  <2> HIDE DEF After
  <2> QED
    BY <1>6, <1>7, <1>8 DEF StrictSubsetOrdering
<1> QED
  BY <1>4, <1>9

\* Started is the place of who has begun.
LEMMA StartedAt ==
    ASSUME Order, NEW s \in Senders, sender[s].phase # "idle"
    PROVE  Started(s) \in DOMAIN began /\ began[Started(s)] = s /\ Started(s) \in Nat
<1>1. \E i \in DOMAIN began : began[i] = s
  BY DEF Order
<1>2. DOMAIN began \subseteq Nat
  BY DEF Order
<1> QED
  BY <1>1, <1>2 DEF Started

\* Of transactions that have begun Latest is one that no other began after.
LEMMA LatestIsLast ==
    ASSUME Order, NEW S \in SUBSET Senders, S # {}, \A s \in S : sender[s].phase # "idle"
    PROVE  Latest(S) \in S /\ \A t \in S : Started(t) <= Started(Latest(S))
<1> DEFINE I == {Started(t) : t \in S}
<1>1. Len(began) \in Nat /\ DOMAIN began = 1..Len(began)
  BY DEF Order
<1>2. I \in SUBSET (1..Len(began)) /\ I # {}
  BY <1>1, StartedAt
<1>3. PICK m \in I : \A i \in I : i <= m
  <2> HIDE DEF I
  <2> QED
    BY <1>1, <1>2, LastPlace
<1>4. \E s \in S : \A t \in S : Started(t) <= Started(s)
  BY <1>3
<1> QED
  BY <1>4 DEF Latest

LEMMA OrderInit == Init => OrderInv
BY DEF Init, OrderInv, Order, AnswersFit, AnswerFits, NewSender

\* A step that lets nobody begin, forgets no beginning and gives no new answer.
LEMMA OrderStays ==
    ASSUME OrderInv, UNCHANGED began,
           \A q \in Senders : /\ sender'[q].phase = "idle" <=> sender[q].phase = "idle"
                              /\ sender'[q].answer \in {sender[q].answer, Nobody}
    PROVE  OrderInv'
<1>1. \A i \in DOMAIN began : began[i] \in Senders
  BY DEF OrderInv, Order
<1>2. Order'
  BY <1>1 DEF OrderInv, Order
<1>3. \A q : Started(q)' = Started(q)
  BY DEF Started
<1>4. AnswersFit'
  BY <1>3 DEF OrderInv, AnswersFit, AnswerFits
<1> QED
  BY <1>2, <1>4 DEF OrderInv

\* Who begins comes last, and moves nobody.
LEMMA OrderBegin ==
    ASSUME OrderInv, DeliveryInv, NEW s \in Senders, Begin(s)
    PROVE  OrderInv'
<1>1. PICK test \in BOOLEAN :
          sender' = [sender EXCEPT ![s].phase = "begun", ![s].test = test]
  BY DEF Begin
<1>2. Shape(sender[s]) /\ DOMAIN sender = Senders
  BY DEF DeliveryInv, Shapes
<1>3. /\ sender'[s].phase = "begun" /\ sender'[s].answer = sender[s].answer
      /\ \A q \in Senders \ {s} : sender'[q] = sender[q]
  BY <1>1, <1>2 DEF Shape
<1>4. sender[s].phase = "idle" /\ began' = Append(began, s)
  BY DEF Begin
<1>5. /\ began' \in Seq(Senders) /\ Len(began) \in Nat
      /\ DOMAIN began = 1..Len(began) /\ DOMAIN began' = 1..(Len(began) + 1)
      /\ began'[Len(began) + 1] = s
      /\ \A i \in DOMAIN began : began'[i] = began[i] /\ began[i] \in Senders \ {s}
  BY <1>4, AppendProperties DEF OrderInv, Order
<1>6. \A i \in DOMAIN began' : i \in DOMAIN began \/ i = Len(began) + 1
  BY <1>5
<1>7. Order'
  <2>1. ASSUME NEW q \in Senders, sender'[q].phase # "idle"
        PROVE  \E i \in DOMAIN began' : began'[i] = q
    BY <1>3, <1>5, <2>1 DEF OrderInv, Order
  <2>2. \A i \in DOMAIN began' : sender'[began'[i]].phase # "idle"
    BY <1>3, <1>5, <1>6 DEF OrderInv, Order
  <2>3. ASSUME NEW i \in DOMAIN began', NEW j \in DOMAIN began', began'[i] = began'[j]
        PROVE  i = j
    BY <1>5, <1>6, <2>3 DEF OrderInv, Order
  <2> QED
    BY <1>5, <2>1, <2>2, <2>3 DEF Order
<1>8. ASSUME NEW q \in Senders, sender[q].phase # "idle" PROVE Started(q)' = Started(q)
  <2>1. Started(q) \in DOMAIN began' /\ began'[Started(q)] = q
    BY <1>5, <1>8, StartedAt DEF OrderInv
  <2>2. \A i \in DOMAIN began' : began'[i] = q => i = Started(q)
    BY <1>7, <2>1 DEF Order
  <2>3. \A i : i \in DOMAIN began' /\ began'[i] = q <=> i = Started(q)
    BY <2>1, <2>2
  <2>4. Started(q)' = CHOOSE i \in DOMAIN began' : began'[i] = q
    BY DEF Started
  <2> HIDE DEF Started
  <2> QED
    BY <2>1, <2>2, <2>4
<1>9. AnswersFit'
  <2> SUFFICES ASSUME NEW q \in Senders, sender'[q].answer # Nobody PROVE AnswerFits(q)'
    BY DEF AnswersFit, AnswerFits
  <2>1. sender'[q].answer = sender[q].answer /\ AnswerFits(q)
    BY <1>3 DEF OrderInv, AnswersFit
  <2> QED
    BY <1>3, <1>4, <1>8, <2>1 DEF AnswerFits
<1> QED
  BY <1>7, <1>9 DEF OrderInv

\* The test endpoint answers with one of what is committed and its own, so it began.
LEMMA OrderAnswer ==
    ASSUME OrderInv, DeliveryInv, NEW s \in Senders, Answer(s)
    PROVE  OrderInv'
<1>1. PICK r \in sender[s].rows :
          sender' = [sender EXCEPT
              ![s].phase = "answered",
              ![s].answer = Latest({s} \cup {t \in Senders : Recorded(<<t, r.hook>>)})]
  BY DEF Answer
<1> DEFINE S == {s} \cup {t \in Senders : Recorded(<<t, r.hook>>)}
<1>2. Shape(sender[s]) /\ DOMAIN sender = Senders /\ r.hook \in Hooks
  BY DEF DeliveryInv, Shapes, SendersFit, RowsFit
<1>3. sender[s].phase = "firing" /\ UNCHANGED began
  BY DEF Answer
<1>4. \A t \in S : t \in Senders /\ sender[t].phase # "idle"
  BY <1>2, <1>3 DEF DeliveryInv, SendersFit, RecordsFit
<1> DEFINE a == Latest(S)
<1>5. a \in S /\ Started(s) <= Started(a)
  <2>1. S \in SUBSET Senders /\ S # {} /\ s \in S
    BY <1>4
  <2> HIDE DEF S
  <2> QED
    BY <1>4, <2>1, LatestIsLast DEF OrderInv
<1>6. a \in Senders /\ sender[a].phase # "idle"
  BY <1>4, <1>5
<1> HIDE DEF a
<1>7. sender' = [sender EXCEPT ![s].phase = "answered", ![s].answer = a]
  BY <1>1 DEF a
<1>8. /\ sender'[s].phase = "answered" /\ sender'[s].answer = a
      /\ \A q \in Senders \ {s} : sender'[q] = sender[q]
  BY <1>2, <1>7 DEF Shape
<1>9. Order'
  <2>1. \A i \in DOMAIN began : began[i] \in Senders
    BY DEF OrderInv, Order
  <2> QED
    BY <1>3, <1>8, <2>1 DEF OrderInv, Order
<1>10. Started(s) \in Nat /\ Started(a) \in Nat
  BY <1>3, <1>6, StartedAt DEF OrderInv
<1>11. \A q : Started(q)' = Started(q)
  BY <1>3 DEF Started
<1>12. AnswersFit'
  BY <1>3, <1>5, <1>6, <1>8, <1>10, <1>11 DEF OrderInv, AnswersFit, AnswerFits
<1> QED
  BY <1>9, <1>12 DEF OrderInv

LEMMA OrderNext == OrderInv /\ DeliveryInv /\ [Next]_vars => OrderInv'
<1> SUFFICES ASSUME OrderInv, DeliveryInv, [Next]_vars PROVE OrderInv'
  OBVIOUS
<1> USE DEF hooks, tasks, history
<1>1. ASSUME UNCHANGED <<sender, began>> PROVE OrderInv'
  BY <1>1, OrderStays
<1>2. ASSUME NEW s \in Senders, NEW new, UNCHANGED began, sender' = [sender EXCEPT ![s] = new],
             sender[s].phase # "idle", new.phase # "idle", new.answer \in {sender[s].answer, Nobody}
      PROVE  OrderInv'
  BY <1>2, OrderStays DEF DeliveryInv, Shapes
<1>3. ASSUME NEW s \in Senders, Undone(s), UNCHANGED began, sender[s].phase # "idle"
      PROVE  OrderInv'
  <2>1. NewSender.answer = Nobody /\ "phase" \in DOMAIN NewSender
    BY DEF NewSender
  <2> DEFINE new == [NewSender EXCEPT !.phase = "undone"]
  <2>2. new.answer = Nobody /\ new.phase = "undone"
    BY <2>1 DEF NewSender
  <2>3. sender' = [sender EXCEPT ![s] = new]
    BY <1>3 DEF Undone
  <2> HIDE DEF new
  <2> QED
    BY <1>2, <1>3, <2>2, <2>3
<1>4. ASSUME NEW s \in Senders, NEW h, NEW row, Inserted(s, h, row), UNCHANGED began,
             sender[s].phase # "idle"
      PROVE  OrderInv'
  <2> DEFINE new == WithRow(sender[s], h, row)
  <2>1. new.phase = "firing" /\ new.answer = sender[s].answer
    BY DEF WithRow, DeliveryInv, Shapes, Shape
  <2>2. sender' = [sender EXCEPT ![s] = new]
    BY <1>4 DEF Inserted, DeliveryInv, Shapes
  <2> HIDE DEF new
  <2> QED
    BY <1>2, <1>4, <2>1, <2>2
<1>5. ASSUME NEW s \in Senders, SenderStep(s) \/ Begin(s) \/ Abort(s) PROVE OrderInv'
  <2>0. Shape(sender[s]) /\ DOMAIN sender = Senders
    BY DEF DeliveryInv, Shapes
  <2>1. CASE SelectHooks(s)
    <3>1. sender[s].phase = "begun" /\ UNCHANGED began
      BY <2>1 DEF SelectHooks
    <3>2. CASE Undone(s)
      BY <1>3, <3>1, <3>2
    <3>3. CASE \E T \in Targets(s) : sender' = [sender EXCEPT ![s].phase = "firing", ![s].todo = T]
      <4>1. PICK T : sender' = [sender EXCEPT ![s].phase = "firing", ![s].todo = T]
        BY <3>3
      <4> DEFINE new == [sender[s] EXCEPT !.phase = "firing", !.todo = T]
      <4>2. new.phase = "firing" /\ new.answer = sender[s].answer
        BY <2>0 DEF Shape
      <4>3. sender' = [sender EXCEPT ![s] = new]
        BY <4>1, <2>0
      <4> HIDE DEF new
      <4> QED
        BY <1>2, <3>1, <4>2, <4>3
    <3> QED
      BY <2>1, <3>2, <3>3 DEF SelectHooks
  <2>2. CASE Post(s)
    <3>1. sender[s].phase = "firing" /\ UNCHANGED began
      BY <2>2 DEF Post
    <3>2. PICK h, ok : sender' = [sender EXCEPT ![s].phase = "posted", ![s].at = h, ![s].ok = ok]
      BY <2>2 DEF Post
    <3> DEFINE new == [sender[s] EXCEPT !.phase = "posted", !.at = h, !.ok = ok]
    <3>3. new.phase = "posted" /\ new.answer = sender[s].answer
      BY <2>0 DEF Shape
    <3>4. sender' = [sender EXCEPT ![s] = new]
      BY <3>2, <2>0
    <3> HIDE DEF new
    <3> QED
      BY <1>2, <3>1, <3>3, <3>4
  <2>3. CASE InsertPosted(s)
    BY <1>3, <1>4, <2>3 DEF InsertPosted
  <2>4. CASE InsertQueued(s)
    BY <1>3, <1>4, <2>4 DEF InsertQueued
  <2>5. CASE Answer(s)
    BY <2>5, OrderAnswer
  <2>6. CASE Commit(s)
    <3> DEFINE new == [sender[s] EXCEPT !.phase = "committed", !.rows = {}]
    <3>1. new.phase = "committed" /\ new.answer = sender[s].answer
      BY <2>0 DEF Shape
    <3>2. sender' = [sender EXCEPT ![s] = new] /\ UNCHANGED began /\ sender[s].phase # "idle"
      BY <2>6, <2>0 DEF Commit
    <3> HIDE DEF new
    <3> QED
      BY <1>2, <3>1, <3>2
  <2>7. CASE Begin(s)
    BY <2>7, OrderBegin
  <2>8. CASE Abort(s)
    BY <1>3, <2>8 DEF Abort
  <2> QED
    BY <1>5, <2>1, <2>2, <2>3, <2>4, <2>5, <2>6, <2>7, <2>8 DEF SenderStep
<1>6. ASSUME NEW h \in Hooks,
             DeleteStep(h) \/ CreateHook(h) \/ StartDelete(h) \/ AbortDelete(h)
      PROVE  OrderInv'
  BY <1>1, <1>6 DEF DeleteStep, LockHook, CommitDelete, CreateHook, StartDelete, AbortDelete
<1>7. ASSUME NEW w \in Workers, WorkerStep(w) \/ CrashWorker(w) PROVE OrderInv'
  BY <1>1, <1>7 DEF WorkerStep, TakeTask, PostTask, RecordSuccess, RecordFailure, Requeue, CrashWorker
<1>8. CASE UNCHANGED vars
  BY <1>1, <1>8 DEF vars
<1> QED
  BY <1>5, <1>6, <1>7, <1>8 DEF Next, Progress

\* The test endpoint never answers with a delivery of a transaction that began
\* earlier than its own: TestAnswersItsOwnOrLater holds for any number of transactions.
THEOREM AnswersOwnOrLater == Spec => []TestAnswersItsOwnOrLater
<1>1. OrderInv => TestAnswersItsOwnOrLater
  BY DEF OrderInv, AnswersFit, AnswerFits, TestAnswersItsOwnOrLater
<1> QED
  BY <1>1, OrderInit, OrderNext, DeliveryInductive, PTL DEF Spec

-----------------------------------------------------------------------------
(***************************************************************************)
(* The tasks.  A delivery has one at most, which counts its posts.         *)
(***************************************************************************)
Tasks == Queued \X Hooks

Holds(w, id) == worker[w].phase # "idle" /\ worker[w].id = id

OneTask(id) ==
    /\ \A w, v \in Workers : Holds(w, id) /\ Holds(v, id) => w = v
    /\ id \in queue => \A w \in Workers : ~Holds(w, id)

\* The post that a worker has made and not yet recorded.
NotYetCounted(w) == IF worker[w].phase \in {"ok", "failed"} THEN 1 ELSE 0

\* The delivery has been settled, or something will settle it, or its task died.
InHand(id) ==
    \/ id \in queue \cup lost
    \/ \E w \in Workers : Holds(w, id)
    \/ delivery[id].delivered
    \/ delivery[id].attempts = MaxRetries

Counted(id) ==
    IF Recorded(id)
    THEN /\ delivery[id].attempts \in 0..MaxRetries /\ posts[id] \in 0..MaxRetries
         /\ id \in queue => posts[id] = delivery[id].attempts /\ posts[id] < MaxRetries
         /\ \A w \in Workers : Holds(w, id) =>
               /\ posts[id] = delivery[id].attempts + NotYetCounted(w)
               /\ delivery[id].attempts < MaxRetries
         /\ InHand(id)
    ELSE posts[id] = 0

\* A transaction has queued what it has inserted, and nothing else.
QueuedFits(s) ==
    /\ \A h \in Hooks :
          \/ sender[s].phase \in {"idle", "begun"}
          \/ sender[s].phase = "firing" /\ h \in sender[s].todo
          => <<s, h>> \notin queue
    /\ \A r \in sender[s].rows : r.row.attempts = 0 /\ <<s, r.hook>> \in queue \cup lost
    /\ sender[s].phase = "committed" => sender[s].rows = {}

TaskInv ==
    /\ \A id \in Tasks : OneTask(id) /\ Counted(id)
    /\ \A s \in Queued : QueuedFits(s)

LEMMA TaskInit == Init => TaskInv
<1> SUFFICES ASSUME Init PROVE TaskInv
  OBVIOUS
<1>1. \A id \in Tasks : id \in Ids
  BY DEF Tasks, Ids, Senders
<1>2. \A w \in Workers, id \in Tasks : ~Holds(w, id)
  BY DEF Init, IdleWorker, Holds
<1>3. \A id \in Tasks : ~Recorded(id) /\ posts[id] = 0
  BY <1>1 DEF Init, Recorded
<1>4. \A s \in Queued : QueuedFits(s)
  BY DEF Init, QueuedFits, NewSender, Senders
<1> QED
  BY <1>2, <1>3, <1>4 DEF TaskInv, OneTask, Counted

\* The tasks of the transactions, which no other transaction touches.
TasksStay ==
    /\ UNCHANGED <<worker, lost>>
    /\ \A id \in Tasks : posts'[id] = posts[id] /\ delivery'[id] = delivery[id]

\* A step of a transaction that commits nothing.
LEMMA QueuedStep ==
    ASSUME DeliveryInv, TaskInv, TasksStay, queue \subseteq queue',
           \A id \in queue' \ queue : ~Recorded(id),
           \A s \in Queued : QueuedFits(s)'
    PROVE  TaskInv'
<1> SUFFICES ASSUME NEW id \in Tasks PROVE OneTask(id)' /\ Counted(id)'
  BY DEF TaskInv
<1>1. OneTask(id) /\ Counted(id)
  BY DEF TaskInv
<1>2. \A w \in Workers : /\ Holds(w, id)' <=> Holds(w, id)
                         /\ NotYetCounted(w)' = NotYetCounted(w)
                         /\ Holds(w, id) => Recorded(id)
  BY DEF TasksStay, Holds, NotYetCounted, DeliveryInv, WorkersFit, WorkerFits
<1>3. OneTask(id)'
  BY <1>1, <1>2 DEF OneTask
<1>4. /\ Recorded(id)' <=> Recorded(id)
      /\ Recorded(id) => (id \in queue' <=> id \in queue)
      /\ posts'[id] = posts[id] /\ delivery'[id] = delivery[id] /\ lost' = lost
  BY DEF TasksStay, Recorded
<1>5. Recorded(id) /\ InHand(id) => InHand(id)'
  BY <1>2, <1>4 DEF InHand
<1> QED
  BY <1>1, <1>2, <1>3, <1>4, <1>5 DEF Counted

\* A step that leaves a transaction's rows and what it has queued.
LEMMA QueuedStays ==
    ASSUME DeliveryInv, TaskInv, NEW s \in Queued, sender'[s] = sender[s],
           \A h \in Hooks : <<s, h>> \in queue' => <<s, h>> \in queue,
           \A h \in Hooks : <<s, h>> \in queue \cup lost => <<s, h>> \in queue' \cup lost'
    PROVE  QueuedFits(s)'
<1>1. QueuedFits(s) /\ \A r \in sender[s].rows : r.hook \in Hooks
  BY DEF TaskInv, DeliveryInv, SendersFit, RowsFit, Senders
<1> QED
  BY <1>1 DEF QueuedFits

\* A step of s that neither queues nor commits.
LEMMA QueuedMoves ==
    ASSUME DeliveryInv, TaskInv, NEW s \in Senders, NEW new, TasksStay, UNCHANGED queue,
           sender' = [sender EXCEPT ![s] = new],
           s \in Queued =>
              /\ new.phase # "committed" /\ new.rows \subseteq sender[s].rows
              /\ \A h \in Hooks :
                    \/ new.phase \in {"idle", "begun"}
                    \/ new.phase = "firing" /\ h \in new.todo
                    => <<s, h>> \notin queue
    PROVE  TaskInv'
<1>1. DOMAIN sender = Senders
  BY DEF DeliveryInv, Shapes
<1>2. ASSUME NEW q \in Queued PROVE QueuedFits(q)'
  <2>1. CASE q = s
    <3>1. sender'[s] = new
      BY <1>1
    <3>2. \A r \in sender[s].rows : r.row.attempts = 0 /\ <<s, r.hook>> \in queue \cup lost
      BY <2>1 DEF TaskInv, QueuedFits
    <3> QED
      BY <2>1, <3>1, <3>2 DEF QueuedFits, TasksStay
  <2>2. CASE q # s
    <3>1. sender'[q] = sender[q]
      BY <1>1, <2>2 DEF Senders
    <3> QED
      BY <3>1, QueuedStays DEF TasksStay
  <2> QED
    BY <2>1, <2>2
<1> QED
  BY <1>2, QueuedStep

\* The senders that are about to be undone, and those that begin.
LEMMA TasksUndone ==
    ASSUME DeliveryInv, TaskInv, NEW s \in Senders, TasksStay, UNCHANGED queue, Undone(s)
    PROVE  TaskInv'
<1> DEFINE base == NewSender
           new == [base EXCEPT !.phase = "undone"]
<1>1. sender' = [sender EXCEPT ![s] = new]
  BY DEF Undone
<1>2. new.phase = "undone" /\ new.rows = {}
  BY DEF NewSender
<1> HIDE DEF new
<1> QED
  BY <1>1, <1>2, QueuedMoves

LEMMA TasksOfSender ==
    ASSUME DeliveryInv, TaskInv, NEW s \in Senders,
           SelectHooks(s) \/ Post(s) \/ InsertPosted(s) \/ Answer(s) \/ Begin(s) \/ Abort(s)
    PROVE  TaskInv'
<1> USE DEF hooks, tasks, history
<1>0. Shape(sender[s]) /\ DOMAIN sender = Senders /\ DOMAIN posts = Ids
  BY DEF DeliveryInv, Shapes
<1>1. CASE SelectHooks(s)
  <2>1. TasksStay /\ UNCHANGED queue
    BY <1>1 DEF SelectHooks, TasksStay
  <2>2. ASSUME NEW T, sender' = [sender EXCEPT ![s].phase = "firing", ![s].todo = T] PROVE TaskInv'
    <3> DEFINE new == [sender[s] EXCEPT !.phase = "firing", !.todo = T]
    <3>1. sender' = [sender EXCEPT ![s] = new]
      BY <1>0, <2>2
    <3>2. new.phase = "firing" /\ new.rows = sender[s].rows
      BY <1>0 DEF Shape
    <3>3. s \in Queued => \A h \in Hooks : <<s, h>> \notin queue
      BY <1>1 DEF SelectHooks, TaskInv, QueuedFits
    <3> HIDE DEF new
    <3> QED
      BY <2>1, <3>1, <3>2, <3>3, QueuedMoves
  <2> QED
    BY <1>1, <2>1, <2>2, TasksUndone DEF SelectHooks
<1>2. CASE Post(s)
  <2>1. PICK h \in sender[s].todo, ok \in BOOLEAN :
            /\ Posted(<<s, h>>, ok)
            /\ sender' = [sender EXCEPT ![s].phase = "posted", ![s].at = h, ![s].ok = ok]
    BY <1>2 DEF Post
  <2>2. s \notin Queued
    BY <1>2 DEF Post
  <2>3. TasksStay /\ UNCHANGED queue
    <3>1. ASSUME NEW id \in Tasks PROVE posts'[id] = posts[id]
      <4>1. id # <<s, h>> /\ id \in Ids
        BY <2>2 DEF Tasks, Ids, Senders
      <4> QED
        BY <1>0, <2>1, <4>1 DEF Posted
    <3> QED
      BY <1>2, <3>1 DEF Post, TasksStay
  <2> DEFINE new == [sender[s] EXCEPT !.phase = "posted", !.at = h, !.ok = ok]
  <2>4. sender' = [sender EXCEPT ![s] = new]
    BY <1>0, <2>1
  <2> HIDE DEF new
  <2> QED
    BY <2>2, <2>3, <2>4, QueuedMoves
<1>3. CASE InsertPosted(s)
  <2>1. TasksStay /\ UNCHANGED queue /\ s \notin Queued
    BY <1>3 DEF InsertPosted, TasksStay, DeliveryInv, SendersFit, RowsFit
  <2>2. PICK row : Undone(s) \/ Inserted(s, sender[s].at, row)
    BY <1>3 DEF InsertPosted
  <2> DEFINE new == WithRow(sender[s], sender[s].at, row)
  <2>3. CASE Inserted(s, sender[s].at, row)
    <3>1. sender' = [sender EXCEPT ![s] = new]
      BY <1>0, <2>3 DEF Inserted
    <3> HIDE DEF new
    <3> QED
      BY <2>1, <3>1, QueuedMoves
  <2> QED
    BY <2>1, <2>2, <2>3, TasksUndone
<1>4. CASE Answer(s)
  <2>1. PICK a : sender' = [sender EXCEPT ![s].phase = "answered", ![s].answer = a]
    BY <1>4 DEF Answer
  <2> DEFINE new == [sender[s] EXCEPT !.phase = "answered", !.answer = a]
  <2>2. sender' = [sender EXCEPT ![s] = new]
    BY <1>0, <2>1
  <2>3. new.phase = "answered" /\ new.rows = sender[s].rows
    BY <1>0 DEF Shape
  <2>4. TasksStay /\ UNCHANGED queue
    BY <1>4 DEF Answer, TasksStay
  <2> HIDE DEF new
  <2> QED
    BY <2>2, <2>3, <2>4, QueuedMoves
<1>5. CASE Begin(s)
  <2>1. PICK test : sender' = [sender EXCEPT ![s].phase = "begun", ![s].test = test]
    BY <1>5 DEF Begin
  <2> DEFINE new == [sender[s] EXCEPT !.phase = "begun", !.test = test]
  <2>2. sender' = [sender EXCEPT ![s] = new]
    BY <1>0, <2>1
  <2>3. new.phase = "begun" /\ new.rows = sender[s].rows
    BY <1>0 DEF Shape
  <2>4. TasksStay /\ UNCHANGED queue
    BY <1>5 DEF Begin, TasksStay
  <2>5. s \in Queued => \A h \in Hooks : <<s, h>> \notin queue
    BY <1>5 DEF Begin, TaskInv, QueuedFits
  <2> HIDE DEF new
  <2> QED
    BY <2>2, <2>3, <2>4, <2>5, QueuedMoves
<1>6. CASE Abort(s)
  BY <1>6, TasksUndone DEF Abort, TasksStay
<1> QED
  BY <1>1, <1>2, <1>3, <1>4, <1>5, <1>6

\* A delivery is queued once: its webhook is then no longer to be fired at.
LEMMA TasksQueued ==
    ASSUME DeliveryInv, TaskInv, NEW s \in Senders, InsertQueued(s)
    PROVE  TaskInv'
<1> USE DEF InsertQueued, hooks, history
<1>0. DOMAIN sender = Senders /\ Shape(sender[s]) /\ s \in Queued
  BY DEF DeliveryInv, Shapes
<1>1. PICK h \in sender[s].todo :
          IF hook[h] = "gone"
          THEN Undone(s) /\ UNCHANGED queue
          ELSE /\ Inserted(s, h, [attempts |-> 0, delivered |-> FALSE])
               /\ queue' = queue \cup {<<s, h>>}
  OBVIOUS
<1>2. TasksStay
  BY DEF TasksStay
<1>3. CASE hook[h] = "gone"
  BY <1>1, <1>2, <1>3, TasksUndone
<1>4. CASE hook[h] # "gone"
  <2> DEFINE row == [attempts |-> 0, delivered |-> FALSE]
             rec == [hook |-> h, row |-> row]
             new == WithRow(sender[s], h, row)
  <2>1. /\ new.phase = "firing" /\ new.todo = sender[s].todo \ {h}
        /\ new.rows = sender[s].rows \cup {rec}
    BY <1>0 DEF WithRow, Shape
  <2>2. rec.hook = h /\ rec.row.attempts = 0
    OBVIOUS
  <2>3. sender' = [sender EXCEPT ![s] = new] /\ queue' = queue \cup {<<s, h>>}
    BY <1>0, <1>1, <1>4 DEF Inserted
  <2> HIDE DEF new, rec
  <2>4. sender'[s] = new /\ \A q \in Senders \ {s} : sender'[q] = sender[q]
    BY <1>0, <2>3
  <2>5. QueuedFits(s) /\ sender[s].phase = "firing"
    BY <1>0 DEF TaskInv
  <2>6. QueuedFits(s)'
    BY <1>2, <2>1, <2>2, <2>3, <2>4, <2>5 DEF QueuedFits, TasksStay
  <2>7. ASSUME NEW q \in Queued, q # s PROVE QueuedFits(q)'
    <3>1. sender'[q] = sender[q]
      BY <2>4, <2>7 DEF Senders
    <3> QED
      BY <1>2, <2>3, <2>7, <3>1, QueuedStays DEF TasksStay
  <2>8. ~Recorded(<<s, h>>)
    BY <1>0, Unrecorded DEF Shape
  <2> QED
    BY <1>2, <2>3, <2>6, <2>7, <2>8, QueuedStep
<1> QED
  BY <1>3, <1>4

\* What is committed has a task that has not begun, or has been lost.
LEMMA TasksCommitted ==
    ASSUME DeliveryInv, TaskInv, NEW s \in Senders, Commit(s)
    PROVE  TaskInv'
<1> USE DEF Commit, hooks, tasks, history
<1>0. DOMAIN sender = Senders /\ Shape(sender[s]) /\ sender[s].phase # "committed"
  BY DEF DeliveryInv, Shapes
<1> DEFINE new == [sender[s] EXCEPT !.phase = "committed", !.rows = {}]
<1>1. sender' = [sender EXCEPT ![s] = new] /\ new.phase = "committed" /\ new.rows = {}
  BY <1>0 DEF Shape
<1> HIDE DEF new
<1>2. sender'[s] = new /\ \A q \in Senders \ {s} : sender'[q] = sender[q]
  BY <1>0, <1>1
<1>3. \A q \in Queued : QueuedFits(q)'
  <2> SUFFICES ASSUME NEW q \in Queued PROVE QueuedFits(q)'
    OBVIOUS
  <2>1. CASE q = s
    BY <1>1, <1>2, <2>1 DEF QueuedFits
  <2>2. CASE q # s
    BY <1>2, <2>2, QueuedStays DEF Senders
  <2> QED
    BY <2>1, <2>2
<1>4. ASSUME NEW id \in Tasks PROVE OneTask(id)' /\ Counted(id)'
  <2>1. OneTask(id) /\ Counted(id) /\ id \in Ids
    BY DEF TaskInv, Tasks, Ids, Senders
  <2>2. \A w \in Workers : (Holds(w, id)' <=> Holds(w, id)) /\ NotYetCounted(w)' = NotYetCounted(w)
    BY DEF Holds, NotYetCounted
  <2>3. OneTask(id)'
    BY <2>1, <2>2 DEF OneTask
  <2>4. CASE \E r \in sender[s].rows : id = <<s, r.hook>>
    <3> DEFINE r == CHOOSE r \in sender[s].rows : id = <<s, r.hook>>
    <3>1. r \in sender[s].rows /\ id = <<s, r.hook>> /\ delivery'[id] = r.row
      BY <2>1, <2>4
    <3> HIDE DEF r
    <3>2. s \in Queued
      BY <3>1 DEF Tasks
    <3>3. r.row.attempts = 0 /\ id \in queue \cup lost /\ r.row \in Row /\ r.hook \in Hooks
      BY <3>1, <3>2 DEF TaskInv, QueuedFits, DeliveryInv, SendersFit, RowsFit
    <3>4. ~Recorded(id) /\ posts[id] = 0
      BY <1>0, <2>1, <3>1, <3>3, Unrecorded DEF Counted
    <3>5. \A w \in Workers : ~Holds(w, id)
      BY <3>4 DEF DeliveryInv, WorkersFit, WorkerFits, Holds
    <3>6. Recorded(id)' /\ posts'[id] = 0 /\ delivery'[id].attempts = 0
      <4>1. NoRow \notin Row
        BY DEF NoRow, Row
      <4> QED
        BY <3>1, <3>3, <3>4, <4>1 DEF Recorded
    <3>7. InHand(id)'
      BY <3>3 DEF InHand
    <3> QED
      BY <2>2, <2>3, <3>5, <3>6, <3>7, ConstantsAssumption DEF Counted
  <2>5. CASE ~ \E r \in sender[s].rows : id = <<s, r.hook>>
    <3>1. delivery'[id] = delivery[id] /\ UNCHANGED <<posts, queue, lost>>
      BY <2>1, <2>5
    <3>2. (Recorded(id)' <=> Recorded(id)) /\ (InHand(id) => InHand(id)')
      BY <2>2, <3>1 DEF Recorded, InHand
    <3> QED
      BY <2>1, <2>2, <2>3, <3>1, <3>2 DEF Counted
  <2> QED
    BY <2>4, <2>5
<1> QED
  BY <1>3, <1>4 DEF TaskInv

\* A step of worker w for the task id, which it holds if it holds any.
LEMMA TasksOfWorker ==
    ASSUME DeliveryInv, TaskInv, NEW w \in Workers, NEW id \in Tasks, NEW new,
           UNCHANGED sender, worker' = [worker EXCEPT ![w] = new],
           worker[w].phase = "idle" \/ worker[w].id = id, new.phase = "idle" \/ new.id = id,
           queue' \ {id} = queue \ {id}, lost' \ {id} = lost \ {id},
           \A i \in Tasks : i # id => delivery'[i] = delivery[i] /\ posts'[i] = posts[i],
           \/ sender[id[1]].phase = "committed"
           \/ ~Recorded(id) /\ queue' \subseteq queue /\ id \in lost',
           OneTask(id)', Counted(id)'
    PROVE  TaskInv'
<1>0. worker'[w] = new /\ \A v \in Workers \ {w} : worker'[v] = worker[v]
  BY DEF DeliveryInv, Shapes
<1>1. ASSUME NEW i \in Tasks, i # id PROVE OneTask(i)' /\ Counted(i)'
  <2>1. OneTask(i) /\ Counted(i)
    BY DEF TaskInv
  <2>2. ASSUME NEW v \in Workers
        PROVE  /\ Holds(v, i)' <=> Holds(v, i)
               /\ Holds(v, i) => NotYetCounted(v)' = NotYetCounted(v)
    <3>1. CASE v = w
      BY <1>0, <1>1, <3>1 DEF Holds
    <3>2. CASE v # w
      BY <1>0, <3>2 DEF Holds, NotYetCounted
    <3> QED
      BY <3>1, <3>2
  <2>3. OneTask(i)'
    BY <1>1, <2>1, <2>2 DEF OneTask
  <2>4. /\ i \in queue' <=> i \in queue
        /\ i \in lost' <=> i \in lost
        /\ delivery'[i] = delivery[i] /\ posts'[i] = posts[i]
    BY <1>1
  <2>5. (Recorded(i)' <=> Recorded(i)) /\ (InHand(i) => InHand(i)')
    BY <2>2, <2>4 DEF Recorded, InHand
  <2> QED
    BY <2>1, <2>2, <2>3, <2>4, <2>5 DEF Counted
<1>2. ASSUME NEW s \in Queued PROVE QueuedFits(s)'
  <2>1. QueuedFits(s) /\ \A r \in sender[s].rows : r.hook \in Hooks
    BY DEF TaskInv, DeliveryInv, SendersFit, RowsFit, Senders
  <2>2. CASE sender[s].phase = "committed"
    BY <2>1, <2>2 DEF QueuedFits
  <2>3. CASE sender[s].phase # "committed"
    <3>1. \A h \in Hooks : <<s, h>> \in queue' => <<s, h>> \in queue
      BY <2>3
    <3>2. \A h \in Hooks : <<s, h>> \in queue \cup lost => <<s, h>> \in queue' \cup lost'
      BY <2>3
    <3> QED
      BY <3>1, <3>2, QueuedStays
  <2> QED
    BY <2>2, <2>3
<1> QED
  BY <1>1, <1>2 DEF TaskInv

\* The task that a worker holds: one, with its posts counted.
LEMMA HeldTask ==
    ASSUME DeliveryInv, TaskInv, NEW w \in Workers, worker[w].phase # "idle"
    PROVE  LET id == worker[w].id IN
           /\ id \in Tasks /\ id \in Ids /\ Recorded(id) /\ sender[id[1]].phase = "committed"
           /\ id \notin queue /\ \A v \in Workers : Holds(v, id) => v = w
           /\ delivery[id] \in [attempts: Nat, delivered: BOOLEAN]
           /\ posts[id] = delivery[id].attempts + NotYetCounted(w)
           /\ delivery[id].attempts < MaxRetries /\ posts[id] \in 0..MaxRetries
<1> DEFINE id == worker[w].id
<1>1. id \in Tasks /\ id \in Ids /\ Recorded(id)
  BY DEF DeliveryInv, WorkersFit, WorkerFits, Tasks, Ids, Senders
<1>2. sender[id[1]].phase = "committed"
  BY <1>1 DEF Tasks, DeliveryInv, SendersFit, RecordsFit, Senders
<1>3. OneTask(id) /\ Counted(id) /\ Holds(w, id)
  BY <1>1 DEF TaskInv, Holds
<1>4. delivery[id] \in [attempts: Nat, delivered: BOOLEAN]
  BY <1>1 DEF DeliveryInv, Shapes, Recorded
<1> QED
  BY <1>1, <1>2, <1>3, <1>4 DEF OneTask, Counted

LEMMA TasksTaken ==
    ASSUME DeliveryInv, TaskInv, NEW w \in Workers, TakeTask(w)
    PROVE  TaskInv'
<1>1. PICK id \in queue :
          /\ queue' = queue \ {id}
          /\ IF Recorded(id)
             THEN /\ worker' = [worker EXCEPT ![w] = [phase |-> "loaded", id |-> id]]
                  /\ UNCHANGED lost
             ELSE lost' = lost \cup {id} /\ UNCHANGED worker
  BY DEF TakeTask
<1>2. worker[w].phase = "idle" /\ UNCHANGED <<sender, delivery, posts>>
  BY DEF TakeTask, history
<1>3. id \in Tasks /\ OneTask(id) /\ Counted(id) /\ worker \in [Workers -> TaskState]
  BY DEF TaskInv, DeliveryInv, Shapes, Tasks
<1>4. \A v \in Workers : ~Holds(v, id)
  BY <1>3 DEF OneTask
<1>5. CASE Recorded(id)
  <2> DEFINE new == [phase |-> "loaded", id |-> id]
  <2>1. worker'[w] = new /\ \A v \in Workers \ {w} : worker'[v] = worker[v]
    BY <1>1, <1>3, <1>5
  <2>2. sender[id[1]].phase = "committed"
    BY <1>3, <1>5 DEF Tasks, DeliveryInv, SendersFit, RecordsFit, Senders
  <2>3. Holds(w, id)' /\ \A v \in Workers \ {w} : ~Holds(v, id)'
    BY <1>4, <2>1 DEF Holds
  <2>4. OneTask(id)'
    BY <1>1, <2>3 DEF OneTask
  <2>5. NotYetCounted(w)' = 0
    BY <2>1 DEF NotYetCounted
  <2>6. /\ Recorded(id)' /\ delivery[id].attempts \in 0..MaxRetries /\ posts[id] \in 0..MaxRetries
        /\ posts[id] = delivery[id].attempts /\ posts[id] < MaxRetries
    BY <1>2, <1>3, <1>5 DEF Recorded, Counted
  <2>7. InHand(id)'
    BY <2>3 DEF InHand
  <2>8. Counted(id)'
    BY <1>1, <1>2, <2>3, <2>5, <2>6, <2>7, ConstantsAssumption DEF Counted
  <2> QED
    BY <1>1, <1>2, <1>3, <1>5, <2>2, <2>4, <2>8, TasksOfWorker
<1>6. CASE ~Recorded(id)
  <2>1. worker' = [worker EXCEPT ![w] = worker[w]] /\ UNCHANGED worker
    BY <1>1, <1>3, <1>6
  <2>2. OneTask(id)'
    BY <1>1, <1>4, <2>1 DEF OneTask, Holds
  <2>3. Counted(id)'
    BY <1>2, <1>3, <1>6 DEF Counted, Recorded
  <2> QED
    BY <1>1, <1>2, <1>3, <1>6, <2>1, <2>2, <2>3, TasksOfWorker
<1> QED
  BY <1>5, <1>6

\* The worker goes on with its task, or is done with it, and then it is queued again
\* or settled.
Works(w, id, new) ==
    /\ worker' = [worker EXCEPT ![w] = new]
    /\ new.phase = "idle" \/ new.id = id
    /\ queue' = queue \/ (queue' = queue \cup {id} /\ new.phase = "idle")
    /\ lost' = lost \/ lost' = lost \cup {id}
    /\ \A i \in Tasks : i # id => delivery'[i] = delivery[i] /\ posts'[i] = posts[i]
    /\ delivery'[id] # NoRow /\ delivery'[id].attempts \in 0..MaxRetries
    /\ posts'[id] \in 0..MaxRetries
    /\ id \in queue' => posts'[id] = delivery'[id].attempts /\ posts'[id] < MaxRetries
    /\ new.phase # "idle" =>
          /\ posts'[id] = delivery'[id].attempts
                             + (IF new.phase \in {"ok", "failed"} THEN 1 ELSE 0)
          /\ delivery'[id].attempts < MaxRetries
    /\ new.phase = "idle" =>
          \/ id \in queue' \cup lost' \/ delivery'[id].delivered
          \/ delivery'[id].attempts = MaxRetries

\* A step of a worker at its task.
LEMMA TasksWorked ==
    ASSUME DeliveryInv, TaskInv, NEW w \in Workers,
           PostTask(w) \/ RecordSuccess(w) \/ RecordFailure(w) \/ Requeue(w) \/ CrashWorker(w)
    PROVE  TaskInv'
<1> USE DEF Goes, Ends, history
<1>1. worker[w].phase # "idle" /\ UNCHANGED sender
  BY DEF PostTask, RecordSuccess, RecordFailure, Requeue, CrashWorker
<1>t. PICK id \in Tasks : id = worker[w].id
  BY <1>1, HeldTask
<1>2. /\ id \in Ids /\ Recorded(id) /\ sender[id[1]].phase = "committed"
      /\ id \notin queue /\ \A v \in Workers : Holds(v, id) => v = w
      /\ delivery[id] \in [attempts: Nat, delivered: BOOLEAN]
      /\ posts[id] = delivery[id].attempts + NotYetCounted(w)
      /\ delivery[id].attempts < MaxRetries /\ posts[id] \in 0..MaxRetries
  BY <1>t, <1>1, HeldTask
<1>3. /\ worker \in [Workers -> TaskState] /\ posts \in [Ids -> Nat] /\ DOMAIN delivery = Ids
      /\ MaxRetries \in Nat
  BY ConstantsAssumption DEF DeliveryInv, Shapes
<1>4. IdleWorker.phase = "idle"
  BY DEF IdleWorker
<1>5. ASSUME NEW new, Works(w, id, new)
      PROVE  TaskInv'
  <2>1. worker'[w] = new /\ \A v \in Workers \ {w} : worker'[v] = worker[v]
    BY <1>3, <1>5 DEF Works
  <2>2. \A v \in Workers : Holds(v, id)' => v = w /\ new.phase # "idle"
    BY <1>2, <1>5, <2>1 DEF Holds, Works
  <2>3. OneTask(id)'
    BY <1>2, <1>5, <2>2 DEF OneTask, Works
  <2>4. InHand(id)'
    <3>1. CASE new.phase = "idle"
      BY <1>5, <3>1 DEF InHand, Works
    <3>2. CASE new.phase # "idle"
      BY <1>5, <2>1, <3>2 DEF InHand, Holds, Works
    <3> QED
      BY <3>1, <3>2
  <2>5. NotYetCounted(w)' = IF new.phase \in {"ok", "failed"} THEN 1 ELSE 0
    BY <2>1 DEF NotYetCounted
  <2>6. Counted(id)'
    BY <1>5, <2>2, <2>4, <2>5 DEF Counted, Recorded, Works
  <2> QED
    BY <1>t, <1>1, <1>2, <1>5, <2>3, <2>6, TasksOfWorker DEF Works
<1>6. CASE PostTask(w)
  <2>1. PICK ok \in BOOLEAN : /\ Posted(id, ok)
                              /\ worker' = [worker EXCEPT ![w].phase = IF ok THEN "ok" ELSE "failed"]
    BY <1>t, <1>6 DEF PostTask
  <2> DEFINE new == [worker[w] EXCEPT !.phase = IF ok THEN "ok" ELSE "failed"]
  <2>2. worker' = [worker EXCEPT ![w] = new]
    BY <2>1, <1>3
  <2>3. new.phase \in {"ok", "failed"} /\ new.id = id
    BY <1>t, <1>3 DEF TaskState
  <2> HIDE DEF new
  <2>4. posts'[id] = posts[id] + 1 /\ \A i \in Ids : i # id => posts'[i] = posts[i]
    BY <1>2, <1>3, <2>1 DEF Posted
  <2>5. NotYetCounted(w) = 0
    BY <1>6 DEF PostTask, NotYetCounted
  <2>6. UNCHANGED <<delivery, queue, lost>> /\ Tasks \subseteq Ids /\ delivery[id] # NoRow
    BY <1>2, <1>6 DEF PostTask, Tasks, Ids, Senders, Recorded
  <2>w. Works(w, id, new)
    BY <1>2, <1>3, <2>2, <2>3, <2>4, <2>5, <2>6 DEF Works
  <2> QED
    BY <1>5, <2>w
<1>7. CASE RecordSuccess(w)
  <2> DEFINE row == [delivery[id] EXCEPT !.delivered = TRUE]
  <2>1. row \in [attempts: Nat, delivered: BOOLEAN] /\ row.delivered
        /\ row.attempts = delivery[id].attempts
    BY <1>2
  <2>2. delivery' = [delivery EXCEPT ![id] = row] /\ worker' = [worker EXCEPT ![w] = IdleWorker]
        /\ UNCHANGED <<posts, queue, lost>>
    BY <1>t, <1>2, <1>3, <1>7 DEF RecordSuccess
  <2> HIDE DEF row
  <2>3. delivery'[id] = row /\ \A i \in Tasks : i # id => delivery'[i] = delivery[i]
    BY <1>2, <1>3, <2>2 DEF Tasks, Ids, Senders
  <2>4. row # NoRow
    BY <2>1 DEF NoRow
  <2>w. Works(w, id, IdleWorker)
    BY <1>2, <1>3, <1>4, <2>1, <2>2, <2>3, <2>4 DEF Works
  <2> QED
    BY <1>5, <2>w
<1>8. CASE RecordFailure(w)
  <2> DEFINE row == [delivery[id] EXCEPT !.attempts = @ + 1]
  <2>1. row \in [attempts: Nat, delivered: BOOLEAN] /\ row.attempts = delivery[id].attempts + 1
    BY <1>2
  <2>2. delivery' = [delivery EXCEPT ![id] = row] /\ UNCHANGED <<posts, queue, lost>>
    BY <1>t, <1>2, <1>3, <1>8 DEF RecordFailure
  <2> HIDE DEF row
  <2>3. delivery'[id] = row /\ \A i \in Tasks : i # id => delivery'[i] = delivery[i]
    BY <1>2, <1>3, <2>2 DEF Tasks, Ids, Senders
  <2>4. row # NoRow
    BY <2>1 DEF NoRow
  <2>5. NotYetCounted(w) = 1
    BY <1>8 DEF RecordFailure, NotYetCounted
  <2>6. CASE row.attempts < MaxRetries
    <3> DEFINE new == [worker[w] EXCEPT !.phase = "retrying"]
    <3>1. worker' = [worker EXCEPT ![w] = new]
      BY <1>t, <1>3, <1>8, <2>3, <2>6 DEF RecordFailure
    <3>2. new.phase = "retrying" /\ new.id = id
      BY <1>t, <1>3 DEF TaskState
    <3> HIDE DEF new
    <3>w. Works(w, id, new)
      BY <1>2, <1>3, <2>1, <2>2, <2>3, <2>4, <2>5, <2>6, <3>1, <3>2 DEF Works
    <3> QED
      BY <1>5, <3>w
  <2>7. CASE ~(row.attempts < MaxRetries)
    <3>1. worker' = [worker EXCEPT ![w] = IdleWorker]
      BY <1>t, <1>8, <2>3, <2>7 DEF RecordFailure
    <3>2. row.attempts = MaxRetries
      BY <1>2, <1>3, <2>1, <2>7
    <3>w. Works(w, id, IdleWorker)
      BY <1>2, <1>3, <1>4, <2>1, <2>2, <2>3, <2>4, <3>1, <3>2 DEF Works
    <3> QED
      BY <1>5, <3>w
  <2> QED
    BY <2>6, <2>7
<1>9. CASE Requeue(w)
  <2>1. NotYetCounted(w) = 0
    BY <1>9 DEF Requeue, NotYetCounted
  <2>2. /\ queue' = queue \cup {id} /\ worker' = [worker EXCEPT ![w] = IdleWorker]
        /\ UNCHANGED <<delivery, posts, lost>> /\ delivery[id] # NoRow
    BY <1>t, <1>2, <1>9 DEF Requeue, Recorded
  <2>w. Works(w, id, IdleWorker)
    BY <1>2, <1>3, <1>4, <2>1, <2>2 DEF Works
  <2> QED
    BY <1>5, <2>w
<1>10. CASE CrashWorker(w)
  <2>1. /\ lost' = lost \cup {id} /\ worker' = [worker EXCEPT ![w] = IdleWorker]
        /\ UNCHANGED <<delivery, posts, queue>> /\ delivery[id] # NoRow
    BY <1>t, <1>2, <1>10 DEF CrashWorker, Recorded
  <2>w. Works(w, id, IdleWorker)
    BY <1>2, <1>3, <1>4, <2>1 DEF Works
  <2> QED
    BY <1>5, <2>w
<1> QED
  BY <1>6, <1>7, <1>8, <1>9, <1>10

LEMMA TaskNext == DeliveryInv /\ TaskInv /\ [Next]_vars => TaskInv'
<1> SUFFICES ASSUME DeliveryInv, TaskInv, [Next]_vars PROVE TaskInv'
  OBVIOUS
<1>1. ASSUME UNCHANGED <<sender, delivery, posts, tasks>> PROVE TaskInv'
  BY <1>1 DEF tasks, TaskInv, OneTask, Counted, InHand, Holds, NotYetCounted, Recorded, QueuedFits
<1>2. ASSUME NEW h \in Hooks,
             DeleteStep(h) \/ CreateHook(h) \/ StartDelete(h) \/ AbortDelete(h)
      PROVE  TaskInv'
  BY <1>1, <1>2 DEF DeleteStep, LockHook, CommitDelete, CreateHook, StartDelete, AbortDelete,
                    history
<1>3. ASSUME NEW s \in Senders, SenderStep(s) \/ Begin(s) \/ Abort(s) PROVE TaskInv'
  BY <1>3, TasksOfSender, TasksQueued, TasksCommitted DEF SenderStep
<1>4. ASSUME NEW w \in Workers, WorkerStep(w) \/ CrashWorker(w) PROVE TaskInv'
  BY <1>4, TasksTaken, TasksWorked DEF WorkerStep
<1>5. CASE UNCHANGED vars
  BY <1>1, <1>5 DEF vars, tasks
<1> QED
  BY <1>2, <1>3, <1>4, <1>5 DEF Next, Progress

\* A delivery has one task at most, and its posts are counted: the inductive
\* invariant of the tasks holds in every reachable state.
THEOREM TasksInductive == Spec => []TaskInv
BY TaskInit, TaskNext, DeliveryInductive, PTL DEF Spec

\* What a queued event tells has happened, and is told MAX_RETRIES times at most:
\* QueuedTellsWhatHappened holds for any number of transactions, webhooks, workers,
\* retries and crashes.
THEOREM QueuedTold == Spec => []QueuedTellsWhatHappened
<1>1. DeliveryInv /\ TaskInv => QueuedTellsWhatHappened
  <2> SUFFICES ASSUME DeliveryInv, TaskInv, NEW id \in Queued \X Hooks, posts[id] > 0
               PROVE  sender[id[1]].phase = "committed" /\ posts[id] <= MaxRetries
    BY DEF QueuedTellsWhatHappened
  <2>1. sender[id[1]].phase = "committed"
    BY DEF DeliveryInv, SendersFit, PostsFit, Senders
  <2>2. Counted(id)
    BY DEF TaskInv, Tasks
  <2> QED
    BY <2>1, <2>2, ConstantsAssumption DEF Counted
<1> QED
  BY <1>1, DeliveryInductive, TasksInductive, PTL

\* A delivery that is recorded is delivered, given up, or still has its task, unless
\* that was run before the commit or died with its worker: no delivery is forgotten,
\* which is what DeliveriesSettle rests on.
NoneForgotten == \A id \in Tasks : Recorded(id) => InHand(id)

\* No delivery is forgotten, whatever workers die and transactions fail.
THEOREM NeverForgotten == Spec => []NoneForgotten
<1>1. TaskInv => NoneForgotten
  BY DEF TaskInv, NoneForgotten, Counted
<1> QED
  BY <1>1, TasksInductive, PTL

-----------------------------------------------------------------------------
(***************************************************************************)
(* The types, but for what the invariants above say of them.               *)
(***************************************************************************)
\* A sender's part in TypeOK.
SenderTyped(r) ==
    /\ r.test \in BOOLEAN
    /\ r.at \in IF r.phase = "posted" THEN Hooks ELSE {Nobody}
    /\ r.rows \subseteq [hook: Hooks, row: Row]

RestTyped ==
    /\ hook \in [Hooks -> {"absent", "there", "gone"}]
    /\ remover \in [Hooks -> {"idle", "loaded", "locked", "failed"}]
    /\ \A s \in Senders : SenderTyped(sender[s])
    /\ \A id \in Ids : delivery[id] \in Row \cup {NoRow}
    /\ \A w \in Workers :
          worker[w].id \in IF worker[w].phase = "idle" THEN {Nobody} ELSE Queued \X Hooks
    /\ told \subseteq Ids /\ lost \subseteq Ids
    /\ crashes \in 0..MaxCrashes

LEMMA TypesComplete == DeliveryInv /\ OrderInv /\ RestTyped => TypeOK
<1> SUFFICES ASSUME DeliveryInv, OrderInv, RestTyped PROVE TypeOK
  OBVIOUS
<1>1. \A s \in Senders : Shape(sender[s]) /\ AnswerFits(s) /\ SenderTyped(sender[s])
  BY DEF DeliveryInv, Shapes, OrderInv, AnswersFit, RestTyped
<1>2. \A s \in Senders :
          /\ sender[s].phase \in SenderPhases /\ sender[s].test \in BOOLEAN
          /\ sender[s].todo \subseteq Hooks
          /\ sender[s].at \in IF sender[s].phase = "posted" THEN Hooks ELSE {Nobody}
          /\ sender[s].rows \subseteq [hook: Hooks, row: Row]
          /\ sender[s].answer \in Senders \cup {Nobody}
  BY <1>1 DEF Shape, AnswerFits, SenderTyped
<1>3. \A w \in Workers :
          /\ worker[w].phase \in {"idle", "loaded", "ok", "failed", "retrying"}
          /\ worker[w].id \in IF worker[w].phase = "idle" THEN {Nobody} ELSE Queued \X Hooks
  BY DEF DeliveryInv, Shapes, TaskState, RestTyped
<1>4. delivery \in [Ids -> Row \cup {NoRow}]
  BY DEF DeliveryInv, Shapes, RestTyped
<1>5. began \in Seq(Senders) /\ queue \subseteq Queued \X Hooks /\ posts \in [Ids -> Nat]
  BY DEF DeliveryInv, Shapes, OrderInv, Order
<1> QED
  BY <1>2, <1>3, <1>4, <1>5 DEF RestTyped, TypeOK

\* A sender that is done with the webhook it is at has one row more, or is undone.
LEMMA RowTyped ==
    ASSUME DeliveryInv, NEW s \in Senders, SenderTyped(sender[s]), NEW h \in Hooks, NEW row \in Row
    PROVE  SenderTyped(WithRow(sender[s], h, row))
BY DEF DeliveryInv, Shapes, Shape, SenderTyped, WithRow

LEMMA StepTyped ==
    ASSUME DeliveryInv, NEW s \in Senders, SenderTyped(sender[s]),
           SenderStep(s) \/ Begin(s) \/ Abort(s)
    PROVE  \E new : sender' = [sender EXCEPT ![s] = new] /\ SenderTyped(new)
<1>0. Shape(sender[s]) /\ DOMAIN sender = Senders
  BY DEF DeliveryInv, Shapes
<1>1. ASSUME Undone(s) PROVE \E new : sender' = [sender EXCEPT ![s] = new] /\ SenderTyped(new)
  <2> DEFINE new == [NewSender EXCEPT !.phase = "undone"]
  <2>1. SenderTyped(new)
    BY DEF NewSender, SenderTyped
  <2>2. sender' = [sender EXCEPT ![s] = new]
    BY <1>1 DEF Undone
  <2> HIDE DEF new
  <2> QED
    BY <2>1, <2>2
<1>2. ASSUME NEW h \in Hooks, NEW row \in Row, Inserted(s, h, row)
      PROVE  \E new : sender' = [sender EXCEPT ![s] = new] /\ SenderTyped(new)
  <2>1. sender' = [sender EXCEPT ![s] = WithRow(sender[s], h, row)]
    BY <1>0, <1>2 DEF Inserted
  <2> QED
    BY <2>1, RowTyped
<1>3. CASE SelectHooks(s)
  <2>1. CASE Undone(s)
    BY <1>1, <2>1
  <2>2. CASE \E T \in Targets(s) : sender' = [sender EXCEPT ![s].phase = "firing", ![s].todo = T]
    <3>1. PICK T : sender' = [sender EXCEPT ![s].phase = "firing", ![s].todo = T]
      BY <2>2
    <3> DEFINE new == [sender[s] EXCEPT !.phase = "firing", !.todo = T]
    <3>2. SenderTyped(new)
      BY <1>0, <1>3 DEF Shape, SenderTyped, SelectHooks
    <3>3. sender' = [sender EXCEPT ![s] = new]
      BY <1>0, <3>1
    <3> HIDE DEF new
    <3> QED
      BY <3>2, <3>3
  <2> QED
    BY <1>3, <2>1, <2>2 DEF SelectHooks
<1>4. CASE Post(s)
  <2>1. PICK h \in Hooks, ok \in BOOLEAN :
            sender' = [sender EXCEPT ![s].phase = "posted", ![s].at = h, ![s].ok = ok]
    BY <1>0, <1>4 DEF Post, Shape
  <2> DEFINE new == [sender[s] EXCEPT !.phase = "posted", !.at = h, !.ok = ok]
  <2>2. SenderTyped(new)
    BY <1>0 DEF Shape, SenderTyped
  <2>3. sender' = [sender EXCEPT ![s] = new]
    BY <1>0, <2>1
  <2> HIDE DEF new
  <2> QED
    BY <2>2, <2>3
<1>5. CASE InsertPosted(s)
  <2>1. sender[s].at \in Hooks /\ sender[s].ok \in BOOLEAN
    BY <1>5 DEF InsertPosted, DeliveryInv, SendersFit, RowsFit
  <2>2. [attempts |-> 1, delivered |-> sender[s].ok] \in Row
    BY <2>1, ConstantsAssumption DEF Row
  <2> QED
    BY <1>1, <1>2, <1>5, <2>1, <2>2 DEF InsertPosted
<1>6. CASE InsertQueued(s)
  <2>1. [attempts |-> 0, delivered |-> FALSE] \in Row
    BY ConstantsAssumption DEF Row
  <2> QED
    BY <1>0, <1>1, <1>2, <1>6, <2>1 DEF InsertQueued, Shape
<1>7. CASE Answer(s)
  <2>1. PICK a : sender' = [sender EXCEPT ![s].phase = "answered", ![s].answer = a]
    BY <1>7 DEF Answer
  <2> DEFINE new == [sender[s] EXCEPT !.phase = "answered", !.answer = a]
  <2>2. SenderTyped(new)
    BY <1>0, <1>7 DEF Shape, SenderTyped, Answer
  <2>3. sender' = [sender EXCEPT ![s] = new]
    BY <1>0, <2>1
  <2> HIDE DEF new
  <2> QED
    BY <2>2, <2>3
<1>8. CASE Commit(s)
  <2> DEFINE new == [sender[s] EXCEPT !.phase = "committed", !.rows = {}]
  <2>1. SenderTyped(new)
    BY <1>0, <1>8 DEF Shape, SenderTyped, Commit
  <2>2. sender' = [sender EXCEPT ![s] = new]
    BY <1>0, <1>8 DEF Commit
  <2> HIDE DEF new
  <2> QED
    BY <2>1, <2>2
<1>9. CASE Begin(s)
  <2>1. PICK test \in BOOLEAN :
            sender' = [sender EXCEPT ![s].phase = "begun", ![s].test = test]
    BY <1>9 DEF Begin
  <2> DEFINE new == [sender[s] EXCEPT !.phase = "begun", !.test = test]
  <2>2. SenderTyped(new)
    BY <1>0, <1>9 DEF Shape, SenderTyped, Begin
  <2>3. sender' = [sender EXCEPT ![s] = new]
    BY <1>0, <2>1
  <2> HIDE DEF new
  <2> QED
    BY <2>2, <2>3
<1>10. CASE Abort(s)
  BY <1>1, <1>10 DEF Abort
<1> QED
  BY <1>3, <1>4, <1>5, <1>6, <1>7, <1>8, <1>9, <1>10 DEF SenderStep

\* What a commit writes are rows of its sender.
LEMMA CommitTyped ==
    ASSUME DeliveryInv, RestTyped, NEW s \in Senders, Commit(s)
    PROVE  \A id \in Ids : delivery'[id] \in Row \cup {NoRow}
<1> SUFFICES ASSUME NEW id \in Ids PROVE delivery'[id] \in Row \cup {NoRow}
  OBVIOUS
<1>1. \A r \in sender[s].rows : r.row \in Row
  BY DEF DeliveryInv, SendersFit, RowsFit
<1>2. CASE \E r \in sender[s].rows : id = <<s, r.hook>>
  <2> DEFINE r == CHOOSE r \in sender[s].rows : id = <<s, r.hook>>
  <2>1. delivery'[id] = r.row /\ r \in sender[s].rows
    BY <1>2 DEF Commit
  <2> QED
    BY <1>1, <2>1
<1>3. CASE ~ \E r \in sender[s].rows : id = <<s, r.hook>>
  BY <1>3 DEF Commit, RestTyped
<1> QED
  BY <1>2, <1>3

LEMMA TypesInit == Init => RestTyped
<1> SUFFICES ASSUME Init PROVE RestTyped
  OBVIOUS
<1>1. /\ hook \in [Hooks -> {"absent", "there", "gone"}]
      /\ remover \in [Hooks -> {"idle", "loaded", "locked", "failed"}]
      /\ told \subseteq Ids /\ lost \subseteq Ids
  BY DEF Init
<1>2. \A s \in Senders : SenderTyped(sender[s])
  BY DEF Init, SenderTyped, NewSender
<1>3. \A id \in Ids : delivery[id] \in Row \cup {NoRow}
  BY DEF Init
<1>4. \A w \in Workers : worker[w].phase = "idle" /\ worker[w].id = Nobody
  BY DEF Init, IdleWorker
<1>5. crashes \in 0..MaxCrashes
  BY ConstantsAssumption DEF Init
<1> QED
  BY <1>1, <1>2, <1>3, <1>4, <1>5 DEF RestTyped

LEMMA TypesNext == RestTyped /\ DeliveryInv /\ (DeliveryInv /\ TaskInv)' /\ [Next]_vars => RestTyped'
<1> SUFFICES ASSUME RestTyped, DeliveryInv, DeliveryInv', TaskInv', [Next]_vars PROVE RestTyped'
  OBVIOUS
<1> USE DEF hooks, tasks, history
<1>1. ASSUME NEW h \in Hooks,
             DeleteStep(h) \/ CreateHook(h) \/ StartDelete(h) \/ AbortDelete(h)
      PROVE  RestTyped'
  <2>1. UNCHANGED <<delivery, sender, worker, told, lost, crashes>>
    BY <1>1 DEF DeleteStep, LockHook, CommitDelete, CreateHook, StartDelete, AbortDelete
  <2>2. /\ hook' \in [Hooks -> {"absent", "there", "gone"}]
        /\ remover' \in [Hooks -> {"idle", "loaded", "locked", "failed"}]
    BY <1>1 DEF RestTyped, DeleteStep, LockHook, CommitDelete, CreateHook, StartDelete, AbortDelete
  <2> QED
    BY <2>1, <2>2 DEF RestTyped
<1>2. ASSUME NEW s \in Senders, SenderStep(s) \/ Begin(s) \/ Abort(s) PROVE RestTyped'
  <2>1. UNCHANGED <<hook, remover, worker, lost, crashes>>
    BY <1>2 DEF SenderStep, SelectHooks, Post, InsertPosted, InsertQueued, Answer, Commit, Begin, Abort
  <2>2. PICK new : sender' = [sender EXCEPT ![s] = new] /\ SenderTyped(new)
    BY <1>2, StepTyped DEF RestTyped
  <2>3. \A q \in Senders : sender'[q] = IF q = s THEN new ELSE sender[q]
    BY <2>2 DEF DeliveryInv, Shapes
  <2>4. \A q \in Senders : SenderTyped(sender'[q])
    BY <2>2, <2>3 DEF RestTyped
  <2>5. told' \subseteq Ids
    <3>1. CASE Post(s)
      BY <3>1 DEF Post, Posted, RestTyped, DeliveryInv, Shapes, Shape, Ids
    <3>2. CASE ~Post(s)
      BY <1>2, <3>2 DEF SenderStep, SelectHooks, InsertPosted, InsertQueued, Answer, Commit,
                        Begin, Abort, RestTyped
    <3> QED
      BY <3>1, <3>2
  <2>6. \A id \in Ids : delivery'[id] \in Row \cup {NoRow}
    <3>1. CASE Commit(s)
      BY <3>1, CommitTyped
    <3>2. CASE ~Commit(s)
      BY <1>2, <3>2 DEF SenderStep, SelectHooks, Post, InsertPosted, InsertQueued, Answer,
                        Begin, Abort, RestTyped
    <3> QED
      BY <3>1, <3>2
  <2> QED
    BY <2>1, <2>4, <2>5, <2>6 DEF RestTyped
<1>3. ASSUME NEW w \in Workers, WorkerStep(w) \/ CrashWorker(w) PROVE RestTyped'
  <2>1. UNCHANGED <<hook, remover, sender>>
    BY <1>3 DEF WorkerStep, TakeTask, PostTask, RecordSuccess, RecordFailure, Requeue, CrashWorker
  <2>2. \A i \in Tasks : i \in Ids
    BY DEF Tasks, Ids, Senders
  <2>3. worker[w].phase # "idle" => worker[w].id \in Tasks
    BY DEF RestTyped, Tasks
  <2>4. \A id \in Ids : delivery'[id] \in Row \cup {NoRow}
    <3> SUFFICES ASSUME NEW id \in Ids PROVE delivery'[id] \in Row \cup {NoRow}
      OBVIOUS
    <3>1. CASE id \in Tasks
      <4>1. delivery'[id] \in [attempts: Nat, delivered: BOOLEAN] \cup {NoRow}
        BY DEF DeliveryInv, Shapes
      <4>2. delivery'[id] # NoRow => delivery'[id].attempts \in 0..MaxRetries
        BY <3>1 DEF TaskInv, Counted, Recorded
      <4> QED
        BY <4>1, <4>2 DEF Row
    <3>2. CASE id \notin Tasks
      <4>1. worker[w].phase \in {"ok", "failed"} => id # worker[w].id
        BY <2>3, <3>2
      <4>2. delivery'[id] = delivery[id]
        BY <1>3, <4>1 DEF WorkerStep, TakeTask, PostTask, RecordSuccess, RecordFailure, Requeue,
                          CrashWorker, DeliveryInv, Shapes
      <4> QED
        BY <4>2 DEF RestTyped
    <3> QED
      BY <3>1, <3>2
  <2>5. \A v \in Workers :
            worker'[v].id \in IF worker'[v].phase = "idle" THEN {Nobody} ELSE Queued \X Hooks
    BY <1>3, <2>3 DEF WorkerStep, TakeTask, PostTask, RecordSuccess, RecordFailure, Requeue,
                      CrashWorker, Goes, Ends, IdleWorker, DeliveryInv, Shapes, TaskState, RestTyped
  <2>6. told' \subseteq Ids /\ lost' \subseteq Ids
    BY <1>3, <2>2, <2>3 DEF WorkerStep, TakeTask, PostTask, Posted, RecordSuccess, RecordFailure,
                      Requeue, CrashWorker, DeliveryInv, Shapes, Tasks, RestTyped
  <2>7. crashes' \in 0..MaxCrashes
    BY <1>3, ConstantsAssumption DEF WorkerStep, TakeTask, PostTask, RecordSuccess, RecordFailure,
                      Requeue, CrashWorker, RestTyped
  <2>8. \A s \in Senders : SenderTyped(sender'[s])
    BY <2>1 DEF RestTyped
  <2> QED
    BY <2>1, <2>4, <2>5, <2>6, <2>7, <2>8 DEF RestTyped
<1>4. CASE UNCHANGED vars
  BY <1>4 DEF vars, RestTyped
<1> QED
  BY <1>1, <1>2, <1>3, <1>4 DEF Next, Progress

\* The types, and with them the bounds of the attempts, hold in every reachable state.
THEOREM TypeCorrect == Spec => []TypeOK
<1>1. Spec => [](DeliveryInv /\ TaskInv /\ OrderInv)
  BY DeliveryInductive, TasksInductive, OrderInit, OrderNext, PTL DEF Spec
<1> QED
  BY <1>1, TypesInit, TypesNext, TypesComplete, PTL DEF Spec

=============================================================================
