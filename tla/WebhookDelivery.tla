-------------------------- MODULE WebhookDelivery --------------------------
(***************************************************************************)
(* Webhooks of one project: transactions of the API post events to the     *)
(* subscribers and record the deliveries, a webhook is deleted, and a      *)
(* Celery worker delivers what is queued, with retries.                    *)
(*                                                                         *)
(* The repository has two functions fire_webhook_event.  The one of        *)
(* webhook_event_service, which the handlers call, posts at once, inside   *)
(* the caller's transaction.  The one of workers/webhook_dispatch inserts  *)
(* the delivery and queues a task; only tests call it, but the task is     *)
(* registered and both write webhook_deliveries.  A task is acknowledged   *)
(* when it starts (Celery's default), so a worker that dies loses it.      *)
(* An INSERT of a delivery shares the lock of its webhook's row (foreign   *)
(* key), a DELETE of the webhook needs it alone.                           *)
(***************************************************************************)
EXTENDS Integers, Sequences, FiniteSets

CONSTANTS
    Hooks,       \* ids of webhooks
    Wildcard,    \* the webhooks subscribed to "*", not to the event by name
    Requests,    \* transactions of API handlers, which post while they run
    Queued,      \* transactions that fire an event in workers/webhook_dispatch
    Workers,     \* processes that run dispatch_webhook
    MaxRetries,  \* MAX_RETRIES
    MaxCrashes,  \* bound: workers that die
    Nobody

Senders == Requests \cup Queued
Ids     == Senders \X Hooks      \* a sender makes one delivery for a webhook

ASSUME ConstantsAssumption ==
    /\ Wildcard \subseteq Hooks
    /\ Requests \cap Queued = {}
    /\ MaxRetries \in Nat \ {0} /\ MaxCrashes \in Nat
    /\ Nobody \notin Hooks /\ Nobody \notin Ids /\ Nobody \notin Senders

VARIABLES
    hook,      \* the committed rows of webhooks: absent, there or gone
    delivery,  \* the committed rows of webhook_deliveries
    sender,    \* the transactions that fire events
    began,     \* the order in which they began, which created_at has
    remover,   \* the transaction that deletes a webhook
    queue,     \* the tasks in the broker
    worker,    \* the workers
    posts,     \* history: how often a delivery was posted
    told,      \* history: the deliveries that the subscriber has accepted
    lost,      \* history: the deliveries whose task ended without a result
    crashes    \* how many workers have died

vars == <<hook, delivery, sender, began, remover, queue, worker, posts, told, lost, crashes>>

Row   == [attempts: 0..MaxRetries, delivered: BOOLEAN]
NoRow == [attempts |-> -1, delivered |-> FALSE]

SenderPhases ==
    {"idle",      \* no request yet
     "begun",     \* the transaction has begun
     "firing",    \* the webhooks are selected, todo are left
     "posted",    \* webhook at has been posted to, its delivery not yet inserted
     "answered",  \* the test endpoint has looked up its answer
     "committed", "undone"}

NewSender == [phase |-> "idle", test |-> FALSE, todo |-> {}, at |-> Nobody, ok |-> FALSE,
              rows |-> {}, answer |-> Nobody]
IdleWorker == [phase |-> "idle", id |-> Nobody]

Init ==
    /\ hook = [h \in Hooks |-> "absent"]
    /\ delivery = [id \in Ids |-> NoRow]
    /\ sender = [s \in Senders |-> NewSender]
    /\ began = <<>>
    /\ remover = [h \in Hooks |-> "idle"]
    /\ queue = {}
    /\ worker = [w \in Workers |-> IdleWorker]
    /\ posts = [id \in Ids |-> 0]
    /\ told = {} /\ lost = {}
    /\ crashes = 0

hooks   == <<hook, remover>>
tasks   == <<queue, worker, lost, crashes>>
history == <<posts, told>>

Recorded(id) == delivery[id] # NoRow

-----------------------------------------------------------------------------
(***************************************************************************)
(* create_webhook and delete_webhook.                                      *)
(***************************************************************************)
CreateHook(h) ==
    /\ hook[h] = "absent"
    /\ hook' = [hook EXCEPT ![h] = "there"]
    /\ UNCHANGED <<delivery, sender, began, remover, tasks, history>>

\* The webhook is selected and deleted from the session: the flush loads its
\* deliveries to set their webhook_id to null.  The column forbids that, so
\* with a delivery the handler raises and nothing happens.
StartDelete(h) ==
    /\ hook[h] = "there" /\ remover[h] = "idle"
    /\ \A s \in Senders : ~Recorded(<<s, h>>)
    /\ remover' = [remover EXCEPT ![h] = "loaded"]
    /\ UNCHANGED <<hook, delivery, sender, began, tasks, history>>

\* The transactions that have inserted a delivery of h and not ended.
Sharing(h) == {s \in Senders : \E r \in sender[s].rows : r.hook = h}

\* DELETE FROM webhooks waits for those, and is refused when one of them has
\* committed a delivery.
LockHook(h) ==
    /\ remover[h] = "loaded"
    /\ Sharing(h) = {}
    /\ remover' = [remover EXCEPT ![h] =
                      IF \E s \in Senders : Recorded(<<s, h>>) THEN "idle" ELSE "locked"]
    /\ UNCHANGED <<hook, delivery, sender, began, tasks, history>>

\* Mutant of CommitDelete: the transaction stays open.
LeaksDelete(h) ==
    /\ remover[h] = "locked"
    /\ hook' = [hook EXCEPT ![h] = "gone"]
    /\ UNCHANGED <<delivery, sender, began, remover, tasks, history>>

CommitDelete(h) ==
    /\ remover[h] = "locked"
    /\ hook' = [hook EXCEPT ![h] = "gone"]
    /\ remover' = [remover EXCEPT ![h] = "idle"]
    /\ UNCHANGED <<delivery, sender, began, tasks, history>>

\* The request fails.  Bound: it is not tried again.
AbortDelete(h) ==
    /\ remover[h] \in {"loaded", "locked"}
    /\ remover' = [remover EXCEPT ![h] = "failed"]
    /\ UNCHANGED <<hook, delivery, sender, began, tasks, history>>

-----------------------------------------------------------------------------
(***************************************************************************)
(* The transactions that fire an event.                                    *)
(***************************************************************************)
\* A handler that will fire an event, or the test endpoint.
Begin(s) ==
    /\ sender[s].phase = "idle"
    /\ \E test \in BOOLEAN :
          /\ s \in Queued => ~test
          /\ sender' = [sender EXCEPT ![s].phase = "begun", ![s].test = test]
    /\ began' = Append(began, s)
    /\ UNCHANGED <<hooks, delivery, tasks, history>>

\* get_db rolls the transaction back.
Undone(s) == sender' = [sender EXCEPT ![s] = [NewSender EXCEPT !.phase = "undone"]]

\* webhook_event_service compares the names of events, webhook_dispatch knows
\* the wildcard, and the test endpoint takes the webhook it was asked for, if it is there.
Targets(s) ==
    LET there == {h \in Hooks : hook[h] = "there"}
    IN  IF sender[s].test THEN {{h} : h \in there}
        ELSE {IF s \in Queued THEN there ELSE there \ Wildcard}

SelectHooks(s) ==
    /\ sender[s].phase = "begun"
    /\ \/ \E T \in Targets(s) : sender' = [sender EXCEPT ![s].phase = "firing", ![s].todo = T]
       \/ sender[s].test /\ (\E h \in Hooks : hook[h] # "there") /\ Undone(s)
    /\ UNCHANGED <<hooks, delivery, began, tasks, history>>

\* One POST of delivery id, which the subscriber answers with success, or
\* otherwise, late or not at all.
Posted(id, ok) ==
    /\ posts' = [posts EXCEPT ![id] = @ + 1]
    /\ told' = IF ok THEN told \cup {id} ELSE told

\* _deliver_webhook up to the answer, which is caught whatever it is.
Post(s) ==
    /\ s \notin Queued /\ sender[s].phase = "firing"
    /\ \E h \in sender[s].todo, ok \in BOOLEAN :
          /\ Posted(<<s, h>>, ok)
          /\ sender' = [sender EXCEPT ![s].phase = "posted", ![s].at = h, ![s].ok = ok]
    /\ UNCHANGED <<hooks, delivery, began, tasks>>

WithRow(r, h, row) ==
    [r EXCEPT !.phase = "firing", !.todo = @ \ {h}, !.at = Nobody,
              !.rows = @ \cup {[hook |-> h, row |-> row]}]

Inserted(s, h, row) == sender' = [sender EXCEPT ![s] = WithRow(@, h, row)]

\* Mutant of InsertPosted: a delivery that failed is not recorded.
InsertsAnswered(s) ==
    /\ sender[s].phase = "posted"
    /\ LET h == sender[s].at IN
          /\ remover[h] # "locked"
          /\ IF hook[h] = "gone" THEN Undone(s)
             ELSE IF sender[s].ok THEN Inserted(s, h, [attempts |-> 1, delivered |-> TRUE])
             ELSE sender' = [sender EXCEPT ![s].phase = "firing", ![s].at = Nobody,
                                            ![s].todo = @ \ {h}]
    /\ UNCHANGED <<hooks, delivery, began, tasks, history>>

\* The end of _deliver_webhook.  The INSERT waits for a deletion of the webhook,
\* and when that commits the foreign key fails and with it the whole request.
InsertPosted(s) ==
    /\ sender[s].phase = "posted"
    /\ LET h == sender[s].at IN
          /\ remover[h] # "locked"
          /\ IF hook[h] = "gone" THEN Undone(s)
             ELSE Inserted(s, h, [attempts |-> 1, delivered |-> sender[s].ok])
    /\ UNCHANGED <<hooks, delivery, began, tasks, history>>

\* The loop of webhook_dispatch.fire_webhook_event: insert, flush, delay().
InsertQueued(s) ==
    /\ s \in Queued /\ sender[s].phase = "firing"
    /\ \E h \in sender[s].todo :
          /\ remover[h] # "locked"
          /\ IF hook[h] = "gone"
             THEN Undone(s) /\ UNCHANGED queue
             ELSE /\ Inserted(s, h, [attempts |-> 0, delivered |-> FALSE])
                  /\ queue' = queue \cup {<<s, h>>}
    /\ UNCHANGED <<hooks, delivery, began, worker, lost, crashes, history>>

\* The place of s in the order of created_at, the start of its transaction.
Started(s) == CHOOSE i \in DOMAIN began : began[i] = s

\* Mutant of Latest: oldest first.
Oldest(S) == CHOOSE s \in S : \A t \in S : Started(s) <= Started(t)

Latest(S) == CHOOSE s \in S : \A t \in S : Started(t) <= Started(s)

\* send_test_event selects the latest delivery of the webhook, of those that are
\* committed and its own.
Answer(s) ==
    /\ sender[s].test /\ sender[s].phase = "firing" /\ sender[s].todo = {}
    /\ \E r \in sender[s].rows :
          sender' = [sender EXCEPT
              ![s].phase = "answered",
              ![s].answer = Latest({s} \cup {t \in Senders : Recorded(<<t, r.hook>>)})]
    /\ UNCHANGED <<hooks, delivery, began, tasks, history>>

Commit(s) ==
    /\ \/ ~sender[s].test /\ sender[s].phase = "firing" /\ sender[s].todo = {}
       \/ sender[s].phase = "answered"
    /\ delivery' = [id \in Ids |->
          IF \E r \in sender[s].rows : id = <<s, r.hook>>
          THEN (CHOOSE r \in sender[s].rows : id = <<s, r.hook>>).row
          ELSE delivery[id]]
    /\ sender' = [sender EXCEPT ![s].phase = "committed", ![s].rows = {}]
    /\ UNCHANGED <<hooks, began, tasks, history>>

\* The handler raises after all (connection.error is always followed by an
\* exception), or the process dies: what was posted or queued is not taken back.
Abort(s) ==
    /\ sender[s].phase \notin {"idle", "committed", "undone"}
    /\ Undone(s)
    /\ UNCHANGED <<hooks, delivery, began, tasks, history>>

-----------------------------------------------------------------------------
(***************************************************************************)
(* The task dispatch_webhook.                                              *)
(***************************************************************************)
Goes(w, phase) == worker' = [worker EXCEPT ![w].phase = phase]
Ends(w)        == worker' = [worker EXCEPT ![w] = IdleWorker]

\* Mutant of TakeTask: the task has all it needs in its message.
TakeTaskUnread(w) ==
    /\ worker[w].phase = "idle"
    /\ \E id \in queue :
          /\ queue' = queue \ {id}
          /\ worker' = [worker EXCEPT ![w] = [phase |-> "loaded", id |-> id]]
    /\ UNCHANGED <<hooks, delivery, sender, began, history, lost, crashes>>

\* A worker takes a task and selects the delivery.  One that is not committed
\* yet, or never will be, is not found, and the task is over.
TakeTask(w) ==
    /\ worker[w].phase = "idle"
    /\ \E id \in queue :
          /\ queue' = queue \ {id}
          /\ IF Recorded(id)
             THEN /\ worker' = [worker EXCEPT ![w] = [phase |-> "loaded", id |-> id]]
                  /\ UNCHANGED lost
             ELSE /\ lost' = lost \cup {id}
                  /\ UNCHANGED worker
    /\ UNCHANGED <<hooks, delivery, sender, began, history, crashes>>

PostTask(w) ==
    /\ worker[w].phase = "loaded"
    /\ \E ok \in BOOLEAN :
          /\ Posted(worker[w].id, ok)
          /\ Goes(w, IF ok THEN "ok" ELSE "failed")
    /\ UNCHANGED <<hooks, delivery, sender, began, queue, lost, crashes>>

RecordSuccess(w) ==
    /\ worker[w].phase = "ok"
    /\ delivery' = [delivery EXCEPT ![worker[w].id].delivered = TRUE]
    /\ Ends(w)
    /\ UNCHANGED <<hooks, sender, began, queue, history, lost, crashes>>

\* The attempt is counted and committed; below MAX_RETRIES a retry follows.
RecordFailure(w) ==
    /\ worker[w].phase = "failed"
    /\ delivery' = [delivery EXCEPT ![worker[w].id].attempts = @ + 1]
    /\ IF delivery'[worker[w].id].attempts < MaxRetries THEN Goes(w, "retrying") ELSE Ends(w)
    /\ UNCHANGED <<hooks, sender, began, queue, history, lost, crashes>>

\* Mutant of Requeue: next_retry_at is set and nothing queued.
ForgetsRetry(w) ==
    /\ worker[w].phase = "retrying"
    /\ Ends(w)
    /\ UNCHANGED <<hooks, delivery, sender, began, queue, history, lost, crashes>>

\* task.retry: a task that starts after the backoff.
Requeue(w) ==
    /\ worker[w].phase = "retrying"
    /\ queue' = queue \cup {worker[w].id}
    /\ Ends(w)
    /\ UNCHANGED <<hooks, delivery, sender, began, history, lost, crashes>>

CrashWorker(w) ==
    /\ worker[w].phase # "idle"
    /\ crashes < MaxCrashes
    /\ crashes' = crashes + 1
    /\ lost' = lost \cup {worker[w].id}
    /\ Ends(w)
    /\ UNCHANGED <<hooks, delivery, sender, began, queue, history>>

-----------------------------------------------------------------------------
SenderStep(s) ==
    \/ SelectHooks(s) \/ Post(s) \/ InsertPosted(s) \/ InsertQueued(s)
    \/ Answer(s) \/ Commit(s)

DeleteStep(h) == LockHook(h) \/ CommitDelete(h)

WorkerStep(w) ==
    TakeTask(w) \/ PostTask(w) \/ RecordSuccess(w) \/ RecordFailure(w) \/ Requeue(w)

\* What goes on by itself once it has begun.
Progress ==
    \/ \E s \in Senders : SenderStep(s)
    \/ \E h \in Hooks : DeleteStep(h)
    \/ \E w \in Workers : WorkerStep(w)

Next ==
    \/ Progress
    \/ \E h \in Hooks : CreateHook(h) \/ StartDelete(h) \/ AbortDelete(h)
    \/ \E s \in Senders : Begin(s) \/ Abort(s)
    \/ \E w \in Workers : CrashWorker(w)

Spec == Init /\ [][Next]_vars

(***************************************************************************)
(* Fairness.  While a request, a deletion or a worker can go on, one does: *)
(* a POST has a timeout, and nobody is waited for but a lock's holder.  No *)
(* more is needed, as each of them takes a bounded number of steps.        *)
(***************************************************************************)
FairSpec == Spec /\ WF_vars(Progress)

-----------------------------------------------------------------------------
(***************************************************************************)
(* Properties.                                                             *)
(***************************************************************************)
\* The types of the tables, the transactions, the queue and the workers.
TypeOK ==
    /\ hook \in [Hooks -> {"absent", "there", "gone"}]
    /\ delivery \in [Ids -> Row \cup {NoRow}]
    /\ \A s \in Senders :
          /\ sender[s].phase \in SenderPhases /\ sender[s].test \in BOOLEAN
          /\ sender[s].todo \subseteq Hooks
          /\ sender[s].at \in IF sender[s].phase = "posted" THEN Hooks ELSE {Nobody}
          /\ sender[s].rows \subseteq [hook: Hooks, row: Row]
          /\ sender[s].answer \in Senders \cup {Nobody}
    /\ began \in Seq(Senders)
    /\ remover \in [Hooks -> {"idle", "loaded", "locked", "failed"}]
    /\ queue \subseteq Queued \X Hooks
    /\ \A w \in Workers :
          /\ worker[w].phase \in {"idle", "loaded", "ok", "failed", "retrying"}
          /\ worker[w].id \in IF worker[w].phase = "idle" THEN {Nobody} ELSE Queued \X Hooks
    /\ posts \in [Ids -> Nat]
    /\ told \subseteq Ids /\ lost \subseteq Ids
    /\ crashes \in 0..MaxCrashes

\* What a queued event tells has happened: it is posted only after the transaction
\* that fired it has committed, and, retries and crashes included, MAX_RETRIES times
\* at most.  (The handlers post inline, of things that may then be rolled back.)
QueuedTellsWhatHappened ==
    \A id \in Queued \X Hooks :
        posts[id] > 0 => sender[id[1]].phase = "committed" /\ posts[id] <= MaxRetries

\* A request that commits leaves a record of every webhook it has posted to,
\* whatever the subscriber answered, and a record says "delivered" only of what
\* the subscriber has accepted.
DeliveriesAreTrue ==
    \A id \in Ids :
        /\ posts[id] > 0 /\ sender[id[1]].phase = "committed" => Recorded(id)
        /\ delivery[id].delivered => id \in told

\* The test endpoint answers with its own delivery, or with one of a transaction
\* that began later and committed first; with an earlier one never.
TestAnswersItsOwnOrLater ==
    \A s \in Senders :
        sender[s].answer # Nobody => Started(sender[s].answer) >= Started(s)

\* Requests end although they wait for deletions of webhooks and these for them.
SendersEnd ==
    \A s \in Senders : sender[s].phase # "idle" ~> sender[s].phase \in {"committed", "undone"}

\* A recorded delivery of a queued event is delivered or given up after
\* MAX_RETRIES attempts, unless its task was run before the commit or died.
DeliveriesSettle ==
    \A id \in Queued \X Hooks :
        Recorded(id) ~> \/ delivery[id].delivered \/ delivery[id].attempts = MaxRetries
                        \/ id \in lost

=============================================================================
