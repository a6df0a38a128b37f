---------------------------- MODULE TokenRefresh ----------------------------
(***************************************************************************)
(* The token vault of oaupa-server: the life of the tokens of a connection *)
(* while API requests (get_token, force_refresh, revoke_connection) and    *)
(* background refresh workers work on the same rows.                       *)
(*                                                                         *)
(* Every request runs in one database transaction that get_db commits when *)
(* the handler returns and rolls back when it raises; every run of the     *)
(* worker is one transaction that commits after its last token.  A row is  *)
(* read without a lock by a request and is locked from the flush of its    *)
(* UPDATE to the end of the transaction; the worker locks what it selects  *)
(* (FOR UPDATE SKIP LOCKED) and never waits.  Every transaction that locks *)
(* the vault row of a connection also locks its oauth_connections row, the *)
(* latter first, so that one lock per connection stands for both.          *)
(*                                                                         *)
(* A refresh token is its serial number among those its provider issued    *)
(* for the grant.  A rotating provider accepts only the newest serial.     *)
(***************************************************************************)
EXTENDS Integers, FiniteSets

CONSTANTS
    Connections,   \* rows of oauth_connections, each with its token_vault row
    Refreshable,   \* those whose vault holds a refresh token
    Rotating,      \* those whose provider replaces the refresh token it is shown
    Untimed,       \* those whose provider sends no expires_in on a refresh
    Requests,      \* API requests in flight at a time
    Workers,       \* celery processes that run refresh_expiring_tokens
    ApiKeys,       \* rows of api_keys
    BatchSize,     \* the LIMIT of the worker's query
    MaxRef,        \* bound: how often a rotating provider replaces a token
    Nobody         \* holder of a lock that is free

ASSUME ConstantsAssumption ==
    /\ Rotating \subseteq Refreshable
    /\ Refreshable \subseteq Connections
    /\ Untimed \subseteq Connections
    /\ Requests \cap Workers = {}
    /\ Nobody \notin Requests \cup Workers \cup ApiKeys
    /\ BatchSize \in Nat \ {0}
    /\ MaxRef \in Nat

VARIABLES
    row,      \* the committed row of each connection, joined with its vault
    grant,    \* the provider's side: newest refresh token, is the grant alive
    holder,   \* the transaction that holds the row lock of each connection
    req,      \* the state of each API request and of its session
    job,      \* the state of each worker run and of its session
    lost      \* history: connections one of whose issued tokens went missing

vars == <<row, grant, holder, req, job, lost>>

Statuses == {"active", "error", "expired", "revoked"}
Details  == {"", "refused", "fault", "noRefreshToken"}
Expiries == {"never", "fresh", "soon", "due"}   \* soon: < 5 min, due: < 30 s

Row   == [status: Statuses, detail: Details, ref: Nat, expiry: Expiries]
Grant == [ref: Nat, live: BOOLEAN]

(***************************************************************************)
(* What a session has changed and not committed.  SQLAlchemy writes the    *)
(* columns that changed and no other: "tokens" are those of token_vault    *)
(* (and last_refreshed_at), a status is status with status_detail.         *)
(***************************************************************************)
Changes  == [op: {"none", "tokens", "error", "expired", "revoked"},
             ref: Nat, detail: Details]
NoChange == [op |-> "none", ref |-> 0, detail |-> ""]

\* Mutant of SetStatus: the arguments swapped.
SwappedStatus(s, d) == [op |-> d, ref |-> 0, detail |-> s]

Tokens(n)        == [op |-> "tokens", ref |-> n, detail |-> ""]
SetStatus(s, d)  == [op |-> s, ref |-> 0, detail |-> d]

\* Mutant of Updated: the access token is stored, the new refresh token is not.
KeepsOldRefresh(c, p) ==
    CASE p.op = "none"    -> row[c]
      [] p.op = "tokens"  -> [row[c] EXCEPT !.expiry = "fresh"]
      [] p.op = "revoked" -> [row[c] EXCEPT !.status = "revoked"]
      [] OTHER            -> [row[c] EXCEPT !.status = p.op, !.detail = p.detail]

\* The row after the UPDATE of change p is committed.
Updated(c, p) ==
    CASE p.op = "none"    -> row[c]
      [] p.op = "tokens"  -> [row[c] EXCEPT !.ref = p.ref,
                                !.expiry = IF c \in Untimed THEN @ ELSE "fresh"]
      [] p.op = "revoked" -> [row[c] EXCEPT !.status = "revoked"]
      [] OTHER            -> [row[c] EXCEPT !.status = p.op, !.detail = p.detail]

Idle == [phase |-> "idle", kind |-> "none", key |-> Nobody, conn |-> Nobody,
         seen |-> [status |-> "active", detail |-> "", ref |-> 0, expiry |-> "never"],
         change |-> NoChange]

IdleJob == [batch |-> {}, todo |-> {}, change |-> [c \in Connections |-> NoChange]]

Kinds  == {"none", "get", "force", "revoke"}
Phases == {"idle",       \* no request
           "loaded",     \* connection and vault are in the session
           "answered",   \* the provider has answered, the change is in memory
           "flushed"}    \* the UPDATE ran: row locked, webhooks being posted

(***************************************************************************)
(* Initial states: every connection has just been authorised (handle_oauth *)
(* _callback inserts the connection "active" with its vault), its token    *)
(* with or without an expiry.                                              *)
(***************************************************************************)
Init ==
    /\ \E timed \in SUBSET Connections :
          row = [c \in Connections |-> [status |-> "active", detail |-> "", ref |-> 0,
                    expiry |-> IF c \in timed THEN "fresh" ELSE "never"]]
    /\ grant = [c \in Connections |-> [ref |-> 0, live |-> TRUE]]
    /\ holder = [c \in Connections |-> Nobody]
    /\ req = [r \in Requests |-> Idle]
    /\ job = [w \in Workers |-> IdleJob]
    /\ lost = {}

-----------------------------------------------------------------------------
(***************************************************************************)
(* The provider (external): one call of refresh_token.  The call may       *)
(*   - succeed: the presented token is the newest of a live grant; a       *)
(*     rotating provider issues the next serial, the others return the     *)
(*     token they were shown;                                              *)
(*   - succeed at the provider and fail here (timeout, unreadable body);   *)
(*   - be refused;                                                         *)
(*   - not reach the provider.                                             *)
(* "answer" is what the caller then changes in its session.                *)
(***************************************************************************)
NextRef(c) == IF c \in Rotating THEN grant[c].ref + 1 ELSE grant[c].ref

Accepts(c, presented) == grant[c].live /\ presented = grant[c].ref

ProviderRefresh(c, presented, answer) ==
    \/ /\ Accepts(c, presented)
       /\ NextRef(c) <= MaxRef
       /\ grant' = [grant EXCEPT ![c].ref = NextRef(c)]
       /\ \/ /\ answer = Tokens(NextRef(c))
             /\ UNCHANGED lost
          \/ /\ answer = SetStatus("error", "fault")
             /\ lost' = IF c \in Rotating THEN lost \cup {c} ELSE lost
    \/ /\ ~Accepts(c, presented)
       /\ answer = SetStatus("error", "refused")
       /\ UNCHANGED <<grant, lost>>
    \/ /\ answer = SetStatus("error", "fault")
       /\ UNCHANGED <<grant, lost>>

\* The account owner withdraws the grant at the provider.
WithdrawGrant(c) ==
    /\ grant[c].live
    /\ grant' = [grant EXCEPT ![c].live = FALSE]
    /\ UNCHANGED <<row, holder, req, job, lost>>

\* Time passes: an access token comes closer to its expiry.
Elapse(c) ==
    /\ row[c].expiry \in {"fresh", "soon"}
    /\ row' = [row EXCEPT ![c].expiry = IF @ = "fresh" THEN "soon" ELSE "due"]
    /\ UNCHANGED <<grant, holder, req, job, lost>>

-----------------------------------------------------------------------------
(***************************************************************************)
(* API requests.                                                           *)
(***************************************************************************)
\* The request's session: read c, in a transaction that has key k locked.
Load(r, kind, k, c) ==
    /\ req[r].phase = "idle"
    /\ req' = [req EXCEPT ![r] = [Idle EXCEPT !.phase = "loaded", !.kind = kind,
                                              !.key = k, !.conn = c, !.seen = row[c]]]
    /\ UNCHANGED <<row, grant, holder, job, lost>>

\* resolve_api_key sets last_used_at and the next query flushes it: the row of
\* the key stays locked to the end, and requests with one key run one by one.
\* A connection that is not active is answered with an error at once.
StartGet(r, k, c) ==
    /\ \A q \in Requests : req[q].key # k
    /\ row[c].status = "active"
    /\ Load(r, "get", k, c)

StartForce(r, c)  == Load(r, "force", Nobody, c)
StartRevoke(r, c) == Load(r, "revoke", Nobody, c)

\* The token is good for another 30 seconds: decrypt it and return it.
Serve(r) ==
    /\ req[r].phase = "loaded" /\ req[r].kind = "get"
    /\ req[r].seen.expiry # "due"
    /\ req' = [req EXCEPT ![r] = Idle]
    /\ UNCHANGED <<row, grant, holder, job, lost>>

MustRefresh(r) ==
    /\ req[r].phase = "loaded"
    /\ \/ req[r].kind = "force"
       \/ req[r].kind = "get" /\ req[r].seen.expiry = "due"

\* Mutant of Answered: an error answer is read as a success without a new token.
AnsweredAnyway(r, p) ==
    req' = [req EXCEPT ![r].phase = "answered",
                       ![r].change = IF p.op = "error" THEN Tokens(req[r].seen.ref) ELSE p]

Answered(r, p) == req' = [req EXCEPT ![r].phase = "answered", ![r].change = p]

\* The handler of r ends in an exception: it could not refresh.
Raises(r) == req[r].change.op \in {"error", "expired"}

\* _refresh_token_inline without a refresh token: mark the connection, raise.
NoRefreshToken(r) ==
    /\ MustRefresh(r)
    /\ req[r].conn \notin Refreshable
    /\ Answered(r, SetStatus("expired", "noRefreshToken"))
    /\ UNCHANGED <<row, grant, holder, job, lost>>

\* _refresh_token_inline: show the provider the refresh token that was read.
CallRefresh(r) ==
    /\ MustRefresh(r)
    /\ req[r].conn \in Refreshable
    /\ \E p \in {Tokens(NextRef(req[r].conn)), SetStatus("error", "refused"),
                 SetStatus("error", "fault")} :
          /\ ProviderRefresh(req[r].conn, req[r].seen.ref, p)
          /\ Answered(r, p)
    /\ UNCHANGED <<row, holder, job>>

\* revoke_connection: best-effort revocation at the provider, whose failure is
\* swallowed, then status "revoked".  When the session already read "revoked"
\* the assignment changes nothing and no UPDATE is sent.
CallRevoke(r) ==
    LET c == req[r].conn IN
    /\ req[r].phase = "loaded" /\ req[r].kind = "revoke"
    /\ \E live \in {grant[c].live, FALSE} :
          grant' = [grant EXCEPT ![c].live = live]
    /\ IF req[r].seen.status = "revoked"
       THEN req' = [req EXCEPT ![r] = Idle]
       ELSE Answered(r, SetStatus("revoked", ""))
    /\ UNCHANGED <<row, holder, job, lost>>

\* db.flush(): the UPDATE waits for the row lock and keeps it.
Flush(r) ==
    /\ req[r].phase = "answered"
    /\ holder[req[r].conn] = Nobody
    /\ holder' = [holder EXCEPT ![req[r].conn] = r]
    /\ req' = [req EXCEPT ![r].phase = "flushed"]
    /\ UNCHANGED <<row, grant, job, lost>>

\* Mutant of EndRequest: the transaction is left open and keeps its lock.
LeaksRequest(r) ==
    /\ req' = [req EXCEPT ![r] = Idle]
    /\ UNCHANGED <<grant, holder, job>>

\* The transaction of r ends: its lock is freed and its session is gone.
EndRequest(r) ==
    /\ holder' = [c \in Connections |-> IF holder[c] = r THEN Nobody ELSE holder[c]]
    /\ req' = [req EXCEPT ![r] = Idle]
    /\ UNCHANGED <<grant, job>>

\* Mutant of Commit: the UPDATE names every column of the row that was read.
CommitsWholeRow(r) ==
    /\ req[r].phase = "flushed"
    /\ ~Raises(r)
    /\ row' = [row EXCEPT ![req[r].conn] =
                  [Updated(req[r].conn, req[r].change) EXCEPT
                      !.status = IF req[r].change.op = "tokens" THEN req[r].seen.status ELSE @]]
    /\ EndRequest(r)
    /\ UNCHANGED lost

\* The handler returns (webhooks posted, usage counted): get_db commits.
Commit(r) ==
    /\ req[r].phase = "flushed"
    /\ ~Raises(r)
    /\ row' = [row EXCEPT ![req[r].conn] = Updated(req[r].conn, req[r].change)]
    /\ EndRequest(r)
    /\ UNCHANGED lost

\* Mutant of Raise: get_db commits although the handler raised.
RaiseCommits(r) ==
    /\ req[r].phase = "flushed"
    /\ Raises(r)
    /\ row' = [row EXCEPT ![req[r].conn] = Updated(req[r].conn, req[r].change)]
    /\ EndRequest(r)
    /\ UNCHANGED lost

\* _refresh_token_inline posts connection.error and raises BadRequestError:
\* get_db rolls back what was flushed.
Raise(r) ==
    /\ req[r].phase = "flushed"
    /\ Raises(r)
    /\ EndRequest(r)
    /\ UNCHANGED <<row, lost>>

\* Mutant of Abort: get_db commits in a finally clause.
AbortCommits(r) ==
    /\ req[r].phase # "idle"
    /\ row' = IF req[r].phase = "flushed"
              THEN [row EXCEPT ![req[r].conn] = Updated(req[r].conn, req[r].change)]
              ELSE row
    /\ EndRequest(r)
    /\ lost' = lost \cup {c \in Rotating : /\ c = req[r].conn
                                           /\ req[r].change.op = "tokens"}

\* A later step of the handler raises (usage or delivery row refused by the
\* database), or the process dies: the transaction is rolled back.
Abort(r) ==
    /\ req[r].phase # "idle"
    /\ EndRequest(r)
    /\ lost' = lost \cup {c \in Rotating : /\ c = req[r].conn
                                           /\ req[r].change.op = "tokens"}
    /\ UNCHANGED row

-----------------------------------------------------------------------------
(***************************************************************************)
(* The worker.                                                             *)
(***************************************************************************)
Expiring(c) ==
    /\ row[c].status = "active"
    /\ row[c].expiry \in {"soon", "due"}
    /\ c \in Refreshable

\* Mutant of Selectable: the query without FOR UPDATE SKIP LOCKED.
SelectableUnlocked == {c \in Connections : Expiring(c)}

\* SELECT ... FOR UPDATE SKIP LOCKED LIMIT: what is locked is left out, and
\* of the rest any BatchSize rows are locked, or all when they are fewer.
Selectable == {c \in Connections : Expiring(c) /\ holder[c] = Nobody}

SelectBatch(w) ==
    /\ job[w].batch = {}
    /\ \E S \in SUBSET Selectable :
          /\ S # {}
          /\ \/ Cardinality(S) = BatchSize
             \/ Cardinality(S) < BatchSize /\ S = Selectable
          /\ job' = [job EXCEPT ![w] = [IdleJob EXCEPT !.batch = S, !.todo = S]]
          /\ holder' = [c \in Connections |-> IF c \in S THEN w ELSE holder[c]]
    /\ UNCHANGED <<row, grant, req, lost>>

\* _refresh_single_token on one row of the batch.
RefreshOne(w, c) ==
    /\ c \in job[w].todo
    /\ \E p \in {Tokens(NextRef(c)), SetStatus("error", "refused"),
                 SetStatus("error", "fault")} :
          /\ ProviderRefresh(c, row[c].ref, p)
          /\ job' = [job EXCEPT ![w].todo = @ \ {c}, ![w].change[c] = p]
    /\ UNCHANGED <<row, holder, req>>

\* _refresh_single_token raises before the call (provider row gone, secret or
\* token not decryptable): the loop prints the error and goes on.
SkipOne(w, c) ==
    /\ c \in job[w].todo
    /\ job' = [job EXCEPT ![w].todo = @ \ {c}]
    /\ UNCHANGED <<row, grant, holder, req, lost>>

EndJob(w) ==
    /\ holder' = [c \in Connections |-> IF holder[c] = w THEN Nobody ELSE holder[c]]
    /\ job' = [job EXCEPT ![w] = IdleJob]
    /\ UNCHANGED <<grant, req>>

\* session.commit() after the last row: the whole batch becomes visible.
CommitBatch(w) ==
    /\ job[w].batch # {}
    /\ job[w].todo = {}
    /\ row' = [c \in Connections |-> IF c \in job[w].batch
                                     THEN Updated(c, job[w].change[c]) ELSE row[c]]
    /\ EndJob(w)
    /\ UNCHANGED lost

\* The worker process dies, or the commit fails: the whole batch is undone.
CrashWorker(w) ==
    /\ job[w].batch # {}
    /\ EndJob(w)
    /\ lost' = lost \cup {c \in Rotating : job[w].change[c].op = "tokens"}
    /\ UNCHANGED row

-----------------------------------------------------------------------------
RequestStep(r) ==
    \/ Serve(r) \/ NoRefreshToken(r) \/ CallRefresh(r) \/ CallRevoke(r)
    \/ Commit(r) \/ Raise(r)

StartRequest(r) ==
    \E c \in Connections :
        \/ \E k \in ApiKeys : StartGet(r, k, c)
        \/ StartForce(r, c)
        \/ StartRevoke(r, c)

WorkerStep(w) ==
    \/ \E c \in Connections : RefreshOne(w, c) \/ SkipOne(w, c)
    \/ CommitBatch(w)

Environment == \E c \in Connections : WithdrawGrant(c) \/ Elapse(c)

Next ==
    \/ \E r \in Requests : StartRequest(r) \/ RequestStep(r) \/ Flush(r) \/ Abort(r)
    \/ \E w \in Workers : SelectBatch(w) \/ WorkerStep(w) \/ CrashWorker(w)
    \/ Environment

Spec == Init /\ [][Next]_vars

(***************************************************************************)
(* Fairness.  A started request runs to its end (httpx gives every call to *)
(* a provider or a subscriber a timeout) and so does a started batch;      *)
(* PostgreSQL grants a row lock in the order it was asked for; beat starts *)
(* the refresh task every minute.  Nothing makes a request arrive, a       *)
(* process die or an owner withdraw a grant.                               *)
(***************************************************************************)
Fairness ==
    /\ \A r \in Requests : WF_vars(RequestStep(r)) /\ SF_vars(Flush(r))
    /\ \A w \in Workers  : WF_vars(WorkerStep(w)) /\ WF_vars(SelectBatch(w))

FairSpec == Spec /\ Fairness

-----------------------------------------------------------------------------
(***************************************************************************)
(* Properties.                                                             *)
(***************************************************************************)
Request == [phase: Phases, kind: Kinds, key: ApiKeys \cup {Nobody},
            conn: Connections \cup {Nobody}, seen: Row, change: Changes]
Job == [batch: SUBSET Connections, todo: SUBSET Connections,
        change: [Connections -> Changes]]

\* The types of the state of the vault and of its sessions.
TypeOK ==
    /\ row \in [Connections -> Row]
    /\ grant \in [Connections -> Grant]
    /\ holder \in [Connections -> Requests \cup Workers \cup {Nobody}]
    /\ req \in [Requests -> Request]
    /\ job \in [Workers -> Job]
    /\ lost \subseteq Rotating

\* The transactions that hold tokens of c they have not stored yet.
Holds(t, c) ==
    \/ t \in Requests /\ req[t].conn = c /\ req[t].change.op = "tokens"
    \/ t \in Workers /\ job[t].change[c].op = "tokens"

Unsaved(t, c) == IF t \in Requests THEN req[t].change.ref ELSE job[t].change[c].ref

\* Interleaving alone never loses a rotated pair: when the newest refresh token
\* of a connection is not in the vault, either exactly one open transaction is
\* about to store it, or a crash, a rollback or a lost answer took it away.
NoPairVanishes ==
    \A c \in Rotating : row[c].ref # grant[c].ref /\ c \notin lost =>
        \E t \in Requests \cup Workers :
            /\ Holds(t, c) /\ Unsaved(t, c) = grant[c].ref
            /\ \A u \in Requests \cup Workers : Holds(u, c) => u = t

\* A pair that was lost stays lost: no call of the API and no run of the worker
\* brings the vault back to a token the provider accepts (only a new
\* authorisation would), because every refresh shows an older token.
LostIsStranded == \A c \in lost : row[c].ref < grant[c].ref

\* A worker is refused by a provider only for a reason: the grant is withdrawn,
\* the pair was lost, or an open request holds the newer pair and is waiting to
\* write it.  Two workers never get each other refused (SKIP LOCKED).
RefusalIsExplained ==
    \A w \in Workers : \A c \in job[w].batch :
        job[w].change[c].detail = "refused" =>
            \/ ~grant[c].live
            \/ c \in lost
            \/ \E r \in Requests : Holds(r, c)

\* What the worker's row locks are for: a connection is marked "error" after a
\* refusal only when the provider would refuse what the vault holds.
ErrorMeansUnusable ==
    \A c \in Connections : row[c].status = "error" /\ row[c].detail = "refused" =>
        row[c].ref # grant[c].ref \/ ~grant[c].live

\* Revoking is final: no commit of a session that read the connection before it
\* was revoked, of a request or of a worker, makes it anything else.
RevokedIsTerminal ==
    [][\A c \in Connections : row[c].status = "revoked" => row'[c].status = "revoked"]_row

\* The stored refresh token never runs back to an older one, although requests
\* write what they got from the provider before they waited for the row.
StoredNeverRunsBack ==
    [][\A c \in Connections : row'[c].ref >= row[c].ref]_row

\* A connection whose token cannot be refreshed for want of a refresh token is
\* stored as expired when the request that found out ends.
ExpiryIsRecorded ==
    [][\A r \in Requests :
         req[r].phase = "flushed" /\ req[r].change.op = "expired" /\ Raise(r)
            => row'[req[r].conn].status = "expired"]_vars

\* A request and a batch end, whatever the others do: no lock is waited for in a
\* circle and none is kept, and the locks of a batch are freed together.
EverybodyEnds ==
    /\ \A r \in Requests : req[r].phase # "idle" ~> req[r].phase = "idle"
    /\ \A w \in Workers : job[w].batch # {} ~> job[w].batch = {}

-----------------------------------------------------------------------------
(***************************************************************************)
(* The abstract life cycle of a connection, with the stored status, the    *)
(* stored serial and the newest serial the provider issued.                *)
(***************************************************************************)
Lifecycle == INSTANCE ConnectionLifecycle WITH
                 status <- [c \in Connections |-> row[c].status],
                 stored <- [c \in Connections |-> row[c].ref],
                 issued <- [c \in Connections |-> grant[c].ref]

\* Requests and workers together implement the life cycle: every commit, of one
\* row or of a batch, is for each connection a step the life cycle allows.
ImplementsLifecycle == Lifecycle!Spec

=============================================================================
