------------------------------ MODULE Metering ------------------------------
(***************************************************************************)
(* The metering of token retrievals: every retrieval checks the plan's     *)
(* monthly limit, fetches the token and adds one to the month's record of  *)
(* its project; at midnight UTC a worker writes a daily record per project. *)
(* This is the first day of a month, on which the two are the same row:    *)
(* usage_records is unique per project and period_start.  All projects     *)
(* belong to one user.                                                     *)
(*                                                                         *)
(* A request reads the count without a lock and writes count + 1; its      *)
(* UPDATE locks the row to the end of the transaction and its INSERT       *)
(* stands in the way of others of the same row, posting webhooks the       *)
(* while.  The row of the API key has been locked since the request began  *)
(* (last_used_at), so that requests with one key run one after the other,  *)
(* and its owner's request that revokes it after them.                     *)
(***************************************************************************)
EXTENDS Integers, FiniteSets, Functions

CONSTANTS
    Projects,
    TwoKeys,     \* the projects for which a second API key may be created
    Rotated,     \* bound: the projects whose first key may be revoked
    Deleted,     \* bound: the projects that may be deleted
    Requests,    \* token requests in flight at a time
    Limit,       \* the plan's number of retrievals per month
    MaxServed,   \* bound: retrievals of all projects
    Nobody

ASSUME ConstantsAssumption ==
    /\ IsFiniteSet(Projects) /\ IsFiniteSet(Requests)
    /\ TwoKeys \subseteq Projects /\ Rotated \subseteq Projects /\ Deleted \subseteq Projects
    /\ Limit \in Nat \ {0} /\ MaxServed \in Nat
    /\ Nobody \notin Projects \cup Requests /\ "worker" \notin Requests \cup {Nobody}

VARIABLES
    key,      \* the committed state of each API key
    active,   \* the projects with is_active
    owner,    \* the request that revokes a key
    usage,    \* the month's committed record: token_retrievals, or Missing
    holder,   \* the transaction that locks the record, or has inserted it
    req,      \* the state of each token request
    job,      \* the state of the daily aggregation
    served    \* history: committed retrievals

access == <<key, active, owner>>
vars   == <<access, usage, holder, req, job, served>>

Missing == -1
Worker  == "worker"   \* the holder of what the aggregation has inserted
Keys    == (Projects \X {1}) \cup (TwoKeys \X {2})
NoKey   == <<Nobody, 0>>
Idle    == [phase |-> "idle", key |-> NoKey, seen |-> Missing]
Phases  == {"idle",
            "found",     \* the key is found, its row not yet locked
            "started",   \* its row is locked
            "admitted",  \* the count was below the limit, the token is fetched
            "counted",   \* the month's record was read
            "written"}   \* the record is written, webhooks are being posted

ProjectOf(r)  == req[r].key[1]
Count(p)      == IF usage[p] = Missing THEN 0 ELSE usage[p]
Charged(some) == SumFunctionOnSet([p \in Projects |-> Count(p)], some)
Total         == Charged(Projects)

NoOwner == [phase |-> "idle", key |-> NoKey]

Init ==
    /\ key = [k \in Keys |-> IF k[2] = 1 THEN "live" ELSE "absent"]
    /\ active = Projects
    /\ owner = NoOwner
    /\ usage = [p \in Projects |-> Missing]
    /\ holder = [p \in Projects |-> Nobody]
    /\ req = [r \in Requests |-> Idle]
    /\ job = [phase |-> "none", todo |-> {}, seen |-> 0]
    /\ served = [p \in Projects |-> 0]

-----------------------------------------------------------------------------
(***************************************************************************)
(* Token requests.                                                         *)
(***************************************************************************)
\* Bound: the retrievals, those under way included, are fewer than MaxServed.
MoreComes ==
    SumFunction(served)
        + Cardinality({r \in Requests : req[r].phase # "idle"}) < MaxServed

\* Mutant of FindKey: is_active is not in the query.
FindsAnyKey(r, k) ==
    /\ req[r].phase = "idle"
    /\ MoreComes
    /\ key[k] # "absent"
    /\ req' = [req EXCEPT ![r] = [Idle EXCEPT !.phase = "found", !.key = k]]
    /\ UNCHANGED <<access, usage, holder, job, served>>

\* resolve_api_key selects the key, which must be active.
FindKey(r, k) ==
    /\ req[r].phase = "idle"
    /\ MoreComes
    /\ key[k] = "live"
    /\ req' = [req EXCEPT ![r] = [Idle EXCEPT !.phase = "found", !.key = k]]
    /\ UNCHANGED <<access, usage, holder, job, served>>

\* The row of k is locked by no transaction.
KeyIsFree(k) ==
    /\ \A q \in Requests : req[q].key = k => req[q].phase = "found"
    /\ owner.key = k => owner.phase # "locked"

\* Mutant of LockKey: last_used_at is not written, and the row not locked.
PassesKey(r) ==
    /\ req[r].phase = "found"
    /\ ProjectOf(r) \in active
    /\ req' = [req EXCEPT ![r].phase = "started"]
    /\ UNCHANGED <<access, usage, holder, job, served>>

\* The query for the project flushes last_used_at: it waits for the row of the
\* key and keeps it locked.  A key that was revoked meanwhile is not looked at
\* again; the project must be active.
LockKey(r) ==
    /\ req[r].phase = "found"
    /\ KeyIsFree(req[r].key)
    /\ ProjectOf(r) \in active
    /\ req' = [req EXCEPT ![r].phase = "started"]
    /\ UNCHANGED <<access, usage, holder, job, served>>

\* Mutant of CheckRetrievalLimit: > for >=.
ChecksOffByOne(r) ==
    /\ req[r].phase = "started"
    /\ Total <= Limit
    /\ req' = [req EXCEPT ![r].phase = "admitted"]
    /\ UNCHANGED <<access, usage, holder, job, served>>

\* check_retrieval_limit sums the committed records of the month.
CheckRetrievalLimit(r) ==
    /\ req[r].phase = "started"
    /\ Total < Limit
    /\ req' = [req EXCEPT ![r].phase = "admitted"]
    /\ UNCHANGED <<access, usage, holder, job, served>>

\* track_token_retrieval reads the month's record.
ReadUsage(r) ==
    /\ req[r].phase = "admitted"
    /\ req' = [req EXCEPT ![r].phase = "counted", ![r].seen = usage[ProjectOf(r)]]
    /\ UNCHANGED <<access, usage, holder, job, served>>

\* The flush: the INSERT or the UPDATE waits for the row.  An INSERT of a row that
\* was committed meanwhile is refused (Refused).
WriteUsage(r) ==
    /\ req[r].phase = "counted"
    /\ holder[ProjectOf(r)] = Nobody
    /\ req[r].seen = Missing => usage[ProjectOf(r)] = Missing
    /\ holder' = [holder EXCEPT ![ProjectOf(r)] = r]
    /\ req' = [req EXCEPT ![r].phase = "written"]
    /\ UNCHANGED <<access, usage, job, served>>

\* The transaction of r ends: its lock is freed and its session is gone.
EndRequest(r) ==
    /\ holder' = [p \in Projects |-> IF holder[p] = r THEN Nobody ELSE holder[p]]
    /\ req' = [req EXCEPT ![r] = Idle]
    /\ UNCHANGED <<access, job>>

\* The count that r writes: one for a new record, else what it read and one.
Written(r) == IF req[r].seen = Missing THEN 1 ELSE req[r].seen + 1

\* get_db commits.
Commit(r) ==
    /\ req[r].phase = "written"
    /\ usage' = [usage EXCEPT ![ProjectOf(r)] = Written(r)]
    /\ served' = [served EXCEPT ![ProjectOf(r)] = @ + 1]
    /\ EndRequest(r)

\* What makes the request raise, and be rolled back as a whole: the project is
\* deleted, the limit reached, or the INSERT refused by the unique constraint.
Refused(r) ==
    \/ /\ req[r].phase = "found"
       /\ KeyIsFree(req[r].key) /\ ProjectOf(r) \notin active
    \/ req[r].phase = "started" /\ Total >= Limit
    \/ /\ req[r].phase = "counted"
       /\ holder[ProjectOf(r)] = Nobody
       /\ req[r].seen = Missing /\ usage[ProjectOf(r)] # Missing

\* Mutant of Abort: what was counted stays counted.
AbortCounts(r) ==
    /\ req[r].phase # "idle"
    /\ usage' = IF req[r].phase = "written"
                THEN [usage EXCEPT ![ProjectOf(r)] = Written(r)] ELSE usage
    /\ EndRequest(r)
    /\ UNCHANGED served

\* The request raises (Refused, or no token to be had) or dies.
Abort(r) ==
    /\ req[r].phase # "idle"
    /\ EndRequest(r)
    /\ UNCHANGED <<usage, served>>

-----------------------------------------------------------------------------
(***************************************************************************)
(* aggregate_daily_usage: for each active project, in some order, read     *)
(* today's record and add one with token_retrievals 0 when there is none;  *)
(* one commit at the end.  An added record is sent with the next query, so *)
(* it may wait for a request's row.  When there is a record only its       *)
(* connections_count is written, which nobody else writes.                 *)
(***************************************************************************)
StartJob ==
    /\ job.phase = "none"
    /\ job' = [phase |-> "reading", todo |-> active, seen |-> 0]
    /\ UNCHANGED <<access, usage, holder, req, served>>

Mine == {p \in Projects : holder[p] = Worker}

\* Today's record of p is there: lock it for the new connections_count, or leave
\* it when the count has not changed.
UpdateDaily(p) ==
    /\ job.phase = "reading" /\ p \in job.todo
    /\ usage[p] # Missing
    /\ \/ /\ holder[p] = Nobody
          /\ holder' = [holder EXCEPT ![p] = Worker]
       \/ UNCHANGED holder
    /\ job' = [job EXCEPT !.todo = @ \ {p}]
    /\ UNCHANGED <<access, usage, req, served>>

\* Today's record of p is missing: add one.
MissDaily(p) ==
    /\ job.phase = "reading" /\ p \in job.todo
    /\ usage[p] = Missing
    /\ job' = [job EXCEPT !.phase = "inserting", !.seen = p]
    /\ UNCHANGED <<access, usage, holder, req, served>>

\* The INSERT waits for an uncommitted row; it fails when one is there.
InsertDaily ==
    /\ job.phase = "inserting"
    /\ holder[job.seen] = Nobody
    /\ usage[job.seen] = Missing
    /\ holder' = [holder EXCEPT ![job.seen] = Worker]
    /\ job' = [job EXCEPT !.phase = "reading", !.todo = @ \ {job.seen}]
    /\ UNCHANGED <<access, usage, req, served>>

\* Mutant of EndJob: the session is dropped and its connection keeps the locks.
LeaksJob(phase) ==
    /\ job' = [phase |-> phase, todo |-> {}, seen |-> 0]
    /\ UNCHANGED <<access, holder, req, served>>

EndJob(phase) ==
    /\ holder' = [p \in Projects |-> IF p \in Mine THEN Nobody ELSE holder[p]]
    /\ job' = [phase |-> phase, todo |-> {}, seen |-> 0]
    /\ UNCHANGED <<access, req, served>>

\* session.commit() makes all the records visible at once.
CommitJob ==
    /\ job.phase = "reading" /\ job.todo = {}
    /\ usage' = [p \in Projects |-> IF p \in Mine /\ usage[p] = Missing
                                    THEN 0 ELSE usage[p]]
    /\ EndJob("done")

\* The INSERT is refused, or the process dies: no project gets a record, and the
\* task is not tried again before the next midnight.
FailJob ==
    /\ \/ /\ job.phase = "inserting"
          /\ holder[job.seen] = Nobody /\ usage[job.seen] # Missing
       \/ job.phase = "reading"
    /\ EndJob("failed")
    /\ UNCHANGED usage

-----------------------------------------------------------------------------
(***************************************************************************)
(* The owner.                                                              *)
(***************************************************************************)
metering == <<usage, holder, req, job, served>>

\* create_api_key; whether the project is deleted is not looked at.
CreateKey(k) ==
    /\ key[k] = "absent"
    /\ key' = [key EXCEPT ![k] = "live"]
    /\ UNCHANGED <<active, owner, metering>>

\* Bound: the owner revokes one key or deletes one project.
NothingClosed ==
    /\ owner = NoOwner
    /\ active = Projects /\ \A k \in Keys : key[k] # "revoked"

\* revoke_api_key selects the key (revoking it again writes nothing) ...
FindRevoked(k) ==
    /\ NothingClosed
    /\ k[1] \in Rotated /\ k[2] = 1 /\ key[k] = "live"
    /\ owner' = [phase |-> "found", key |-> k]
    /\ UNCHANGED <<key, active, metering>>

\* ... and writes is_active, for which it waits for the request that has the row.
LockRevoked ==
    /\ owner.phase = "found"
    /\ KeyIsFree(owner.key)
    /\ owner' = [owner EXCEPT !.phase = "locked"]
    /\ UNCHANGED <<key, active, metering>>

CommitRevoked ==
    /\ owner.phase = "locked"
    /\ key' = [key EXCEPT ![owner.key] = "revoked"]
    /\ owner' = NoOwner
    /\ UNCHANGED <<active, metering>>

AbortRevoked ==
    /\ owner.phase # "idle"
    /\ owner' = NoOwner
    /\ UNCHANGED <<key, active, metering>>

\* delete_project writes is_active; nobody else locks the row of a project.
DeleteProject(p) ==
    /\ NothingClosed
    /\ p \in Deleted
    /\ active' = active \ {p}
    /\ UNCHANGED <<key, owner, metering>>

-----------------------------------------------------------------------------
RequestStep(r) ==
    \/ LockKey(r) \/ CheckRetrievalLimit(r) \/ ReadUsage(r) \/ WriteUsage(r) \/ Commit(r)
    \/ Refused(r) /\ Abort(r)

JobStep ==
    \/ \E p \in Projects : UpdateDaily(p) \/ MissDaily(p)
    \/ InsertDaily \/ CommitJob \/ FailJob

RevokeStep == LockRevoked \/ CommitRevoked

Next ==
    \/ \E r \in Requests :
          \/ \E k \in Keys : FindKey(r, k)
          \/ RequestStep(r) \/ Abort(r)
    \/ StartJob \/ JobStep
    \/ \E k \in Keys : CreateKey(k) \/ FindRevoked(k)
    \/ RevokeStep \/ AbortRevoked
    \/ \E p \in Projects : DeleteProject(p)

Spec == Init /\ [][Next]_vars

\* Requests, the owner's too, and the job run on, and PostgreSQL grants a lock in
\* the order it was asked for.
FairSpec ==
    /\ Spec
    /\ \A r \in Requests : SF_vars(RequestStep(r))
    /\ SF_vars(JobStep) /\ SF_vars(RevokeStep)

-----------------------------------------------------------------------------
(***************************************************************************)
(* Properties.                                                             *)
(***************************************************************************)
\* The types of the records, the locks, the requests and the job.
TypeOK ==
    /\ key \in [Keys -> {"absent", "live", "revoked"}] /\ active \subseteq Projects
    /\ owner \in [phase: {"idle", "found", "locked"}, key: Keys \cup {NoKey}]
    /\ usage \in [Projects -> Nat \cup {Missing}]
    /\ holder \in [Projects -> Requests \cup {Worker, Nobody}]
    /\ req \in [Requests -> [phase: Phases, key: Keys \cup {NoKey},
                             seen: Nat \cup {Missing}]]
    /\ job \in [phase: {"none", "reading", "inserting", "done", "failed"},
                todo: SUBSET Projects, seen: Projects \cup {0}]
    /\ served \in [Projects -> Nat]

\* A project is never charged for more retrievals than were served, whatever is
\* aborted, refused or written by the daily job.
NeverOvercounted == \A p \in Projects : Count(p) <= served[p]

\* The projects with one key.
OneKey == Projects \ TwoKeys

\* While a project has one API key its count is exact: the requests of the key run
\* one after the other, and the daily job writes other columns or no row at all.
OneKeyIsExact == \A p \in OneKey : Count(p) = served[p]

\* The requests that have passed the limit and not ended.
Admitted == {r \in Requests : req[r].phase \in {"admitted", "counted", "written"}}

\* The limit is checked on what is committed, of all projects.  Those with one key
\* overrun it together by less than they are, as each has one request under way,
\* whatever the others do.  There is no such bound for a project with two keys: of
\* two counts read at the same time the lower one may be written last, the checks
\* pass again, and then a request that still has the higher count adds to that.
OverrunIsBounded ==
    Charged(OneKey) + Cardinality({r \in Admitted : ProjectOf(r) \in OneKey})
        <= Limit - 1 + Cardinality(OneKey)

\* The transactions end, although a request may wait for its key, and for the row
\* of the daily job, which waits for rows of other requests, and the owner waits
\* for those who use the key.
EverybodyEnds ==
    /\ \A r \in Requests : req[r].phase # "idle" ~> req[r].phase = "idle"
    /\ job.phase \in {"reading", "inserting"} ~> job.phase \in {"done", "failed"}
    /\ owner.phase # "idle" ~> owner.phase = "idle"

\* The key is revoked or its project deleted.
Closed(k) == key[k] = "revoked" \/ k[1] \notin active

\* Requests that are being served with key k.
Serving(k) == {r \in Requests : req[r].key = k /\ req[r].phase # "found"}

\* A key that is revoked, or whose project is deleted, may still serve requests
\* that had found it before, and then serves none: no session that read the key
\* or the project earlier brings it back.
RevocationTakesHold == \A k \in Keys : Closed(k) ~> [](Serving(k) = {})

=============================================================================
