------------------------- MODULE TokenRefreshProofs -------------------------
(***************************************************************************)
(* Proofs about TokenRefresh, for any set of connections, requests,        *)
(* workers and keys, any kind of provider and any size of a batch.         *)
(***************************************************************************)
EXTENDS TokenRefresh, TLAPS

(***************************************************************************)
(* What a call of the provider does, case by case.                         *)
(***************************************************************************)
Outcomes(c) == {Tokens(NextRef(c)), SetStatus("error", "refused"),
                SetStatus("error", "fault")}

\* What one provider call does to the grant, to the history and to its caller.
LEMMA ProviderCall ==
    ASSUME TypeOK, NEW c \in Connections, NEW presented \in Nat,
           NEW p \in Outcomes(c), ProviderRefresh(c, presented, p)
    PROVE  /\ p \in Changes /\ p.op \in {"tokens", "error"}
           /\ grant' \in [Connections -> Grant] /\ lost' \subseteq Rotating
           /\ \A d \in Connections : d # c => grant'[d] = grant[d]
           /\ grant'[c].live = grant[c].live
           /\ lost \subseteq lost' /\ \A d \in lost' : d # c => d \in lost
           /\ \/ /\ p.op = "error" /\ grant' = grant /\ lost' = lost
                 /\ p.detail = "refused" => ~Accepts(c, presented)
              \/ /\ Accepts(c, presented) /\ grant'[c].ref = NextRef(c)
                 /\ \/ /\ p.op = "tokens" /\ p.ref = NextRef(c) /\ lost' = lost
                       /\ p.detail = ""
                    \/ /\ p.op = "error" /\ p.detail = "fault"
                       /\ c \in Rotating => c \in lost'
                       /\ c \notin Rotating => lost' = lost
  <1>1. NextRef(c) \in Nat
    BY DEF TypeOK, NextRef, Grant
  <1>2. CASE /\ Accepts(c, presented)
             /\ grant' = [grant EXCEPT ![c].ref = NextRef(c)]
             /\ p = Tokens(NextRef(c)) /\ lost' = lost
    BY <1>1, <1>2 DEF Tokens, TypeOK, Grant, Changes, Details
  <1>3. CASE /\ Accepts(c, presented)
             /\ grant' = [grant EXCEPT ![c].ref = NextRef(c)]
             /\ p = SetStatus("error", "fault")
             /\ lost' = IF c \in Rotating THEN lost \cup {c} ELSE lost
    BY <1>1, <1>3 DEF SetStatus, TypeOK, Grant, Changes, Details
  <1>4. CASE /\ ~Accepts(c, presented) /\ p = SetStatus("error", "refused")
             /\ grant' = grant /\ lost' = lost
    BY <1>4 DEF SetStatus, TypeOK, Changes, Details
  <1>5. CASE p = SetStatus("error", "fault") /\ grant' = grant /\ lost' = lost
    BY <1>5 DEF SetStatus, TypeOK, Changes, Details
  <1> QED
    BY <1>2, <1>3, <1>4, <1>5 DEF ProviderRefresh

\* A change, applied to a row, gives a row.
LEMMA UpdatedType ==
    ASSUME TypeOK, NEW c \in Connections, NEW p \in Changes
    PROVE  Updated(c, p) \in Row
  BY DEF TypeOK, Updated, Changes, Row, Statuses, Details, Expiries

\* A request and a worker that do nothing have their type.
LEMMA IdleType == /\ Idle \in Request
                  /\ IdleJob \in Job
  BY DEF Idle, Request, Phases, Kinds, Row, Statuses, Details, Expiries, Changes,
         NoChange, IdleJob, Job

\* A change of status is a change.
LEMMA StatusChange ==
    \A s \in {"error", "expired", "revoked"}, d \in Details : SetStatus(s, d) \in Changes
  BY DEF SetStatus, Changes

\* A request that loads a connection, and one that is answered, keep their type.
LEMMA LoadType ==
    ASSUME TypeOK, NEW r \in Requests, NEW kind \in Kinds,
           NEW k \in ApiKeys \cup {Nobody}, NEW c \in Connections, Load(r, kind, k, c)
    PROVE  TypeOK'
  <1>1. row[c] \in Row
    BY DEF TypeOK
  <1>2. [Idle EXCEPT !.phase = "loaded", !.kind = kind, !.key = k, !.conn = c,
                     !.seen = row[c]] \in Request
    BY <1>1 DEF Request, Phases, Idle, NoChange, Changes, Details
  <1> QED
    BY <1>2 DEF Load, TypeOK

\* An answer, of whatever kind, keeps the type of the requests.
LEMMA AnsweredType ==
    ASSUME TypeOK, NEW r \in Requests, NEW p \in Changes, Answered(r, p)
    PROVE  req' \in [Requests -> Request]
  <1>1. [req[r] EXCEPT !.phase = "answered", !.change = p] \in Request
    BY DEF TypeOK, Request, Phases
  <1>2. req' = [req EXCEPT ![r] = [req[r] EXCEPT !.phase = "answered", !.change = p]]
    BY DEF Answered, TypeOK
  <1> QED
    BY <1>1, <1>2 DEF TypeOK

\* The types hold when every connection has just been authorised.
LEMMA InitType == Init => TypeOK
  <1> SUFFICES ASSUME Init PROVE TypeOK
    OBVIOUS
  <1>1. PICK timed \in SUBSET Connections :
           row = [c \in Connections |-> [status |-> "active", detail |-> "", ref |-> 0,
                     expiry |-> IF c \in timed THEN "fresh" ELSE "never"]]
    BY DEF Init
  <1>2. row \in [Connections -> Row]
    BY <1>1 DEF Row, Statuses, Details, Expiries
  <1> QED
    BY <1>2, IdleType DEF Init, TypeOK, Grant

\* Every step of requests, workers, owners and the clock keeps the types.
LEMMA NextType == TypeOK /\ [Next]_vars => TypeOK'
  <1> SUFFICES ASSUME TypeOK, [Next]_vars PROVE TypeOK'
    OBVIOUS
  <1>1. ASSUME NEW r \in Requests, NEW c \in Connections, NEW k \in ApiKeys,
               StartGet(r, k, c)
        PROVE  TypeOK'
    BY <1>1, LoadType DEF StartGet, Kinds
  <1>2. ASSUME NEW r \in Requests, NEW c \in Connections,
               StartForce(r, c) \/ StartRevoke(r, c)
        PROVE  TypeOK'
    BY <1>2, LoadType DEF StartForce, StartRevoke, Kinds
  <1>3. ASSUME NEW r \in Requests, Serve(r) PROVE TypeOK'
    BY <1>3, IdleType DEF Serve, TypeOK
  <1>4. ASSUME NEW r \in Requests, NoRefreshToken(r) PROVE TypeOK'
    <2>1. req' \in [Requests -> Request]
      BY <1>4, StatusChange, AnsweredType DEF NoRefreshToken, Details
    <2> QED
      BY <1>4, <2>1 DEF NoRefreshToken, TypeOK
  <1>5. ASSUME NEW r \in Requests, CallRefresh(r) PROVE TypeOK'
    <2>1. PICK p \in Outcomes(req[r].conn) :
             /\ ProviderRefresh(req[r].conn, req[r].seen.ref, p)
             /\ Answered(r, p)
      BY <1>5 DEF CallRefresh, Outcomes
    <2>2. req[r].conn \in Connections /\ req[r].seen.ref \in Nat
      BY <1>5, ConstantsAssumption DEF CallRefresh, TypeOK, Request, Row
    <2>3. /\ p \in Changes /\ grant' \in [Connections -> Grant]
          /\ lost' \subseteq Rotating
      BY <2>1, <2>2, ProviderCall
    <2>4. req' \in [Requests -> Request]
      BY <2>1, <2>3, AnsweredType
    <2> QED
      BY <1>5, <2>3, <2>4 DEF CallRefresh, TypeOK
  <1>6. ASSUME NEW r \in Requests, CallRevoke(r) PROVE TypeOK'
    <2>1. req' \in [Requests -> Request]
      <3>1. CASE req[r].seen.status = "revoked"
        BY <1>6, <3>1, IdleType DEF CallRevoke, TypeOK
      <3>2. CASE req[r].seen.status # "revoked"
        BY <1>6, <3>2, StatusChange, AnsweredType DEF CallRevoke, Details
      <3> QED
        BY <3>1, <3>2
    <2>2. grant' \in [Connections -> Grant]
      <3>1. PICK live \in {grant[req[r].conn].live, FALSE} :
               grant' = [grant EXCEPT ![req[r].conn].live = live]
        BY <1>6 DEF CallRevoke
      <3> QED
        BY <3>1 DEF TypeOK, Grant
    <2> QED
      BY <1>6, <2>1, <2>2 DEF CallRevoke, TypeOK
  <1>7. ASSUME NEW r \in Requests, Flush(r) PROVE TypeOK'
    <2>1. req' \in [Requests -> Request]
      BY <1>7 DEF Flush, TypeOK, Request, Phases
    <2>2. holder' \in [Connections -> Requests \cup Workers \cup {Nobody}]
      BY <1>7 DEF Flush, TypeOK
    <2> QED
      BY <1>7, <2>1, <2>2 DEF Flush, TypeOK
  <1>8. ASSUME NEW r \in Requests, Commit(r) \/ Raise(r) \/ Abort(r) PROVE TypeOK'
    <2>1. req[r].change \in Changes
      BY DEF TypeOK, Request
    <2>2. req[r].conn \in Connections => Updated(req[r].conn, req[r].change) \in Row
      BY <2>1, UpdatedType
    <2>3. row' \in [Connections -> Row]
      BY <1>8, <2>2 DEF Commit, Raise, Abort, TypeOK
    <2>4. lost' \subseteq Rotating
      BY <1>8 DEF Commit, Raise, Abort, TypeOK
    <2> QED
      BY <1>8, <2>3, <2>4, IdleType DEF Commit, Raise, Abort, EndRequest, TypeOK
  <1>9. ASSUME NEW w \in Workers, SelectBatch(w) PROVE TypeOK'
    <2>1. PICK S \in SUBSET Selectable :
             /\ job' = [job EXCEPT ![w] = [IdleJob EXCEPT !.batch = S, !.todo = S]]
             /\ holder' = [c \in Connections |-> IF c \in S THEN w ELSE holder[c]]
      BY <1>9 DEF SelectBatch
    <2>2. [IdleJob EXCEPT !.batch = S, !.todo = S] \in Job
      BY IdleType DEF Job, Selectable
    <2> QED
      BY <1>9, <2>1, <2>2 DEF SelectBatch, TypeOK
  <1>10. ASSUME NEW w \in Workers, NEW c \in Connections, RefreshOne(w, c)
         PROVE  TypeOK'
    <2>1. PICK p \in Outcomes(c) :
             /\ ProviderRefresh(c, row[c].ref, p)
             /\ job' = [job EXCEPT ![w].todo = @ \ {c}, ![w].change[c] = p]
      BY <1>10 DEF RefreshOne, Outcomes
    <2>2. row[c].ref \in Nat
      BY DEF TypeOK, Row
    <2>3. /\ p \in Changes /\ grant' \in [Connections -> Grant]
          /\ lost' \subseteq Rotating
      BY <2>1, <2>2, ProviderCall
    <2>4. /\ job \in [Workers -> Job]
          /\ job[w].todo \ {c} \in SUBSET Connections
          /\ [job[w].change EXCEPT ![c] = p] \in [Connections -> Changes]
      BY <2>3 DEF TypeOK, Job
    <2>5. [job[w] EXCEPT !.todo = @ \ {c}, !.change[c] = p] \in Job
      BY <2>4 DEF Job
    <2>6. job' = [job EXCEPT ![w] = [job[w] EXCEPT !.todo = @ \ {c}, !.change[c] = p]]
      BY <2>1, <2>4
    <2>7. job' \in [Workers -> Job]
      BY <2>4, <2>5, <2>6
    <2> QED
      BY <1>10, <2>3, <2>7 DEF RefreshOne, TypeOK
  <1>11. ASSUME NEW w \in Workers, NEW c \in Connections, SkipOne(w, c)
         PROVE  TypeOK'
    <2>1. job' \in [Workers -> Job]
      BY <1>11 DEF SkipOne, TypeOK, Job
    <2> QED
      BY <1>11, <2>1 DEF SkipOne, TypeOK
  <1>12. ASSUME NEW w \in Workers, CommitBatch(w) \/ CrashWorker(w) PROVE TypeOK'
    <2>1. \A c \in Connections : Updated(c, job[w].change[c]) \in Row
      <3> TAKE c \in Connections
      <3>1. job[w].change[c] \in Changes
        BY DEF TypeOK, Job
      <3> QED
        BY <3>1, UpdatedType
    <2>2. row' \in [Connections -> Row]
      BY <1>12, <2>1 DEF CommitBatch, CrashWorker, TypeOK
    <2>3. lost' \subseteq Rotating
      BY <1>12 DEF CommitBatch, CrashWorker, TypeOK
    <2> QED
      BY <1>12, <2>2, <2>3, IdleType DEF CommitBatch, CrashWorker, EndJob, TypeOK
  <1>13. ASSUME NEW c \in Connections, WithdrawGrant(c) PROVE TypeOK'
    BY <1>13 DEF WithdrawGrant, TypeOK, Grant
  <1>14. ASSUME NEW c \in Connections, Elapse(c) PROVE TypeOK'
    <2>1. row' \in [Connections -> Row]
      BY <1>14 DEF Elapse, TypeOK, Row, Expiries
    <2> QED
      BY <1>14, <2>1 DEF Elapse, TypeOK
  <1>15. CASE UNCHANGED vars
    BY <1>15 DEF vars, TypeOK
  <1> QED
    BY <1>1, <1>2, <1>3, <1>4, <1>5, <1>6, <1>7, <1>8, <1>9, <1>10, <1>11, <1>12,
       <1>13, <1>14, <1>15
    DEF Next, StartRequest, RequestStep, WorkerStep, Environment

\* The vault, its sessions and the provider are in the states their types allow.
THEOREM TypeCorrect == Spec => []TypeOK
  BY InitType, NextType, PTL DEF Spec

-----------------------------------------------------------------------------
(***************************************************************************)
(* The inductive invariant, in two layers.  The sessions: who holds which  *)
(* lock, what an open transaction may hold unsaved, which statuses are     *)
(* stored.  The serials: which refresh token is where.                     *)
(***************************************************************************)
\* A row is locked by the worker whose batch it is in, or by the request that
\* flushed it.
LockInv ==
    \A c \in Connections :
        /\ \A w \in Workers : holder[c] = w <=> c \in job[w].batch
        /\ \A r \in Requests :
              holder[c] = r <=> req[r].phase = "flushed" /\ req[r].conn = c

\* A batch holds unsaved changes only of rows it is done with.
Tidy(j) ==
    /\ j.todo \subseteq j.batch
    /\ \A c \in Connections :
          /\ j.change[c].op \in {"none", "tokens", "error"}
          /\ j.change[c].op # "none" => c \in j.batch /\ c \notin j.todo
          /\ j.change[c].op # "error" => j.change[c].detail = ""

JobInv == \A w \in Workers : Tidy(job[w])

ReqInv ==
    \A r \in Requests :
        /\ req[r].phase \in {"idle", "loaded"} => req[r].change.op = "none"
        /\ req[r].phase # "idle" => req[r].conn \in Connections

\* Only a connection in service is in a batch, and none is ever stored expired.
StatusInv ==
    \A c \in Connections :
        /\ row[c].status # "expired"
        /\ \A w \in Workers : c \in job[w].batch => row[c].status = "active"

SessionInv == LockInv /\ JobInv /\ ReqInv /\ StatusInv

\* The new token of connection c that each transaction holds unsaved, or -1.
Parties == Requests \cup Workers

Pending(c) ==
    [t \in Parties |->
        IF t \in Requests
        THEN IF req[t].conn = c /\ req[t].change.op = "tokens"
             THEN req[t].change.ref ELSE -1
        ELSE IF job[t].change[c].op = "tokens" THEN job[t].change[c].ref ELSE -1]

\* Stored serial n, issued serial g, lost connections L and unsaved tokens P of
\* connection c fit together: the stored serial trails the issued one; a lost pair
\* leaves it behind for good; unsaved tokens are the newest and, of a rotating
\* provider's, held by one transaction; and a pair is missing only if it is held
\* or lost.
Fit(c, n, g, L, P) ==
    /\ n <= g
    /\ c \notin Rotating => n = g
    /\ c \in L => n < g
    /\ \A t \in Parties : P[t] # -1 =>
          /\ P[t] = g
          /\ c \in Rotating => /\ n < g /\ c \notin L
                               /\ \A u \in Parties : P[u] # -1 => u = t
    /\ c \in Rotating /\ n # g /\ c \notin L => \E t \in Parties : P[t] = g

SerialInv ==
    \A c \in Connections : Fit(c, row[c].ref, grant[c].ref, lost, Pending(c))

\* What a request read trails what is stored.
SeenInv ==
    \A r \in Requests :
        req[r].phase = "loaded" => req[r].seen.ref <= row[req[r].conn].ref

\* Request r holds new tokens of c, of a rotating provider's.
Carries(r, c) ==
    c \in Rotating /\ req[r].conn = c /\ req[r].change.op = "tokens"

\* Why a provider refused a worker.
RefusalInv ==
    \A w \in Workers : \A c \in Connections :
        job[w].change[c].detail = "refused" =>
            \/ ~grant[c].live
            \/ c \in lost
            \/ \E r \in Requests : Carries(r, c)

IInv == TypeOK /\ SessionInv /\ SerialInv /\ SeenInv /\ RefusalInv

\* What the commit of a change does to the status and to the stored serial.
LEMMA UpdatedParts ==
    ASSUME TypeOK, NEW c \in Connections, NEW p \in Changes
    PROVE  /\ p.op \in {"none", "tokens"} => Updated(c, p).status = row[c].status
           /\ p.op \in {"error", "expired", "revoked"} => Updated(c, p).status = p.op
           /\ Updated(c, p).ref = IF p.op = "tokens" THEN p.ref ELSE row[c].ref
  BY DEF TypeOK, Updated, Changes, Row, Statuses, Details, Expiries

\* A session without changes holds no tokens and no refusal.
LEMMA Nothing == NoChange.op = "none" /\ NoChange.detail = ""
  BY DEF NoChange

\* At first no row is locked and no session holds anything.
LEMMA InitSession == Init => SessionInv
  <1> SUFFICES ASSUME Init PROVE SessionInv
    OBVIOUS
  <1>1. /\ \A r \in Requests : req[r].phase = "idle" /\ req[r].change.op = "none"
        /\ \A c \in Connections : holder[c] = Nobody
    BY DEF Init, Idle, NoChange
  <1>2. \A w \in Workers :
           /\ job[w].batch = {} /\ job[w].todo = {}
           /\ \A c \in Connections : job[w].change[c] = NoChange
    BY DEF Init, IdleJob
  <1>3. \A c \in Connections : row[c].status = "active"
    <2>1. PICK timed \in SUBSET Connections :
             row = [c \in Connections |-> [status |-> "active", detail |-> "", ref |-> 0,
                       expiry |-> IF c \in timed THEN "fresh" ELSE "never"]]
      BY DEF Init
    <2> QED
      BY <2>1
  <1>4. LockInv
    BY <1>1, <1>2, ConstantsAssumption DEF LockInv
  <1>5. JobInv
    BY <1>2, Nothing DEF JobInv, Tidy
  <1> QED
    BY <1>1, <1>2, <1>3, <1>4, <1>5 DEF SessionInv, ReqInv, StatusInv

\* A request that moves between phases in which it holds no lock.
LEMMA RequestMoves ==
    ASSUME SessionInv, NEW r \in Requests, UNCHANGED <<row, holder, job>>,
           \A s \in Requests : s # r => req'[s] = req[s],
           req[r].phase # "flushed", req'[r].phase # "flushed",
           req'[r].phase \in {"idle", "loaded"} => req'[r].change.op = "none",
           req'[r].phase # "idle" => req'[r].conn \in Connections
    PROVE  SessionInv'
  <1>1. LockInv'
    BY DEF SessionInv, LockInv
  <1>2. JobInv' /\ StatusInv'
    BY DEF SessionInv, JobInv, StatusInv
  <1>3. ReqInv'
    BY DEF SessionInv, ReqInv
  <1> QED
    BY <1>1, <1>2, <1>3 DEF SessionInv

\* A step that leaves the sessions and the stored statuses alone.
LEMMA SessionFrame ==
    ASSUME SessionInv, UNCHANGED <<holder, req, job>>,
           \A c \in Connections : row'[c].status = row[c].status
    PROVE  SessionInv'
  <1>1. LockInv'
    BY DEF SessionInv, LockInv
  <1>2. JobInv'
    BY DEF SessionInv, JobInv
  <1>3. ReqInv'
    BY DEF SessionInv, ReqInv
  <1>4. StatusInv'
    BY DEF SessionInv, StatusInv
  <1> QED
    BY <1>1, <1>2, <1>3, <1>4 DEF SessionInv

\* What an answer changes in the session of its request.
LEMMA AnsweredParts ==
    ASSUME TypeOK, NEW r \in Requests, NEW p, Answered(r, p)
    PROVE  /\ req'[r].phase = "answered" /\ req'[r].change = p
           /\ req'[r].conn = req[r].conn
           /\ \A s \in Requests : s # r => req'[s] = req[s]
  BY DEF Answered, TypeOK, Request

\* A step of one worker that leaves its own job in order.
LEMMA JobMoves ==
    ASSUME SessionInv, NEW w \in Workers,
           \A v \in Workers : v # w => job'[v] = job[v], Tidy(job'[w])
    PROVE  JobInv'
  <1> SUFFICES ASSUME NEW v \in Workers PROVE Tidy(job'[v])
    BY DEF JobInv
  <1>1. CASE v = w
    BY <1>1
  <1>2. CASE v # w
    BY <1>2 DEF SessionInv, JobInv
  <1> QED
    BY <1>1, <1>2

\* Every step keeps locks, batches, sessions and stored statuses in accord.
LEMMA NextSession ==
    ASSUME TypeOK, SessionInv, [Next]_vars
    PROVE  SessionInv'
  <1> USE ConstantsAssumption
  <1>1. ASSUME NEW r \in Requests, NEW c \in Connections, NEW k, NEW kind,
               Load(r, kind, k, c)
        PROVE  SessionInv'
    <2>1. /\ req'[r].phase = "loaded" /\ req'[r].conn = c /\ req'[r].change = NoChange
          /\ \A s \in Requests : s # r => req'[s] = req[s]
      BY <1>1 DEF Load, TypeOK, Idle
    <2> QED
      BY <1>1, <2>1, Nothing, RequestMoves DEF Load
  <1>2. ASSUME NEW r \in Requests, Serve(r) PROVE SessionInv'
    <2>1. /\ req'[r].phase = "idle" /\ req'[r].change = NoChange
          /\ \A s \in Requests : s # r => req'[s] = req[s]
      BY <1>2 DEF Serve, TypeOK, Idle
    <2> QED
      BY <1>2, <2>1, Nothing, RequestMoves DEF Serve
  <1>3. ASSUME NEW r \in Requests, NoRefreshToken(r) \/ CallRefresh(r)
        PROVE  SessionInv'
    <2>1. PICK p : Answered(r, p)
      BY <1>3 DEF NoRefreshToken, CallRefresh
    <2>2. req[r].phase = "loaded" /\ UNCHANGED <<row, holder, job>>
      BY <1>3 DEF NoRefreshToken, CallRefresh, MustRefresh
    <2> QED
      BY <2>1, <2>2, AnsweredParts, RequestMoves DEF SessionInv, ReqInv
  <1>5. ASSUME NEW r \in Requests, CallRevoke(r) PROVE SessionInv'
    <2>1. CASE req[r].seen.status = "revoked"
      <3>1. req' = [req EXCEPT ![r] = Idle]
        BY <1>5, <2>1 DEF CallRevoke
      <3>2. /\ req'[r].phase = "idle" /\ req'[r].change = NoChange
            /\ \A s \in Requests : s # r => req'[s] = req[s]
        BY <3>1 DEF TypeOK, Idle
      <3>3. req[r].phase = "loaded" /\ UNCHANGED <<row, holder, job>>
        BY <1>5 DEF CallRevoke
      <3> QED
        BY <3>2, <3>3, Nothing, RequestMoves
    <2>2. CASE req[r].seen.status # "revoked"
      <3>1. Answered(r, SetStatus("revoked", ""))
        BY <1>5, <2>2 DEF CallRevoke
      <3>2. req[r].phase = "loaded" /\ UNCHANGED <<row, holder, job>>
        BY <1>5 DEF CallRevoke
      <3> QED
        BY <3>1, <3>2, AnsweredParts, RequestMoves DEF SessionInv, ReqInv
    <2> QED
      BY <2>1, <2>2
  <1>6. ASSUME NEW r \in Requests, Flush(r) PROVE SessionInv'
    <2>1. /\ req'[r].phase = "flushed" /\ req'[r].conn = req[r].conn
          /\ req'[r].change = req[r].change
          /\ \A s \in Requests : s # r => req'[s] = req[s]
      BY <1>6 DEF Flush, TypeOK, Request
    <2>2. /\ holder'[req[r].conn] = r /\ holder[req[r].conn] = Nobody
          /\ \A c \in Connections : c # req[r].conn => holder'[c] = holder[c]
          /\ req[r].phase = "answered" /\ req[r].conn \in Connections
          /\ UNCHANGED <<row, job>>
      BY <1>6 DEF Flush, TypeOK, SessionInv, ReqInv
    <2>3. LockInv'
      BY <2>1, <2>2 DEF SessionInv, LockInv
    <2>4. ReqInv'
      BY <2>1, <2>2 DEF SessionInv, ReqInv
    <2>5. JobInv' /\ StatusInv'
      BY <2>2 DEF SessionInv, JobInv, StatusInv
    <2> QED
      BY <2>3, <2>4, <2>5 DEF SessionInv
  <1>7. ASSUME NEW r \in Requests, Commit(r) \/ Raise(r) \/ Abort(r) PROVE SessionInv'
    <2>1. EndRequest(r) /\ UNCHANGED job
      BY <1>7 DEF Commit, Raise, Abort, EndRequest
    <2>a. /\ req'[r].phase = "idle" /\ req'[r].change = NoChange
          /\ \A s \in Requests : s # r => req'[s] = req[s]
          /\ \A c \in Connections :
                holder'[c] = IF holder[c] = r THEN Nobody ELSE holder[c]
      BY <2>1 DEF EndRequest, TypeOK, Idle
    <2>b. LockInv'
      BY <2>1, <2>a DEF SessionInv, LockInv
    <2>c. JobInv'
      BY <2>1 DEF SessionInv, JobInv
    <2>d. ReqInv'
      BY <2>a, Nothing DEF SessionInv, ReqInv
    <2>2. LockInv' /\ JobInv' /\ ReqInv'
      BY <2>b, <2>c, <2>d
    <2>3. CASE Commit(r)
      <3>1. /\ req[r].conn \in Connections /\ req[r].change \in Changes
            /\ req[r].change.op \in {"none", "tokens", "revoked"}
        BY <2>3 DEF Commit, Raises, TypeOK, Request, Changes, SessionInv, ReqInv
      <3>2. \A c \in Connections : c # req[r].conn => row'[c] = row[c]
        BY <2>3 DEF Commit, TypeOK
      <3>3. /\ row'[req[r].conn].status \in {row[req[r].conn].status, "revoked"}
        BY <2>3, <3>1, UpdatedParts DEF Commit, TypeOK
      <3>4. \A w \in Workers : req[r].conn \notin job[w].batch
        BY <2>3, <3>1 DEF Commit, SessionInv, LockInv
      <3> QED
        BY <2>1, <2>2, <3>2, <3>3, <3>4 DEF SessionInv, StatusInv
    <2>4. CASE Raise(r) \/ Abort(r)
      BY <2>1, <2>2, <2>4 DEF Raise, Abort, SessionInv, StatusInv
    <2> QED
      BY <1>7, <2>3, <2>4
  <1>8. ASSUME NEW w \in Workers, SelectBatch(w) PROVE SessionInv'
    <2>1. PICK S \in SUBSET Selectable :
             /\ job' = [job EXCEPT ![w] = [IdleJob EXCEPT !.batch = S, !.todo = S]]
             /\ holder' = [c \in Connections |-> IF c \in S THEN w ELSE holder[c]]
      BY <1>8 DEF SelectBatch
    <2>2. \A c \in S : holder[c] = Nobody /\ row[c].status = "active"
      BY DEF Selectable, Expiring
    <2>3. job[w].batch = {} /\ UNCHANGED <<row, req>>
      BY <1>8 DEF SelectBatch
    <2>4. /\ job'[w].batch = S /\ job'[w].todo = S
          /\ \A c \in Connections : job'[w].change[c] = NoChange
          /\ \A v \in Workers : v # w => job'[v] = job[v]
      BY <2>1 DEF TypeOK, IdleJob
    <2>5. LockInv'
      BY <2>1, <2>2, <2>3, <2>4 DEF SessionInv, LockInv, Selectable
    <2>6. JobInv'
      BY <2>4, Nothing, JobMoves DEF Tidy
    <2> QED
      BY <2>2, <2>3, <2>4, <2>5, <2>6 DEF SessionInv, ReqInv, StatusInv
  <1>9. ASSUME NEW w \in Workers, NEW c \in Connections, RefreshOne(w, c)
        PROVE  SessionInv'
    <2>1. PICK p \in Outcomes(c) :
             /\ ProviderRefresh(c, row[c].ref, p)
             /\ job' = [job EXCEPT ![w].todo = @ \ {c}, ![w].change[c] = p]
      BY <1>9 DEF RefreshOne, Outcomes
    <2>2. p.op \in {"tokens", "error"} /\ (p.op = "tokens" => p.detail = "")
      <3>1. row[c].ref \in Nat
        BY DEF TypeOK, Row
      <3> QED
        BY <2>1, <3>1, ProviderCall
    <2>3. /\ job'[w].batch = job[w].batch /\ job'[w].todo = job[w].todo \ {c}
          /\ \A d \in Connections :
                job'[w].change[d] = IF d = c THEN p ELSE job[w].change[d]
          /\ \A v \in Workers : v # w => job'[v] = job[v]
      BY <2>1 DEF TypeOK, Job
    <2>4. c \in job[w].todo /\ UNCHANGED <<row, holder, req>>
      BY <1>9 DEF RefreshOne
    <2>5. \A v \in Workers : job'[v].batch = job[v].batch
      BY <2>3
    <2>6. LockInv' /\ ReqInv' /\ StatusInv'
      BY <2>4, <2>5 DEF SessionInv, LockInv, ReqInv, StatusInv
    <2>7. JobInv'
      <3>1. Tidy(job[w])
        BY DEF SessionInv, JobInv
      <3>2. Tidy(job'[w])
        BY <2>2, <2>3, <2>4, <3>1 DEF Tidy
      <3> QED
        BY <2>3, <3>2, JobMoves
    <2> QED
      BY <2>6, <2>7 DEF SessionInv
  <1>10. ASSUME NEW w \in Workers, NEW c \in Connections, SkipOne(w, c)
         PROVE  SessionInv'
    <2>1. /\ job'[w].batch = job[w].batch /\ job'[w].todo = job[w].todo \ {c}
          /\ job'[w].change = job[w].change
          /\ \A v \in Workers : v # w => job'[v] = job[v]
          /\ UNCHANGED <<row, holder, req>>
      BY <1>10 DEF SkipOne, TypeOK, Job
    <2>2. LockInv' /\ ReqInv' /\ StatusInv'
      BY <2>1 DEF SessionInv, LockInv, ReqInv, StatusInv
    <2>3. JobInv'
      <3>1. Tidy(job[w])
        BY DEF SessionInv, JobInv
      <3>2. Tidy(job'[w])
        BY <2>1, <3>1 DEF Tidy
      <3> QED
        BY <2>1, <3>2, JobMoves
    <2> QED
      BY <2>2, <2>3 DEF SessionInv
  <1>11. ASSUME NEW w \in Workers, CommitBatch(w) \/ CrashWorker(w) PROVE SessionInv'
    <2>1. EndJob(w) /\ UNCHANGED req
      BY <1>11 DEF CommitBatch, CrashWorker, EndJob
    <2>2. /\ job'[w] = IdleJob
          /\ \A v \in Workers : v # w => job'[v] = job[v]
          /\ \A d \in Connections :
                holder'[d] = IF holder[d] = w THEN Nobody ELSE holder[d]
      BY <2>1 DEF EndJob, TypeOK
    <2>a. /\ job'[w].batch = {} /\ job'[w].todo = {}
          /\ \A d \in Connections : job'[w].change[d] = NoChange
      BY <2>2 DEF IdleJob
    <2>b. LockInv'
      BY <2>1, <2>2, <2>a DEF SessionInv, LockInv
    <2>c. JobInv'
      BY <2>2, <2>a, Nothing, JobMoves DEF Tidy
    <2>3. LockInv' /\ JobInv' /\ ReqInv'
      BY <2>1, <2>b, <2>c DEF SessionInv, ReqInv
    <2>4. CASE CommitBatch(w)
      <3>1. \A d \in Connections : row'[d].status \in {row[d].status, "error"}
        <4> TAKE d \in Connections
        <4>1. job[w].change[d] \in Changes
              /\ job[w].change[d].op \in {"none", "tokens", "error"}
          <5>1. job[w].change[d] \in Changes
            BY DEF TypeOK, Job
          <5> QED
            BY <5>1 DEF SessionInv, JobInv, Tidy
        <4> QED
          BY <2>4, <4>1, UpdatedParts DEF CommitBatch
      <3>2. \A d \in Connections : d \notin job[w].batch => row'[d] = row[d]
        BY <2>4 DEF CommitBatch
      <3>3. \A d \in Connections, v \in Workers :
               v # w /\ d \in job[v].batch => d \notin job[w].batch
        BY DEF SessionInv, LockInv
      <3> QED
        BY <2>2, <2>3, <3>1, <3>2, <3>3 DEF SessionInv, StatusInv, IdleJob
    <2>5. CASE CrashWorker(w)
      BY <2>2, <2>3, <2>5 DEF CrashWorker, SessionInv, StatusInv, IdleJob
    <2> QED
      BY <1>11, <2>4, <2>5
  <1>12. ASSUME NEW c \in Connections, WithdrawGrant(c) PROVE SessionInv'
    BY <1>12, SessionFrame DEF WithdrawGrant
  <1>13. ASSUME NEW c \in Connections, Elapse(c) PROVE SessionInv'
    <2>1. \A d \in Connections : row'[d].status = row[d].status
      BY <1>13 DEF Elapse, TypeOK, Row
    <2> QED
      BY <1>13, <2>1, SessionFrame DEF Elapse
  <1>14. CASE UNCHANGED vars
    BY <1>14, SessionFrame DEF vars
  <1> QED
    BY <1>1, <1>2, <1>3, <1>5, <1>6, <1>7, <1>8, <1>9, <1>10, <1>11, <1>12,
       <1>13, <1>14
    DEF Next, StartRequest, StartGet, StartForce, StartRevoke, RequestStep, WorkerStep,
        Environment

-----------------------------------------------------------------------------
(***************************************************************************)
(* Serials that fit keep fitting through the four things that can happen   *)
(* to a new pair: a transaction obtains it, its answer gets lost, it is    *)
(* stored, it is dropped.                                                  *)
(***************************************************************************)
\* A transaction obtains a new pair: it showed the newest, so nobody holds another.
LEMMA FitObtain ==
    ASSUME NEW c, NEW n \in Nat, NEW g \in Nat, NEW L, NEW P \in [Parties -> Int],
           NEW t \in Parties, Fit(c, n, g, L, P), P[t] = -1, g <= n
    PROVE  LET h == IF c \in Rotating THEN g + 1 ELSE g
           IN  Fit(c, n, h, L, [P EXCEPT ![t] = h])
  BY DEF Fit

\* The provider issues a pair whose answer is lost: the connection is now stranded.
LEMMA FitMiss ==
    ASSUME NEW c, NEW n \in Nat, NEW g \in Nat, NEW L, NEW P \in [Parties -> Int],
           NEW M, c \in Rotating => c \in M, c \notin Rotating => M = L,
           Fit(c, n, g, L, P), g <= n
    PROVE  LET h == IF c \in Rotating THEN g + 1 ELSE g IN Fit(c, n, h, M, P)
  BY DEF Fit

\* A transaction stores the pair it holds.
LEMMA FitStore ==
    ASSUME NEW c, NEW n \in Nat, NEW g \in Nat, NEW L, NEW P \in [Parties -> Int],
           NEW t \in Parties, Fit(c, n, g, L, P), P[t] # -1
    PROVE  Fit(c, P[t], g, L, [P EXCEPT ![t] = -1]) /\ n <= P[t] /\ P[t] \in Nat
  BY DEF Fit

\* A transaction that holds a pair is undone.
LEMMA FitDrop ==
    ASSUME NEW c, NEW n \in Nat, NEW g \in Nat, NEW L, NEW P \in [Parties -> Int],
           NEW t \in Parties, NEW M, c \in Rotating => c \in M,
           c \notin Rotating => (c \in M <=> c \in L), Fit(c, n, g, L, P), P[t] # -1
    PROVE  Fit(c, n, g, M, [P EXCEPT ![t] = -1])
  BY DEF Fit

\* Only whether c is lost matters.
LEMMA FitLost ==
    ASSUME NEW c, NEW n, NEW g, NEW L, NEW P, NEW M, c \in M <=> c \in L,
           Fit(c, n, g, L, P)
    PROVE  Fit(c, n, g, M, P)
  BY DEF Fit

\* What the transactions hold unsaved of a connection are serials, or -1.
LEMMA PendingType ==
    ASSUME TypeOK, NEW c \in Connections
    PROVE  Pending(c) \in [Parties -> Int]
  <1>1. \A r \in Requests : req[r].change.ref \in Nat
    BY DEF TypeOK, Request, Changes
  <1>2. \A w \in Workers : job[w].change[c].ref \in Nat
    <2> TAKE w \in Workers
    <2>1. job[w].change[c] \in Changes
      BY DEF TypeOK, Job
    <2> QED
      BY <2>1 DEF Changes
  <1> QED
    BY <1>1, <1>2 DEF Pending, Parties

\* What a step of one request, or of one worker, does to the unsaved tokens of c.
LEMMA RequestPending ==
    ASSUME NEW r \in Requests, UNCHANGED job,
           \A s \in Requests : s # r => req'[s] = req[s], NEW c \in Connections
    PROVE  Pending(c)' = [Pending(c) EXCEPT ![r] =
              IF req'[r].conn = c /\ req'[r].change.op = "tokens"
              THEN req'[r].change.ref ELSE -1]
  BY DEF Pending, Parties

\* The same for a step of one worker.
LEMMA WorkerPending ==
    ASSUME NEW w \in Workers, UNCHANGED req,
           \A v \in Workers : v # w => job'[v] = job[v], NEW c \in Connections
    PROVE  Pending(c)' = [Pending(c) EXCEPT ![w] =
              IF job'[w].change[c].op = "tokens" THEN job'[w].change[c].ref ELSE -1]
  BY ConstantsAssumption DEF Pending, Parties

\* What a request and a worker hold unsaved of a connection, spelled out.
LEMMA PendingOf ==
    ASSUME NEW c \in Connections
    PROVE  /\ \A r \in Requests : Pending(c)[r] =
                 IF req[r].conn = c /\ req[r].change.op = "tokens"
                 THEN req[r].change.ref ELSE -1
           /\ \A w \in Workers : Pending(c)[w] =
                 IF job[w].change[c].op = "tokens" THEN job[w].change[c].ref ELSE -1
  BY ConstantsAssumption DEF Pending, Parties

\* The stored and the issued serial of a connection are numbers.
LEMMA Serials ==
    ASSUME TypeOK, NEW c \in Connections
    PROVE  row[c].ref \in Nat /\ grant[c].ref \in Nat
  BY DEF TypeOK, Row, Grant

\* A step that leaves the serials of connection d alone.
LEMMA Untouched ==
    ASSUME SerialInv, NEW d \in Connections, row'[d].ref = row[d].ref,
           grant'[d].ref = grant[d].ref, d \in lost' <=> d \in lost,
           Pending(d)' = Pending(d)
    PROVE  Fit(d, row'[d].ref, grant'[d].ref, lost', Pending(d)')
  <1>1. Fit(d, row[d].ref, grant[d].ref, lost, Pending(d))
    BY DEF SerialInv
  <1>2. Fit(d, row[d].ref, grant[d].ref, lost', Pending(d))
    BY <1>1, FitLost
  <1> QED
    BY <1>2

\* What was read before a step that lets no stored serial run back.
LEMMA SeenFrame ==
    ASSUME TypeOK, TypeOK', SessionInv', SeenInv,
           \A c \in Connections : row[c].ref <= row'[c].ref,
           \A r \in Requests : req'[r].phase = "loaded" =>
              \/ req'[r] = req[r]
              \/ req'[r].seen.ref <= row'[req'[r].conn].ref
    PROVE  SeenInv'
  <1> SUFFICES ASSUME NEW r \in Requests, req'[r].phase = "loaded",
                      req'[r] = req[r]
               PROVE  req'[r].seen.ref <= row'[req'[r].conn].ref
    BY DEF SeenInv
  <1>1. req'[r].conn \in Connections
    BY DEF SessionInv, ReqInv
  <1>2. req[r].seen.ref <= row[req[r].conn].ref
    BY DEF SeenInv
  <1>3. /\ row[req[r].conn].ref \in Nat /\ row'[req[r].conn].ref \in Nat
        /\ req[r].seen.ref \in Nat
    BY <1>1 DEF TypeOK, Row, Request
  <1> QED
    BY <1>1, <1>2, <1>3

\* A step of a request that obtains, stores or drops no tokens.
LEMMA QuietRequest ==
    ASSUME SerialInv, NEW r \in Requests, UNCHANGED <<row, job, lost>>,
           \A c \in Connections : grant'[c].ref = grant[c].ref,
           \A s \in Requests : s # r => req'[s] = req[s],
           req'[r].change.op = "tokens" <=> req[r].change.op = "tokens",
           req'[r].change.op = "tokens" =>
              req'[r].change = req[r].change /\ req'[r].conn = req[r].conn
    PROVE  SerialInv'
  <1> SUFFICES ASSUME NEW d \in Connections
               PROVE  Fit(d, row'[d].ref, grant'[d].ref, lost', Pending(d)')
    BY DEF SerialInv
  <1>1. Pending(d)' = [Pending(d) EXCEPT ![r] =
           IF req'[r].conn = d /\ req'[r].change.op = "tokens"
           THEN req'[r].change.ref ELSE -1]
    BY RequestPending
  <1>2. Pending(d)[r] = IF req[r].conn = d /\ req[r].change.op = "tokens"
                        THEN req[r].change.ref ELSE -1
    BY PendingOf
  <1>3. Pending(d)' = [Pending(d) EXCEPT ![r] = Pending(d)[r]]
    BY <1>1, <1>2
  <1>4. Pending(d)' = Pending(d)
    BY <1>3 DEF Pending
  <1> QED
    BY <1>4, Untouched

\* A step of a worker that obtains, stores or drops no tokens.
LEMMA QuietWorker ==
    ASSUME SerialInv, NEW w \in Workers, UNCHANGED <<row, grant, req, lost>>,
           \A v \in Workers : v # w => job'[v] = job[v],
           \A c \in Connections :
              \/ job'[w].change[c] = job[w].change[c]
              \/ job'[w].change[c].op # "tokens" /\ job[w].change[c].op # "tokens"
    PROVE  SerialInv'
  <1> SUFFICES ASSUME NEW d \in Connections
               PROVE  Fit(d, row'[d].ref, grant'[d].ref, lost', Pending(d)')
    BY DEF SerialInv
  <1>1. Pending(d)' = [Pending(d) EXCEPT ![w] =
           IF job'[w].change[d].op = "tokens" THEN job'[w].change[d].ref ELSE -1]
    BY WorkerPending
  <1>2. Pending(d)[w] =
           IF job[w].change[d].op = "tokens" THEN job[w].change[d].ref ELSE -1
    BY PendingOf
  <1>3. Pending(d)' = [Pending(d) EXCEPT ![w] = Pending(d)[w]]
    BY <1>1, <1>2
  <1>4. Pending(d)' = Pending(d)
    BY <1>3 DEF Pending
  <1> QED
    BY <1>4, Untouched

\* A provider call by transaction t, which shows a serial no newer than the stored.
LEMMA CallFits ==
    ASSUME TypeOK, SerialInv, UNCHANGED row, NEW c \in Connections, NEW t \in Parties,
           NEW presented \in Nat, NEW p \in Outcomes(c),
           ProviderRefresh(c, presented, p), presented <= row[c].ref,
           Pending(c)[t] = -1,
           Pending(c)' = [Pending(c) EXCEPT ![t] = IF p.op = "tokens" THEN p.ref ELSE -1],
           \A d \in Connections : d # c => Pending(d)' = Pending(d)
    PROVE  SerialInv'
  <1> SUFFICES ASSUME NEW d \in Connections
               PROVE  Fit(d, row'[d].ref, grant'[d].ref, lost', Pending(d)')
    BY DEF SerialInv
  <1>1. CASE d # c
    <2>1. grant'[d] = grant[d] /\ (d \in lost' <=> d \in lost)
      BY <1>1, ProviderCall
    <2> QED
      BY <1>1, <2>1, Untouched
  <1>2. CASE d = c
    <2> DEFINE n == row[c].ref
               g == grant[c].ref
               P == Pending(c)
               h == IF c \in Rotating THEN g + 1 ELSE g
    <2>1. /\ n \in Nat /\ g \in Nat /\ P \in [Parties -> Int]
          /\ Fit(c, n, g, lost, P) /\ P[t] = -1
      BY Serials, PendingType DEF SerialInv
    <2>2. NextRef(c) = h
      BY DEF NextRef
    <2>3. CASE p.op = "error" /\ grant' = grant /\ lost' = lost
      <3>1. Pending(c)' = [P EXCEPT ![t] = -1]
        BY <2>3
      <3>2. Pending(c)' = P
        BY <2>1, <3>1
      <3> QED
        BY <1>2, <2>3, <3>2, Untouched
    <2>4. CASE Accepts(c, presented) /\ grant'[c].ref = NextRef(c)
      <3>1. g <= n
        BY <2>4 DEF Accepts
      <3>2. CASE p.op = "tokens" /\ p.ref = NextRef(c) /\ lost' = lost
        <4>1. Fit(c, n, h, lost, [P EXCEPT ![t] = h])
          BY <2>1, <3>1, FitObtain
        <4>2. Pending(c)' = [P EXCEPT ![t] = h]
          BY <2>2, <3>2
        <4> QED
          BY <1>2, <2>2, <2>4, <3>2, <4>1, <4>2
      <3>3. CASE /\ p.op = "error"
                 /\ c \in Rotating => c \in lost'
                 /\ c \notin Rotating => lost' = lost
        <4>1. Fit(c, n, h, lost', P)
          BY <2>1, <3>1, <3>3, FitMiss
        <4>2. Pending(c)' = [P EXCEPT ![t] = -1]
          BY <3>3
        <4>3. Pending(c)' = P
          BY <2>1, <4>2
        <4> QED
          BY <1>2, <2>2, <2>4, <4>1, <4>3
      <3> QED
        BY <2>3, <2>4, <3>2, <3>3, ProviderCall
    <2> QED
      BY <2>3, <2>4, ProviderCall
  <1> QED
    BY <1>1, <1>2

\* Transaction t stores the tokens of c it holds, or changes nothing there.
LEMMA StoreFits ==
    ASSUME TypeOK, SerialInv, NEW c \in Connections, NEW t \in Parties,
           UNCHANGED <<grant, lost>>,
           Pending(c)' = [Pending(c) EXCEPT ![t] = -1],
           row'[c].ref = IF Pending(c)[t] # -1 THEN Pending(c)[t] ELSE row[c].ref
    PROVE  /\ Fit(c, row'[c].ref, grant'[c].ref, lost', Pending(c)')
           /\ row[c].ref <= row'[c].ref
  <1> DEFINE n == row[c].ref
             g == grant[c].ref
             P == Pending(c)
  <1>1. /\ n \in Nat /\ g \in Nat /\ P \in [Parties -> Int] /\ Fit(c, n, g, lost, P)
    BY Serials, PendingType DEF SerialInv
  <1>2. CASE P[t] = -1
    <2>1. Pending(c)' = P
      BY <1>1, <1>2
    <2>2. row'[c].ref = row[c].ref
      BY <1>2
    <2>3. Fit(c, row'[c].ref, grant'[c].ref, lost', Pending(c)')
      BY <2>1, <2>2, Untouched
    <2> QED
      BY <1>1, <2>2, <2>3
  <1>3. CASE P[t] # -1
    <2>1. Fit(c, P[t], g, lost, [P EXCEPT ![t] = -1]) /\ n <= P[t]
      BY <1>1, <1>3, FitStore
    <2> QED
      BY <1>3, <2>1
  <1> QED
    BY <1>2, <1>3

\* Transaction t is undone: the tokens of c it holds, if any, are lost.
LEMMA DropFits ==
    ASSUME TypeOK, SerialInv, NEW c \in Connections, NEW t \in Parties,
           UNCHANGED <<row, grant>>,
           Pending(c)' = [Pending(c) EXCEPT ![t] = -1],
           c \in lost' <=> c \in lost \/ (c \in Rotating /\ Pending(c)[t] # -1)
    PROVE  Fit(c, row'[c].ref, grant'[c].ref, lost', Pending(c)')
  <1> DEFINE n == row[c].ref
             g == grant[c].ref
             P == Pending(c)
  <1>1. /\ n \in Nat /\ g \in Nat /\ P \in [Parties -> Int] /\ Fit(c, n, g, lost, P)
    BY Serials, PendingType DEF SerialInv
  <1>2. CASE P[t] = -1
    <2>1. Pending(c)' = P
      BY <1>1, <1>2
    <2> QED
      BY <1>1, <1>2, <2>1, Untouched
  <1>3. CASE P[t] # -1
    <2>1. Fit(c, n, g, lost', [P EXCEPT ![t] = -1])
      BY <1>1, <1>3, FitDrop
    <2> QED
      BY <2>1
  <1> QED
    BY <1>2, <1>3

\* The step of a request that ends: what it held, and what it holds after.
LEMMA EndedRequest ==
    ASSUME TypeOK, NEW r \in Requests, EndRequest(r), NEW c \in Connections
    PROVE  Pending(c)' = [Pending(c) EXCEPT ![r] = -1]
  <1>1. /\ req'[r].change.op = "none"
        /\ \A s \in Requests : s # r => req'[s] = req[s]
    BY Nothing DEF EndRequest, TypeOK, Idle
  <1> QED
    BY <1>1, RequestPending DEF EndRequest

\* The same for a worker.
LEMMA EndedJob ==
    ASSUME TypeOK, NEW w \in Workers, EndJob(w), NEW c \in Connections
    PROVE  Pending(c)' = [Pending(c) EXCEPT ![w] = -1]
  <1>1. /\ job'[w].change[c].op = "none"
        /\ \A v \in Workers : v # w => job'[v] = job[v]
    BY Nothing DEF EndJob, TypeOK, IdleJob
  <1> QED
    BY <1>1, WorkerPending DEF EndJob

\* At first every vault holds the newest token of its provider.
LEMMA InitSerial == Init => SerialInv /\ SeenInv
  <1> SUFFICES ASSUME Init PROVE SerialInv /\ SeenInv
    OBVIOUS
  <1>1. PICK timed \in SUBSET Connections :
           row = [c \in Connections |-> [status |-> "active", detail |-> "", ref |-> 0,
                     expiry |-> IF c \in timed THEN "fresh" ELSE "never"]]
    BY DEF Init
  <1>2. \A c \in Connections : row[c].ref = 0 /\ grant[c].ref = 0 /\ c \notin lost
    BY <1>1 DEF Init
  <1>3. /\ \A r \in Requests : req[r].phase = "idle" /\ req[r].change = NoChange
        /\ \A w \in Workers, c \in Connections : job[w].change[c] = NoChange
    BY DEF Init, Idle, IdleJob
  <1>4. \A c \in Connections, t \in Parties : Pending(c)[t] = -1
    BY <1>3, Nothing, PendingOf DEF Parties
  <1> QED
    BY <1>2, <1>3, <1>4 DEF SerialInv, Fit, SeenInv

\* Every step keeps the serials fitting, and lets no stored serial run back.
LEMMA NextSerial ==
    ASSUME TypeOK, SessionInv, SerialInv, SeenInv, [Next]_vars
    PROVE  SerialInv' /\ \A c \in Connections : row[c].ref <= row'[c].ref
  <1> DEFINE NoneBack == \A c \in Connections : row[c].ref <= row'[c].ref
  <1>s. \A c \in Connections : row[c].ref \in Nat /\ grant[c].ref \in Nat
    BY Serials
  <1>1. ASSUME NEW r \in Requests, NEW c \in Connections, NEW k, NEW kind,
               Load(r, kind, k, c)
        PROVE  SerialInv' /\ NoneBack
    <2>1. /\ req[r].change.op = "none" /\ req'[r].change.op = "none"
          /\ \A s \in Requests : s # r => req'[s] = req[s]
      BY <1>1, Nothing DEF Load, TypeOK, Idle, SessionInv, ReqInv
    <2> QED
      BY <1>1, <1>s, <2>1, QuietRequest DEF Load
  <1>2. ASSUME NEW r \in Requests, Serve(r) PROVE SerialInv' /\ NoneBack
    <2>1. /\ req[r].change.op = "none" /\ req'[r].change.op = "none"
          /\ \A s \in Requests : s # r => req'[s] = req[s]
      BY <1>2, Nothing DEF Serve, TypeOK, Idle, SessionInv, ReqInv
    <2> QED
      BY <1>2, <1>s, <2>1, QuietRequest DEF Serve
  <1>3. ASSUME NEW r \in Requests, NoRefreshToken(r) PROVE SerialInv' /\ NoneBack
    <2>1. req[r].change.op = "none"
      BY <1>3 DEF NoRefreshToken, MustRefresh, SessionInv, ReqInv
    <2>2. /\ req'[r].change = SetStatus("expired", "noRefreshToken")
          /\ \A s \in Requests : s # r => req'[s] = req[s]
      BY <1>3, AnsweredParts DEF NoRefreshToken
    <2>3. req'[r].change.op = "expired"
      BY <2>2 DEF SetStatus
    <2> QED
      BY <1>3, <1>s, <2>1, <2>2, <2>3, QuietRequest DEF NoRefreshToken
  <1>4. ASSUME NEW r \in Requests, CallRefresh(r) PROVE SerialInv' /\ NoneBack
    <2>a. req[r].conn \in Connections /\ req[r].seen.ref \in Nat
      BY <1>4 DEF CallRefresh, MustRefresh, SessionInv, ReqInv, TypeOK, Request, Row
    <2>b. PICK c \in Connections : c = req[r].conn
      BY <2>a
    <2>c. PICK shown \in Nat : shown = req[r].seen.ref
      BY <2>a
    <2>1. PICK p \in Outcomes(c) : ProviderRefresh(c, shown, p) /\ Answered(r, p)
      BY <1>4, <2>b, <2>c DEF CallRefresh, Outcomes
    <2>2. /\ req[r].change.op = "none" /\ UNCHANGED <<row, job>>
          /\ shown <= row[c].ref
      BY <1>4, <2>b, <2>c DEF CallRefresh, MustRefresh, SessionInv, ReqInv, SeenInv
    <2>3. /\ req'[r].change = p /\ req'[r].conn = c
          /\ \A s \in Requests : s # r => req'[s] = req[s]
      BY <2>1, <2>b, AnsweredParts
    <2>4. \A d \in Connections : Pending(d)[r] = -1
      BY <2>2, PendingOf
    <2>5. \A d \in Connections : Pending(d)' = [Pending(d) EXCEPT ![r] =
             IF c = d /\ p.op = "tokens" THEN p.ref ELSE -1]
      BY <2>2, <2>3, RequestPending
    <2>6. Pending(c)' = [Pending(c) EXCEPT ![r] = IF p.op = "tokens" THEN p.ref ELSE -1]
      BY <2>2, <2>5
    <2>7. \A d \in Connections : d # c => Pending(d)' = Pending(d)
      <3> SUFFICES ASSUME NEW d \in Connections, d # c PROVE Pending(d)' = Pending(d)
        OBVIOUS
      <3>1. Pending(d)' = [Pending(d) EXCEPT ![r] = Pending(d)[r]]
        BY <2>4, <2>5
      <3> QED
        BY <3>1 DEF Pending
    <2>8. r \in Parties
      BY DEF Parties
    <2>9. SerialInv'
      BY <2>1, <2>2, <2>4, <2>6, <2>7, <2>8, CallFits
    <2> QED
      BY <1>s, <2>2, <2>9
  <1>5. ASSUME NEW r \in Requests, CallRevoke(r) PROVE SerialInv' /\ NoneBack
    <2>1. req[r].change.op = "none" /\ UNCHANGED <<row, job, lost>>
      BY <1>5 DEF CallRevoke, SessionInv, ReqInv
    <2>2. \A c \in Connections : grant'[c].ref = grant[c].ref
      <3>1. PICK live \in {grant[req[r].conn].live, FALSE} :
               grant' = [grant EXCEPT ![req[r].conn].live = live]
        BY <1>5 DEF CallRevoke
      <3> QED
        BY <3>1 DEF TypeOK, Grant
    <2>3. /\ req'[r].change.op # "tokens"
          /\ \A s \in Requests : s # r => req'[s] = req[s]
      <3>1. CASE req[r].seen.status = "revoked"
        <4>1. req' = [req EXCEPT ![r] = Idle]
          BY <1>5, <3>1 DEF CallRevoke
        <4> QED
          BY <4>1, Nothing DEF TypeOK, Idle
      <3>2. CASE req[r].seen.status # "revoked"
        <4>1. Answered(r, SetStatus("revoked", ""))
          BY <1>5, <3>2 DEF CallRevoke
        <4>2. /\ req'[r].change = SetStatus("revoked", "")
              /\ \A s \in Requests : s # r => req'[s] = req[s]
          BY <4>1, AnsweredParts
        <4>3. req'[r].change.op = "revoked"
          <5>1. SetStatus("revoked", "").op = "revoked"
            BY DEF SetStatus
          <5> QED
            BY <4>2, <5>1
        <4> QED
          BY <4>2, <4>3
      <3> QED
        BY <3>1, <3>2
    <2> QED
      BY <1>s, <2>1, <2>2, <2>3, QuietRequest
  <1>6. ASSUME NEW r \in Requests, Flush(r) PROVE SerialInv' /\ NoneBack
    <2>1. /\ req'[r].conn = req[r].conn /\ req'[r].change = req[r].change
          /\ \A s \in Requests : s # r => req'[s] = req[s]
      BY <1>6 DEF Flush, TypeOK, Request
    <2> QED
      BY <1>6, <1>s, <2>1, QuietRequest DEF Flush
  <1>7. ASSUME NEW r \in Requests, Commit(r) PROVE SerialInv' /\ NoneBack
    <2> DEFINE c == req[r].conn
    <2>1. c \in Connections /\ req[r].change \in Changes /\ EndRequest(r)
      BY <1>7 DEF Commit, SessionInv, ReqInv, TypeOK, Request
    <2>2. /\ row'[c] = Updated(c, req[r].change)
          /\ \A d \in Connections : d # c => row'[d] = row[d]
          /\ UNCHANGED <<grant, lost>>
      BY <1>7, <2>1 DEF Commit, EndRequest, TypeOK
    <2>3. \A d \in Connections : Pending(d)' = [Pending(d) EXCEPT ![r] = -1]
      BY <2>1, EndedRequest
    <2>4. ASSUME NEW d \in Connections
          PROVE  /\ Fit(d, row'[d].ref, grant'[d].ref, lost', Pending(d)')
                 /\ row[d].ref <= row'[d].ref
      <3>1. row'[d].ref = IF Pending(d)[r] # -1 THEN Pending(d)[r] ELSE row[d].ref
        <4>1. CASE d = c
          <5>1. Pending(c)[r] =
                   IF req[r].change.op = "tokens" THEN req[r].change.ref ELSE -1
            BY <2>1, PendingOf
          <5>2. row'[c].ref = IF req[r].change.op = "tokens" THEN req[r].change.ref
                                                           ELSE row[c].ref
            BY <2>1, <2>2, UpdatedParts
          <5>3. req[r].change.ref \in Nat
            BY <2>1 DEF Changes
          <5> QED
            BY <4>1, <5>1, <5>2, <5>3
        <4>2. CASE d # c
          BY <2>2, <4>2, PendingOf
        <4> QED
          BY <4>1, <4>2
      <3>2. r \in Parties
        BY DEF Parties
      <3> QED
        BY <2>2, <2>3, <3>1, <3>2, StoreFits
    <2> QED
      BY <2>4 DEF SerialInv
  <1>8. ASSUME NEW r \in Requests, Raise(r) PROVE SerialInv' /\ NoneBack
    <2>1. EndRequest(r) /\ UNCHANGED <<row, grant, job, lost>>
      BY <1>8 DEF Raise, EndRequest
    <2>2. /\ req'[r].change.op = "none"
          /\ \A s \in Requests : s # r => req'[s] = req[s]
      BY <2>1, Nothing DEF EndRequest, TypeOK, Idle
    <2>3. req[r].change.op # "tokens"
      BY <1>8 DEF Raise, Raises
    <2> QED
      BY <1>s, <2>1, <2>2, <2>3, QuietRequest
  <1>9. ASSUME NEW r \in Requests, Abort(r) PROVE SerialInv' /\ NoneBack
    <2>1. EndRequest(r) /\ UNCHANGED <<row, grant>>
      BY <1>9 DEF Abort, EndRequest
    <2>2. \A d \in Connections : Pending(d)' = [Pending(d) EXCEPT ![r] = -1]
      BY <2>1, EndedRequest
    <2>3. ASSUME NEW d \in Connections
          PROVE  Fit(d, row'[d].ref, grant'[d].ref, lost', Pending(d)')
      <3>1. Pending(d)[r] = IF req[r].conn = d /\ req[r].change.op = "tokens"
                            THEN req[r].change.ref ELSE -1
        BY PendingOf
      <3>2. req[r].change.ref \in Nat
        BY DEF TypeOK, Request, Changes
      <3>3. d \in lost' <=> d \in lost \/ (d \in Rotating /\ Pending(d)[r] # -1)
        BY <1>9, <3>1, <3>2 DEF Abort
      <3>4. r \in Parties
        BY DEF Parties
      <3> QED
        BY <2>1, <2>2, <3>3, <3>4, DropFits
    <2> QED
      BY <1>s, <2>1, <2>3 DEF SerialInv
  <1>10. ASSUME NEW w \in Workers, SelectBatch(w) PROVE SerialInv' /\ NoneBack
    <2>1. PICK S \in SUBSET Selectable :
             job' = [job EXCEPT ![w] = [IdleJob EXCEPT !.batch = S, !.todo = S]]
      BY <1>10 DEF SelectBatch
    <2>2. /\ \A v \in Workers : v # w => job'[v] = job[v]
          /\ \A c \in Connections : job'[w].change[c].op = "none"
      BY <2>1, Nothing DEF TypeOK, IdleJob
    <2>3. \A c \in Connections : job[w].change[c].op = "none"
      <3>1. Tidy(job[w]) /\ job[w].batch = {}
        BY <1>10 DEF SessionInv, JobInv, SelectBatch
      <3> QED
        BY <3>1 DEF Tidy
    <2> QED
      BY <1>10, <1>s, <2>2, <2>3, QuietWorker DEF SelectBatch
  <1>11. ASSUME NEW w \in Workers, NEW c \in Connections, RefreshOne(w, c)
         PROVE  SerialInv' /\ NoneBack
    <2>1. PICK p \in Outcomes(c) :
             /\ ProviderRefresh(c, row[c].ref, p)
             /\ job' = [job EXCEPT ![w].todo = @ \ {c}, ![w].change[c] = p]
      BY <1>11 DEF RefreshOne, Outcomes
    <2>2. c \in job[w].todo /\ UNCHANGED <<row, req>>
      BY <1>11 DEF RefreshOne
    <2>3. /\ \A d \in Connections :
                job'[w].change[d] = IF d = c THEN p ELSE job[w].change[d]
          /\ \A v \in Workers : v # w => job'[v] = job[v]
      BY <2>1 DEF TypeOK, Job
    <2>4. Pending(c)[w] = -1
      <3>1. Tidy(job[w])
        BY DEF SessionInv, JobInv
      <3>2. job[w].change[c].op = "none"
        BY <2>2, <3>1 DEF Tidy
      <3> QED
        BY <3>2, PendingOf
    <2>5. \A d \in Connections : Pending(d)' = [Pending(d) EXCEPT ![w] =
             IF job'[w].change[d].op = "tokens" THEN job'[w].change[d].ref ELSE -1]
      BY <2>2, <2>3, WorkerPending
    <2>6. Pending(c)' = [Pending(c) EXCEPT ![w] = IF p.op = "tokens" THEN p.ref ELSE -1]
      BY <2>3, <2>5
    <2>7. \A d \in Connections : d # c => Pending(d)' = Pending(d)
      <3> SUFFICES ASSUME NEW d \in Connections, d # c PROVE Pending(d)' = Pending(d)
        OBVIOUS
      <3>1. Pending(d)' = [Pending(d) EXCEPT ![w] = Pending(d)[w]]
        BY <2>3, <2>5, PendingOf
      <3> QED
        BY <3>1 DEF Pending
    <2>8. w \in Parties
      BY DEF Parties
    <2>9. SerialInv'
      BY <1>s, <2>1, <2>2, <2>4, <2>6, <2>7, <2>8, CallFits
    <2> QED
      BY <1>s, <2>2, <2>9
  <1>12. ASSUME NEW w \in Workers, NEW c \in Connections, SkipOne(w, c)
         PROVE  SerialInv' /\ NoneBack
    <2>1. /\ job'[w].change = job[w].change
          /\ \A v \in Workers : v # w => job'[v] = job[v]
      BY <1>12 DEF SkipOne, TypeOK, Job
    <2> QED
      BY <1>12, <1>s, <2>1, QuietWorker DEF SkipOne
  <1>13. ASSUME NEW w \in Workers, CommitBatch(w) PROVE SerialInv' /\ NoneBack
    <2>1. EndJob(w) /\ UNCHANGED <<grant, lost>>
      BY <1>13 DEF CommitBatch, EndJob
    <2>2. \A d \in Connections : Pending(d)' = [Pending(d) EXCEPT ![w] = -1]
      BY <2>1, EndedJob
    <2>3. ASSUME NEW d \in Connections
          PROVE  /\ Fit(d, row'[d].ref, grant'[d].ref, lost', Pending(d)')
                 /\ row[d].ref <= row'[d].ref
      <3>1. job[w].change[d] \in Changes
        BY DEF TypeOK, Job
      <3>2. Pending(d)[w] =
               IF job[w].change[d].op = "tokens" THEN job[w].change[d].ref ELSE -1
        BY PendingOf
      <3>3. row'[d] = IF d \in job[w].batch THEN Updated(d, job[w].change[d]) ELSE row[d]
        BY <1>13 DEF CommitBatch
      <3>4. d \notin job[w].batch => job[w].change[d].op = "none"
        <4>1. Tidy(job[w])
          BY DEF SessionInv, JobInv
        <4> QED
          BY <4>1 DEF Tidy
      <3>5. Updated(d, job[w].change[d]).ref =
               IF job[w].change[d].op = "tokens" THEN job[w].change[d].ref ELSE row[d].ref
        BY <3>1, UpdatedParts
      <3>6. job[w].change[d].ref \in Nat
        BY <3>1 DEF Changes
      <3>7. row'[d].ref = IF Pending(d)[w] # -1 THEN Pending(d)[w] ELSE row[d].ref
        BY <3>2, <3>3, <3>4, <3>5, <3>6
      <3>8. w \in Parties
        BY DEF Parties
      <3> QED
        BY <2>1, <2>2, <3>7, <3>8, StoreFits
    <2> QED
      BY <2>3 DEF SerialInv
  <1>14. ASSUME NEW w \in Workers, CrashWorker(w) PROVE SerialInv' /\ NoneBack
    <2>1. EndJob(w) /\ UNCHANGED <<row, grant>>
      BY <1>14 DEF CrashWorker, EndJob
    <2>2. \A d \in Connections : Pending(d)' = [Pending(d) EXCEPT ![w] = -1]
      BY <2>1, EndedJob
    <2>3. ASSUME NEW d \in Connections
          PROVE  Fit(d, row'[d].ref, grant'[d].ref, lost', Pending(d)')
      <3>1. job[w].change[d].ref \in Nat
        <4>1. job[w].change[d] \in Changes
          BY DEF TypeOK, Job
        <4> QED
          BY <4>1 DEF Changes
      <3>2. Pending(d)[w] =
               IF job[w].change[d].op = "tokens" THEN job[w].change[d].ref ELSE -1
        BY PendingOf
      <3>3. d \in lost' <=> d \in lost \/ (d \in Rotating /\ Pending(d)[w] # -1)
        BY <1>14, <3>1, <3>2 DEF CrashWorker
      <3>4. w \in Parties
        BY DEF Parties
      <3> QED
        BY <2>1, <2>2, <3>3, <3>4, DropFits
    <2> QED
      BY <1>s, <2>1, <2>3 DEF SerialInv
  <1>15. ASSUME UNCHANGED <<req, job, lost>>,
                \A d \in Connections : /\ row'[d].ref = row[d].ref
                                       /\ grant'[d].ref = grant[d].ref
         PROVE  SerialInv' /\ NoneBack
    <2>1. \A d \in Connections : Pending(d)' = Pending(d)
      BY <1>15 DEF Pending
    <2>2. \A d \in Connections : Fit(d, row'[d].ref, grant'[d].ref, lost', Pending(d)')
      BY <1>15, <2>1, Untouched
    <2> QED
      BY <1>s, <1>15, <2>2 DEF SerialInv
  <1>16. ASSUME NEW c \in Connections, WithdrawGrant(c) \/ Elapse(c)
         PROVE  SerialInv' /\ NoneBack
    <2>1. \A d \in Connections : row'[d].ref = row[d].ref /\ grant'[d].ref = grant[d].ref
      <3>1. CASE WithdrawGrant(c)
        BY <3>1 DEF WithdrawGrant, TypeOK, Grant
      <3>2. CASE Elapse(c)
        BY <3>2 DEF Elapse, TypeOK, Row
      <3> QED
        BY <1>16, <3>1, <3>2
    <2> QED
      BY <1>15, <1>16, <2>1 DEF WithdrawGrant, Elapse
  <1>17. CASE UNCHANGED vars
    BY <1>15, <1>17 DEF vars
  <1> QED
    BY <1>1, <1>2, <1>3, <1>4, <1>5, <1>6, <1>7, <1>8, <1>9, <1>10, <1>11, <1>12,
       <1>13, <1>14, <1>16, <1>17
    DEF Next, StartRequest, StartGet, StartForce, StartRevoke, RequestStep, WorkerStep,
        Environment

\* What a request has read stays no newer than what is stored: nothing runs back.
LEMMA NextSeen ==
    ASSUME TypeOK, TypeOK', SessionInv, SessionInv', SerialInv, SeenInv, [Next]_vars
    PROVE  SeenInv'
  <1>1. \A c \in Connections : row[c].ref <= row'[c].ref
    BY NextSerial
  <1>2. \A r \in Requests : req'[r].phase = "loaded" =>
           \/ req'[r] = req[r]
           \/ req'[r].seen.ref <= row'[req'[r].conn].ref
    <2>1. ASSUME NEW q \in Requests, NEW c \in Connections, NEW k, NEW kind,
                 Load(q, kind, k, c), NEW r \in Requests
          PROVE  req'[r] = req[r] \/ req'[r].seen.ref <= row'[req'[r].conn].ref
      <3>1. CASE r # q
        BY <2>1, <3>1 DEF Load, TypeOK
      <3>2. CASE r = q
        <4>1. req'[q].seen = row[c] /\ req'[q].conn = c /\ row' = row
          BY <2>1 DEF Load, TypeOK, Idle
        <4>2. row[c].ref \in Nat
          BY Serials
        <4> QED
          BY <3>2, <4>1, <4>2
      <3> QED
        BY <3>1, <3>2
    <2>2. ASSUME NEW q \in Requests, NEW r \in Requests,
                 \/ \E x : req' = [req EXCEPT ![q] = x] /\ x.phase # "loaded"
                 \/ req' = req
          PROVE  req'[r].phase = "loaded" => req'[r] = req[r]
      BY <2>2 DEF TypeOK
    <2>3. ASSUME NEW q \in Requests,
                 \/ Serve(q) \/ NoRefreshToken(q) \/ CallRefresh(q) \/ CallRevoke(q)
                 \/ Commit(q) \/ Raise(q) \/ Flush(q) \/ Abort(q)
          PROVE  \E x : req' = [req EXCEPT ![q] = x] /\ x.phase # "loaded"
      <3>1. Idle.phase = "idle"
        BY DEF Idle
      <3>2. ASSUME req' = [req EXCEPT ![q] = Idle]
            PROVE  \E x : req' = [req EXCEPT ![q] = x] /\ x.phase # "loaded"
        BY <3>1, <3>2
      <3>3. ASSUME NEW p, Answered(q, p)
            PROVE  \E x : req' = [req EXCEPT ![q] = x] /\ x.phase # "loaded"
        <4> DEFINE y == [req[q] EXCEPT !.phase = "answered", !.change = p]
        <4>1. req' = [req EXCEPT ![q] = y] /\ y.phase = "answered"
          BY <3>3 DEF Answered, TypeOK, Request
        <4> QED
          BY <4>1
      <3>4. ASSUME Flush(q)
            PROVE  \E x : req' = [req EXCEPT ![q] = x] /\ x.phase # "loaded"
        <4> DEFINE y == [req[q] EXCEPT !.phase = "flushed"]
        <4>1. req' = [req EXCEPT ![q] = y] /\ y.phase = "flushed"
          BY <3>4 DEF Flush, TypeOK, Request
        <4> QED
          BY <4>1
      <3> QED
        BY <2>3, <3>2, <3>3, <3>4
        DEF Serve, NoRefreshToken, CallRefresh, CallRevoke, Commit, Raise, Abort, EndRequest
    <2>4. ASSUME NEW w \in Workers,
                 \/ SelectBatch(w) \/ CommitBatch(w) \/ CrashWorker(w)
                 \/ \E c \in Connections : RefreshOne(w, c) \/ SkipOne(w, c)
          PROVE  req' = req
      BY <2>4 DEF SelectBatch, CommitBatch, CrashWorker, EndJob, RefreshOne, SkipOne
    <2>5. ASSUME Environment \/ UNCHANGED vars PROVE req' = req
      BY <2>5 DEF Environment, WithdrawGrant, Elapse, vars
    <2> QED
      BY <2>1, <2>2, <2>3, <2>4, <2>5
      DEF Next, StartRequest, StartGet, StartForce, StartRevoke, RequestStep, WorkerStep
  <1> QED
    BY <1>1, <1>2, SeenFrame

-----------------------------------------------------------------------------
\* A step after which every refusal still has one of its reasons.
LEMMA RefusalMoves ==
    ASSUME RefusalInv,
           \A w \in Workers, c \in Connections :
              job'[w].change[c].detail = "refused" => job[w].change[c].detail = "refused",
           \A c \in Connections : ~grant[c].live => ~grant'[c].live,
           lost \subseteq lost',
           \A r \in Requests, c \in Connections, w \in Workers :
              Carries(r, c) /\ job'[w].change[c].detail = "refused" =>
                 \/ req'[r].conn = c /\ req'[r].change.op = "tokens"
                 \/ c \in lost'
    PROVE  RefusalInv'
  <1> SUFFICES ASSUME NEW w \in Workers, NEW c \in Connections,
                      job'[w].change[c].detail = "refused", grant'[c].live, c \notin lost'
               PROVE  \E r \in Requests :
                         c \in Rotating /\ req'[r].conn = c /\ req'[r].change.op = "tokens"
    BY DEF RefusalInv, Carries
  <1>1. PICK r \in Requests : Carries(r, c)
    BY DEF RefusalInv
  <1> QED
    BY <1>1 DEF Carries

\* A step of one request that does not undo or store what it carries.
LEMMA RefusalQuiet ==
    ASSUME RefusalInv, NEW r \in Requests, UNCHANGED <<job, lost>>,
           \A c \in Connections : ~grant[c].live => ~grant'[c].live,
           \A s \in Requests : s # r => req'[s] = req[s],
           \/ req[r].change.op # "tokens"
           \/ req'[r].change = req[r].change /\ req'[r].conn = req[r].conn
    PROVE  RefusalInv'
  <1>1. ASSUME NEW s \in Requests, NEW c \in Connections, Carries(s, c)
        PROVE  req'[s].conn = c /\ req'[s].change.op = "tokens"
    BY <1>1 DEF Carries
  <1> QED
    BY <1>1, RefusalMoves

\* A worker is refused only when the grant is withdrawn, the pair is lost, or a
\* request holds the newer pair: the locks keep the other workers out.
LEMMA WhyRefused ==
    ASSUME TypeOK, SessionInv, SerialInv, NEW w \in Workers, NEW c \in Connections,
           c \in job[w].todo, ~Accepts(c, row[c].ref)
    PROVE  \/ ~grant[c].live
           \/ c \in lost
           \/ \E r \in Requests : Carries(r, c)
  <1> SUFFICES ASSUME row[c].ref # grant[c].ref, c \notin lost
               PROVE  \E r \in Requests : Carries(r, c)
    BY DEF Accepts
  <1>1. Fit(c, row[c].ref, grant[c].ref, lost, Pending(c)) /\ grant[c].ref \in Nat
    BY Serials DEF SerialInv
  <1>2. c \in Rotating
    BY <1>1 DEF Fit
  <1>3. PICK t \in Parties : Pending(c)[t] = grant[c].ref
    BY <1>1, <1>2 DEF Fit
  <1>4. \A v \in Workers : Tidy(job[v])
    BY DEF SessionInv, JobInv
  <1>5. CASE t \in Workers
    <2>1. job[t].change[c].op = "tokens"
      BY <1>1, <1>3, <1>5, PendingOf
    <2>2. c \in job[t].batch /\ c \notin job[t].todo
      BY <1>4, <1>5, <2>1 DEF Tidy
    <2>3. c \in job[w].batch
      BY <1>4 DEF Tidy
    <2>4. t = w
      BY <1>5, <2>2, <2>3 DEF SessionInv, LockInv
    <2> QED
      BY <2>2, <2>4
  <1>6. CASE t \in Requests
    <2>1. req[t].conn = c /\ req[t].change.op = "tokens"
      BY <1>1, <1>3, <1>6, PendingOf
    <2> QED
      BY <1>2, <1>6, <2>1 DEF Carries
  <1> QED
    BY <1>5, <1>6 DEF Parties

\* Every step keeps a reason for each refusal a worker holds.
LEMMA NextRefusal ==
    ASSUME TypeOK, SessionInv, SerialInv, SeenInv, RefusalInv, [Next]_vars
    PROVE  RefusalInv'
  <1>1. ASSUME NEW r \in Requests, NEW c \in Connections, NEW k, NEW kind,
               Load(r, kind, k, c)
        PROVE  RefusalInv'
    <2>1. /\ req[r].change.op = "none"
          /\ \A s \in Requests : s # r => req'[s] = req[s]
      BY <1>1 DEF Load, TypeOK, SessionInv, ReqInv
    <2> QED
      BY <1>1, <2>1, RefusalQuiet DEF Load
  <1>2. ASSUME NEW r \in Requests, Serve(r) PROVE RefusalInv'
    <2>1. /\ req[r].change.op = "none"
          /\ \A s \in Requests : s # r => req'[s] = req[s]
      BY <1>2 DEF Serve, TypeOK, SessionInv, ReqInv
    <2> QED
      BY <1>2, <2>1, RefusalQuiet DEF Serve
  <1>3. ASSUME NEW r \in Requests, NoRefreshToken(r) PROVE RefusalInv'
    <2>1. /\ req[r].change.op = "none" /\ UNCHANGED <<job, grant, lost>>
      BY <1>3 DEF NoRefreshToken, MustRefresh, SessionInv, ReqInv
    <2>2. \A s \in Requests : s # r => req'[s] = req[s]
      BY <1>3, AnsweredParts DEF NoRefreshToken
    <2> QED
      BY <2>1, <2>2, RefusalQuiet
  <1>4. ASSUME NEW r \in Requests, CallRefresh(r) PROVE RefusalInv'
    <2>1. req[r].conn \in Connections /\ req[r].seen.ref \in Nat
      BY <1>4 DEF CallRefresh, MustRefresh, SessionInv, ReqInv, TypeOK, Request, Row
    <2>2. PICK c \in Connections : c = req[r].conn
      BY <2>1
    <2>3. PICK shown \in Nat : shown = req[r].seen.ref
      BY <2>1
    <2>4. PICK p \in Outcomes(c) : ProviderRefresh(c, shown, p) /\ Answered(r, p)
      BY <1>4, <2>2, <2>3 DEF CallRefresh, Outcomes
    <2>5. /\ \A d \in Connections : grant'[d].live = grant[d].live
          /\ lost \subseteq lost'
      BY <2>4, ProviderCall
    <2>6. req[r].change.op = "none" /\ UNCHANGED job
      BY <1>4 DEF CallRefresh, MustRefresh, SessionInv, ReqInv
    <2>7. \A s \in Requests : s # r => req'[s] = req[s]
      BY <2>4, AnsweredParts
    <2>8. ASSUME NEW s \in Requests, NEW d \in Connections, Carries(s, d)
          PROVE  req'[s].conn = d /\ req'[s].change.op = "tokens"
      BY <2>6, <2>7, <2>8 DEF Carries
    <2> QED
      BY <2>5, <2>6, <2>8, RefusalMoves
  <1>5. ASSUME NEW r \in Requests, CallRevoke(r) PROVE RefusalInv'
    <2>1. req[r].change.op = "none" /\ UNCHANGED <<job, lost>>
      BY <1>5 DEF CallRevoke, SessionInv, ReqInv
    <2>2. \A c \in Connections : ~grant[c].live => ~grant'[c].live
      <3>1. PICK live \in {grant[req[r].conn].live, FALSE} :
               grant' = [grant EXCEPT ![req[r].conn].live = live]
        BY <1>5 DEF CallRevoke
      <3>2. \A c \in Connections : c # req[r].conn => grant'[c] = grant[c]
        BY <3>1 DEF TypeOK
      <3>3. req[r].conn \in Connections => grant'[req[r].conn].live = live
        BY <3>1 DEF TypeOK, Grant
      <3> QED
        BY <3>1, <3>2, <3>3
    <2>3. \A s \in Requests : s # r => req'[s] = req[s]
      <3>1. CASE req[r].seen.status = "revoked"
        BY <1>5, <3>1 DEF CallRevoke, TypeOK
      <3>2. CASE req[r].seen.status # "revoked"
        <4>1. Answered(r, SetStatus("revoked", ""))
          BY <1>5, <3>2 DEF CallRevoke
        <4> QED
          BY <4>1, AnsweredParts
      <3> QED
        BY <3>1, <3>2
    <2> QED
      BY <2>1, <2>2, <2>3, RefusalQuiet
  <1>6. ASSUME NEW r \in Requests, Flush(r) PROVE RefusalInv'
    <2>1. /\ req'[r].conn = req[r].conn /\ req'[r].change = req[r].change
          /\ \A s \in Requests : s # r => req'[s] = req[s]
      BY <1>6 DEF Flush, TypeOK, Request
    <2> QED
      BY <1>6, <2>1, RefusalQuiet DEF Flush
  <1>7. ASSUME NEW r \in Requests, Commit(r) PROVE RefusalInv'
    <2>1. EndRequest(r) /\ UNCHANGED <<grant, job, lost>>
      BY <1>7 DEF Commit, EndRequest
    <2>2. \A s \in Requests : s # r => req'[s] = req[s]
      BY <2>1 DEF EndRequest, TypeOK
    <2>3. ASSUME NEW s \in Requests, NEW c \in Connections, NEW w \in Workers,
                 Carries(s, c), job[w].change[c].detail = "refused"
          PROVE  req'[s].conn = c /\ req'[s].change.op = "tokens"
      <3>1. CASE s # r
        BY <2>2, <2>3, <3>1 DEF Carries
      <3>2. CASE s = r
        <4>1. holder[c] = r
          BY <1>7, <2>3, <3>2 DEF Commit, Carries, SessionInv, LockInv
        <4>2. Tidy(job[w])
          BY DEF SessionInv, JobInv
        <4>3. job[w].change[c].op # "none"
          BY <2>3, <4>2 DEF Tidy
        <4>4. holder[c] = w
          BY <4>2, <4>3 DEF Tidy, SessionInv, LockInv
        <4> QED
          BY <4>1, <4>4, ConstantsAssumption
      <3> QED
        BY <3>1, <3>2
    <2> QED
      BY <2>1, <2>3, RefusalMoves
  <1>8. ASSUME NEW r \in Requests, Raise(r) PROVE RefusalInv'
    <2>1. EndRequest(r) /\ UNCHANGED <<grant, job, lost>>
      BY <1>8 DEF Raise, EndRequest
    <2>2. \A s \in Requests : s # r => req'[s] = req[s]
      BY <2>1 DEF EndRequest, TypeOK
    <2>3. req[r].change.op # "tokens"
      BY <1>8 DEF Raise, Raises
    <2> QED
      BY <2>1, <2>2, <2>3, RefusalQuiet
  <1>9. ASSUME NEW r \in Requests, Abort(r) PROVE RefusalInv'
    <2>1. EndRequest(r) /\ UNCHANGED <<grant, job>> /\ lost \subseteq lost'
      BY <1>9 DEF Abort, EndRequest
    <2>2. \A s \in Requests : s # r => req'[s] = req[s]
      BY <2>1 DEF EndRequest, TypeOK
    <2>3. ASSUME NEW s \in Requests, NEW c \in Connections, Carries(s, c)
          PROVE  \/ req'[s].conn = c /\ req'[s].change.op = "tokens"
                 \/ c \in lost'
      <3>1. CASE s # r
        BY <2>2, <2>3, <3>1 DEF Carries
      <3>2. CASE s = r
        BY <1>9, <2>3, <3>2 DEF Abort, Carries
      <3> QED
        BY <3>1, <3>2
    <2> QED
      BY <2>1, <2>3, RefusalMoves
  <1>10. ASSUME NEW w \in Workers, UNCHANGED <<grant, req>>, lost \subseteq lost',
                \A v \in Workers : v # w => job'[v] = job[v],
                \A c \in Connections : \/ job'[w].change[c] = job[w].change[c]
                                       \/ job'[w].change[c] = NoChange
         PROVE  RefusalInv'
    <2>1. ASSUME NEW v \in Workers, NEW c \in Connections,
                 job'[v].change[c].detail = "refused"
          PROVE  job[v].change[c].detail = "refused"
      BY <1>10, <2>1, Nothing
    <2>2. ASSUME NEW s \in Requests, NEW d \in Connections, Carries(s, d)
          PROVE  req'[s].conn = d /\ req'[s].change.op = "tokens"
      BY <1>10, <2>2 DEF Carries
    <2> QED
      BY <1>10, <2>1, <2>2, RefusalMoves
  <1>11. ASSUME NEW w \in Workers, SelectBatch(w) PROVE RefusalInv'
    <2>1. PICK S \in SUBSET Selectable :
             job' = [job EXCEPT ![w] = [IdleJob EXCEPT !.batch = S, !.todo = S]]
      BY <1>11 DEF SelectBatch
    <2>2. /\ \A v \in Workers : v # w => job'[v] = job[v]
          /\ \A c \in Connections : job'[w].change[c] = NoChange
      BY <2>1 DEF TypeOK, IdleJob
    <2> QED
      BY <1>10, <1>11, <2>2 DEF SelectBatch
  <1>12. ASSUME NEW w \in Workers, NEW c \in Connections, SkipOne(w, c)
         PROVE  RefusalInv'
    <2>1. /\ job'[w].change = job[w].change
          /\ \A v \in Workers : v # w => job'[v] = job[v]
      BY <1>12 DEF SkipOne, TypeOK, Job
    <2> QED
      BY <1>10, <1>12, <2>1 DEF SkipOne
  <1>13. ASSUME NEW w \in Workers, CommitBatch(w) \/ CrashWorker(w) PROVE RefusalInv'
    <2>1. EndJob(w) /\ UNCHANGED <<grant, req>> /\ lost \subseteq lost'
      BY <1>13 DEF CommitBatch, CrashWorker, EndJob
    <2>2. /\ \A v \in Workers : v # w => job'[v] = job[v]
          /\ \A c \in Connections : job'[w].change[c] = NoChange
      BY <2>1 DEF EndJob, TypeOK, IdleJob
    <2> QED
      BY <1>10, <2>1, <2>2
  <1>14. ASSUME NEW w \in Workers, NEW c \in Connections, RefreshOne(w, c)
         PROVE  RefusalInv'
    <2>1. PICK p \in Outcomes(c) :
             /\ ProviderRefresh(c, row[c].ref, p)
             /\ job' = [job EXCEPT ![w].todo = @ \ {c}, ![w].change[c] = p]
      BY <1>14 DEF RefreshOne, Outcomes
    <2>2. c \in job[w].todo /\ UNCHANGED <<row, req>> /\ row[c].ref \in Nat
      BY <1>14, Serials DEF RefreshOne
    <2>3. /\ \A d \in Connections :
                job'[w].change[d] = IF d = c THEN p ELSE job[w].change[d]
          /\ \A v \in Workers : v # w => job'[v] = job[v]
      BY <2>1 DEF TypeOK, Job
    <2>4. /\ \A d \in Connections : grant'[d].live = grant[d].live
          /\ lost \subseteq lost'
          /\ p.detail = "refused" => ~Accepts(c, row[c].ref)
      BY <2>1, <2>2, ProviderCall
    <2> SUFFICES ASSUME NEW v \in Workers, NEW d \in Connections,
                        job'[v].change[d].detail = "refused",
                        grant'[d].live, d \notin lost'
                 PROVE  \E r \in Requests : d \in Rotating /\ req'[r].conn = d
                                            /\ req'[r].change.op = "tokens"
      BY DEF RefusalInv, Carries
    <2>5. grant[d].live /\ d \notin lost
      BY <2>4
    <2>6. CASE v = w /\ d = c
      <3>1. PICK r \in Requests : Carries(r, d)
        BY <2>2, <2>3, <2>4, <2>5, <2>6, WhyRefused
      <3> QED
        BY <2>2, <3>1 DEF Carries
    <2>7. CASE ~(v = w /\ d = c)
      <3>1. job'[v].change[d] = job[v].change[d]
        BY <2>3, <2>7
      <3>2. PICK r \in Requests : Carries(r, d)
        BY <2>5, <3>1 DEF RefusalInv
      <3> QED
        BY <2>2, <3>2 DEF Carries
    <2> QED
      BY <2>6, <2>7
  <1>15. ASSUME UNCHANGED <<req, job, lost>>,
                \A c \in Connections : ~grant[c].live => ~grant'[c].live
         PROVE  RefusalInv'
    <2>1. ASSUME NEW s \in Requests, NEW d \in Connections, Carries(s, d)
          PROVE  req'[s].conn = d /\ req'[s].change.op = "tokens"
      BY <1>15, <2>1 DEF Carries
    <2> QED
      BY <1>15, <2>1, RefusalMoves
  <1>16. ASSUME NEW c \in Connections, WithdrawGrant(c) PROVE RefusalInv'
    <2>1. \A d \in Connections : ~grant[d].live => ~grant'[d].live
      BY <1>16 DEF WithdrawGrant, TypeOK, Grant
    <2> QED
      BY <1>15, <1>16, <2>1 DEF WithdrawGrant
  <1>17. ASSUME NEW c \in Connections, Elapse(c) PROVE RefusalInv'
    BY <1>15, <1>17 DEF Elapse
  <1>18. CASE UNCHANGED vars
    BY <1>15, <1>18 DEF vars
  <1> QED
    BY <1>1, <1>2, <1>3, <1>4, <1>5, <1>6, <1>7, <1>8, <1>9, <1>11, <1>12,
       <1>13, <1>14, <1>16, <1>17, <1>18
    DEF Next, StartRequest, StartGet, StartForce, StartRevoke, RequestStep, WorkerStep,
        Environment

-----------------------------------------------------------------------------
(***************************************************************************)
(* The theorems.                                                           *)
(***************************************************************************)
\* In every reachable state types, sessions, serials and refusals are as IInv says.
THEOREM Inductive == Spec => []IInv
  <1>1. Init => IInv
    <2> SUFFICES ASSUME Init PROVE IInv
      OBVIOUS
    <2>1. RefusalInv
      <3>1. \A w \in Workers, c \in Connections : job[w].change[c] = NoChange
        BY DEF Init, IdleJob
      <3> QED
        BY <3>1, Nothing DEF RefusalInv
    <2> QED
      BY <2>1, InitType, InitSession, InitSerial DEF IInv
  <1>2. IInv /\ [Next]_vars => IInv'
    BY NextType, NextSession, NextSerial, NextSeen, NextRefusal DEF IInv
  <1> QED
    BY <1>1, <1>2, PTL DEF Spec

\* The two ways of saying what a transaction holds unsaved agree.
LEMMA HoldsPending ==
    ASSUME TypeOK, NEW c \in Connections, NEW t \in Parties
    PROVE  /\ Holds(t, c) <=> Pending(c)[t] # -1
           /\ Holds(t, c) => Unsaved(t, c) = Pending(c)[t]
  <1>1. CASE t \in Requests
    <2>1. req[t].change.ref \in Nat
      BY <1>1 DEF TypeOK, Request, Changes
    <2>2. t \notin Workers
      BY <1>1, ConstantsAssumption
    <2> QED
      BY <1>1, <2>1, <2>2, PendingOf DEF Holds, Unsaved
  <1>2. CASE t \in Workers
    <2>1. job[t].change[c] \in Changes
      BY <1>2 DEF TypeOK, Job
    <2>2. job[t].change[c].ref \in Nat
      BY <2>1 DEF Changes
    <2>3. t \notin Requests
      BY <1>2, ConstantsAssumption
    <2> QED
      BY <1>2, <2>2, <2>3, PendingOf DEF Holds, Unsaved
  <1> QED
    BY <1>1, <1>2 DEF Parties

\* No interleaving of requests and workers loses a rotated pair: only a crash, a
\* rollback or a lost answer does.
THEOREM PairsAreKept == Spec => []NoPairVanishes
  <1>1. IInv => NoPairVanishes
    <2> SUFFICES ASSUME IInv, NEW c \in Rotating, row[c].ref # grant[c].ref, c \notin lost
                 PROVE  \E t \in Parties :
                           /\ Holds(t, c) /\ Unsaved(t, c) = grant[c].ref
                           /\ \A u \in Parties : Holds(u, c) => u = t
      BY DEF NoPairVanishes, Parties
    <2>1. c \in Connections /\ TypeOK
      BY ConstantsAssumption DEF IInv
    <2>2. Fit(c, row[c].ref, grant[c].ref, lost, Pending(c)) /\ grant[c].ref \in Nat
      BY <2>1, Serials DEF IInv, SerialInv
    <2>3. PICK t \in Parties : Pending(c)[t] = grant[c].ref
      BY <2>2 DEF Fit
    <2>4. \A u \in Parties : Pending(c)[u] # -1 => u = t
      BY <2>2, <2>3 DEF Fit
    <2>5. Holds(t, c) /\ Unsaved(t, c) = grant[c].ref
      BY <2>1, <2>2, <2>3, HoldsPending
    <2>6. \A u \in Parties : Holds(u, c) => u = t
      BY <2>1, <2>4, HoldsPending
    <2> QED
      BY <2>5, <2>6
  <1> QED
    BY <1>1, Inductive, PTL

\* A pair that got lost is never found again.
THEOREM LostForGood == Spec => []LostIsStranded
  <1>1. IInv => LostIsStranded
    BY ConstantsAssumption DEF IInv, TypeOK, SerialInv, Fit, LostIsStranded
  <1> QED
    BY <1>1, Inductive, PTL

\* A worker is refused for one of three reasons, and another worker is none.
THEOREM RefusalsExplained == Spec => []RefusalIsExplained
  <1>1. IInv => RefusalIsExplained
    <2> SUFFICES ASSUME IInv, NEW w \in Workers, NEW c \in job[w].batch,
                        job[w].change[c].detail = "refused", grant[c].live, c \notin lost
                 PROVE  \E r \in Requests : Holds(r, c)
      BY DEF RefusalIsExplained
    <2>1. c \in Connections
      BY DEF IInv, TypeOK, Job
    <2>2. PICK r \in Requests : Carries(r, c)
      BY <2>1 DEF IInv, RefusalInv
    <2> QED
      BY <2>2 DEF Carries, Holds
  <1> QED
    BY <1>1, Inductive, PTL

\* The refresh token that is stored never gives way to an older one.
THEOREM NeverBack == Spec => StoredNeverRunsBack
  <1>1. IInv /\ [Next]_vars =>
           [\A c \in Connections : row'[c].ref >= row[c].ref]_row
    <2> SUFFICES ASSUME IInv, [Next]_vars, NEW c \in Connections
                 PROVE  row'[c].ref >= row[c].ref
      OBVIOUS
    <2>1. TypeOK /\ TypeOK' /\ row[c].ref <= row'[c].ref
      BY NextType, NextSerial DEF IInv
    <2>2. row[c].ref \in Nat /\ row'[c].ref \in Nat
      BY <2>1 DEF TypeOK, Row
    <2> QED
      BY <2>1, <2>2
  <1> QED
    BY <1>1, Inductive, PTL DEF Spec, StoredNeverRunsBack

(***************************************************************************)
(* How the rows may change in a step: the four ways of the life cycle.     *)
(***************************************************************************)
RowStep(c) ==
    \/ row'[c].status = row[c].status /\ row'[c].ref = row[c].ref
    \/ row[c].status = "active" /\ row'[c].status = "error" /\ row'[c].ref = row[c].ref
    \/ row'[c].status = "revoked" /\ row'[c].ref = row[c].ref
    \/ row'[c].status = row[c].status /\ row[c].ref < row'[c].ref

\* A commit, of one row or of a batch, moves every row in one of four ways.
LEMMA CommitRows ==
    ASSUME TypeOK, SessionInv, SerialInv, SeenInv, [Next]_vars,
           \/ \E r \in Requests : Commit(r)
           \/ \E w \in Workers : CommitBatch(w)
    PROVE  \A c \in Connections : RowStep(c)
  <1> SUFFICES ASSUME NEW c \in Connections PROVE RowStep(c)
    OBVIOUS
  <1>1. row[c].ref \in Nat /\ row'[c].ref \in Nat /\ row[c].ref <= row'[c].ref
    <2>1. TypeOK' /\ row[c].ref <= row'[c].ref
      BY NextType, NextSerial
    <2> QED
      BY <2>1 DEF TypeOK, Row
  <1>2. ASSUME NEW p \in Changes, row'[c] = Updated(c, p),
               p.op \in {"none", "tokens", "revoked"} \/
                 (p.op = "error" /\ row[c].status = "active")
        PROVE  RowStep(c)
    <2>1. CASE p.op \in {"none", "tokens"}
      BY <1>1, <1>2, <2>1, UpdatedParts DEF RowStep
    <2>2. CASE p.op = "revoked"
      BY <1>2, <2>2, UpdatedParts DEF RowStep
    <2>3. CASE p.op = "error" /\ row[c].status = "active"
      BY <1>2, <2>3, UpdatedParts DEF RowStep
    <2> QED
      BY <1>2, <2>1, <2>2, <2>3
  <1>3. ASSUME NEW r \in Requests, Commit(r) PROVE RowStep(c)
    <2>1. CASE c = req[r].conn
      <3>1. req[r].change \in Changes /\ row'[c] = Updated(c, req[r].change)
        BY <1>3, <2>1 DEF Commit, TypeOK, Request
      <3>2. req[r].change.op \in {"none", "tokens", "revoked"}
        BY <1>3, <3>1 DEF Commit, Raises, Changes
      <3>3. PICK p \in Changes : p = req[r].change
        BY <3>1
      <3> QED
        BY <1>2, <3>1, <3>2, <3>3
    <2>2. CASE c # req[r].conn
      BY <1>3, <2>2 DEF Commit, TypeOK, RowStep
    <2> QED
      BY <2>1, <2>2
  <1>4. ASSUME NEW w \in Workers, CommitBatch(w) PROVE RowStep(c)
    <2>1. CASE c \in job[w].batch
      <3>1. job[w].change[c] \in Changes
        BY DEF TypeOK, Job
      <3>2. row'[c] = Updated(c, job[w].change[c]) /\ row[c].status = "active"
        BY <1>4, <2>1 DEF CommitBatch, SessionInv, StatusInv
      <3>3. Tidy(job[w])
        BY DEF SessionInv, JobInv
      <3>4. job[w].change[c].op \in {"none", "tokens", "error"}
        BY <3>3 DEF Tidy
      <3>5. PICK p \in Changes : p = job[w].change[c]
        BY <3>1
      <3> QED
        BY <1>2, <3>2, <3>4, <3>5
    <2>2. CASE c \notin job[w].batch
      BY <1>4, <2>2 DEF CommitBatch, RowStep
    <2> QED
      BY <2>1, <2>2
  <1> QED
    BY <1>3, <1>4

\* Nothing else changes the status or the serial of a row; what else changes the
\* newest serial of a provider issues one at a time.
LEMMA OtherSteps ==
    ASSUME TypeOK, SessionInv, [Next]_vars,
           ~ \E r \in Requests : Commit(r), ~ \E w \in Workers : CommitBatch(w)
    PROVE  /\ \A c \in Connections : /\ row'[c].status = row[c].status
                                     /\ row'[c].ref = row[c].ref
           /\ \/ \A c \in Connections : grant'[c].ref = grant[c].ref
              \/ \E c \in Connections :
                    /\ grant'[c].ref = grant[c].ref + 1
                    /\ \A d \in Connections : d # c => grant'[d].ref = grant[d].ref
  <1> DEFINE Goal ==
        /\ \A c \in Connections : /\ row'[c].status = row[c].status
                                  /\ row'[c].ref = row[c].ref
        /\ \/ \A c \in Connections : grant'[c].ref = grant[c].ref
           \/ \E c \in Connections :
                 /\ grant'[c].ref = grant[c].ref + 1
                 /\ \A d \in Connections : d # c => grant'[d].ref = grant[d].ref
  <1>1. ASSUME UNCHANGED <<row, grant>> PROVE Goal
    BY <1>1
  <1>2. ASSUME UNCHANGED row, NEW c \in Connections, NEW shown \in Nat,
               NEW p \in Outcomes(c), ProviderRefresh(c, shown, p)
        PROVE  Goal
    <2>1. \A d \in Connections : d # c => grant'[d] = grant[d]
      BY <1>2, ProviderCall
    <2>2. grant' = grant \/ grant'[c].ref = NextRef(c)
      BY <1>2, ProviderCall
    <2>3. NextRef(c) \in {grant[c].ref, grant[c].ref + 1}
      BY DEF NextRef
    <2> QED
      BY <1>2, <2>1, <2>2, <2>3
  <1>3. ASSUME NEW r \in Requests, CallRefresh(r) PROVE Goal
    <2>1. /\ req[r].conn \in Connections /\ req[r].seen.ref \in Nat /\ UNCHANGED row
      BY <1>3 DEF CallRefresh, MustRefresh, SessionInv, ReqInv, TypeOK, Request, Row
    <2>2. PICK c \in Connections : c = req[r].conn
      BY <2>1
    <2>3. PICK shown \in Nat : shown = req[r].seen.ref
      BY <2>1
    <2>4. PICK p \in Outcomes(c) : ProviderRefresh(c, shown, p)
      BY <1>3, <2>2, <2>3 DEF CallRefresh, Outcomes
    <2> QED
      BY <1>2, <2>1, <2>4
  <1>4. ASSUME NEW w \in Workers, NEW c \in Connections, RefreshOne(w, c) PROVE Goal
    <2>1. row[c].ref \in Nat /\ UNCHANGED row
      BY <1>4, Serials DEF RefreshOne
    <2>2. PICK shown \in Nat : shown = row[c].ref
      BY <2>1
    <2>3. PICK p \in Outcomes(c) : ProviderRefresh(c, shown, p)
      BY <1>4, <2>2 DEF RefreshOne, Outcomes
    <2> QED
      BY <1>2, <2>1, <2>3
  <1>5. ASSUME NEW r \in Requests, CallRevoke(r) PROVE Goal
    <2>1. PICK live \in {grant[req[r].conn].live, FALSE} :
             grant' = [grant EXCEPT ![req[r].conn].live = live]
      BY <1>5 DEF CallRevoke
    <2>2. \A c \in Connections : grant'[c].ref = grant[c].ref
      BY <2>1 DEF TypeOK, Grant
    <2> QED
      BY <1>5, <2>2 DEF CallRevoke
  <1>6. ASSUME NEW c \in Connections, WithdrawGrant(c) PROVE Goal
    <2>1. \A d \in Connections : grant'[d].ref = grant[d].ref
      BY <1>6 DEF WithdrawGrant, TypeOK, Grant
    <2> QED
      BY <1>6, <2>1 DEF WithdrawGrant
  <1>7. ASSUME NEW c \in Connections, Elapse(c) PROVE Goal
    <2>1. \A d \in Connections : row'[d].status = row[d].status /\ row'[d].ref = row[d].ref
      BY <1>7 DEF Elapse, TypeOK, Row
    <2> QED
      BY <1>7, <2>1 DEF Elapse
  <1>8. ASSUME NEW r \in Requests,
               \/ StartRequest(r) \/ Serve(r) \/ NoRefreshToken(r) \/ Flush(r)
               \/ Raise(r) \/ Abort(r)
        PROVE  Goal
    BY <1>1, <1>8 DEF StartRequest, StartGet, StartForce, StartRevoke, Load, Serve,
       NoRefreshToken, Flush, Raise, Abort, EndRequest
  <1>9. ASSUME NEW w \in Workers,
               \/ SelectBatch(w) \/ CrashWorker(w)
               \/ \E c \in Connections : SkipOne(w, c)
        PROVE  Goal
    BY <1>1, <1>9 DEF SelectBatch, CrashWorker, SkipOne, EndJob
  <1>10. CASE UNCHANGED vars
    BY <1>1, <1>10 DEF vars
  <1> QED
    BY <1>3, <1>4, <1>5, <1>6, <1>7, <1>8, <1>9, <1>10
    DEF Next, RequestStep, WorkerStep, Environment

\* Every step of the requests and workers moves every row in one of four ways.
LEMMA AllRows ==
    ASSUME IInv, [Next]_vars
    PROVE  \A c \in Connections : RowStep(c)
  <1>1. CASE \/ \E r \in Requests : Commit(r)
             \/ \E w \in Workers : CommitBatch(w)
    BY <1>1, CommitRows DEF IInv
  <1>2. CASE ~(\/ \E r \in Requests : Commit(r)
               \/ \E w \in Workers : CommitBatch(w))
    BY <1>2, OtherSteps DEF IInv, RowStep
  <1> QED
    BY <1>1, <1>2

\* A revoked connection stays revoked, whatever sessions were open on it.
THEOREM RevokedForGood == Spec => RevokedIsTerminal
  <1>1. IInv /\ [Next]_vars =>
           [\A c \in Connections :
               row[c].status = "revoked" => row'[c].status = "revoked"]_row
    BY AllRows DEF RowStep
  <1> QED
    BY <1>1, Inductive, PTL DEF Spec, RevokedIsTerminal

\* The token vault implements the life cycle of its connections.
THEOREM Implementation == Spec => ImplementsLifecycle
  <1>1. Init => Lifecycle!Init
    <2> SUFFICES ASSUME Init PROVE Lifecycle!Init
      OBVIOUS
    <2>1. PICK timed \in SUBSET Connections :
             row = [c \in Connections |-> [status |-> "active", detail |-> "", ref |-> 0,
                       expiry |-> IF c \in timed THEN "fresh" ELSE "never"]]
      BY DEF Init
    <2> QED
      BY <2>1 DEF Init, Lifecycle!Init
  <1>2. IInv /\ IInv' /\ [Next]_vars => [Lifecycle!Next]_(Lifecycle!vars)
    <2> SUFFICES ASSUME IInv, IInv', [Next]_vars
                 PROVE  Lifecycle!Next \/ UNCHANGED Lifecycle!vars
      OBVIOUS
    <2>t. /\ \A c \in Connections :
                /\ row[c].ref \in Nat /\ row'[c].ref \in Nat
                /\ grant[c].ref \in Nat /\ grant'[c].ref \in Nat
                /\ row'[c].status \in {"active", "error", "revoked"}
                /\ row'[c].ref <= grant'[c].ref
      BY DEF IInv, TypeOK, Row, Grant, Statuses, SessionInv, StatusInv, SerialInv, Fit
    <2>1. CASE \/ \E r \in Requests : Commit(r)
               \/ \E w \in Workers : CommitBatch(w)
      <3>1. \A c \in Connections : RowStep(c)
        BY AllRows
      <3>2. UNCHANGED grant
        BY <2>1 DEF Commit, CommitBatch, EndRequest, EndJob
      <3>3. Lifecycle!Store
        <4>1. \A c \in Connections : \/ Lifecycle!Keep(c) \/ Lifecycle!Fail(c)
                                     \/ Lifecycle!Revoke(c) \/ Lifecycle!Renew(c)
          BY <2>t, <3>1, <3>2
          DEF RowStep, Lifecycle!Keep, Lifecycle!Fail, Lifecycle!Revoke, Lifecycle!Renew
        <4> QED
          BY <2>t, <3>2, <4>1 DEF Lifecycle!Store
      <3> QED
        BY <3>3 DEF Lifecycle!Next
    <2>2. CASE ~(\/ \E r \in Requests : Commit(r)
                 \/ \E w \in Workers : CommitBatch(w))
      <3>1. /\ \A c \in Connections : /\ row'[c].status = row[c].status
                                      /\ row'[c].ref = row[c].ref
            /\ \/ \A c \in Connections : grant'[c].ref = grant[c].ref
               \/ \E c \in Connections :
                     /\ grant'[c].ref = grant[c].ref + 1
                     /\ \A d \in Connections : d # c => grant'[d].ref = grant[d].ref
        BY <2>2, OtherSteps DEF IInv
      <3>2. CASE \A c \in Connections : grant'[c].ref = grant[c].ref
        BY <3>1, <3>2 DEF Lifecycle!vars
      <3>3. CASE \E c \in Connections :
                    /\ grant'[c].ref = grant[c].ref + 1
                    /\ \A d \in Connections : d # c => grant'[d].ref = grant[d].ref
        <4>1. PICK c \in Connections :
                 /\ grant'[c].ref = grant[c].ref + 1
                 /\ \A d \in Connections : d # c => grant'[d].ref = grant[d].ref
          BY <3>3
        <4>2. Lifecycle!Issue(c)
          BY <3>1, <4>1 DEF Lifecycle!Issue
        <4> QED
          BY <4>2 DEF Lifecycle!Next
      <3> QED
        BY <3>1, <3>2, <3>3
    <2> QED
      BY <2>1, <2>2
  <1> QED
    BY <1>1, <1>2, Inductive, PTL DEF Spec, ImplementsLifecycle, Lifecycle!Spec

=============================================================================
