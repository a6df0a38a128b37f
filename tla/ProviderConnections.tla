------------------------- MODULE ProviderConnections -------------------------
(***************************************************************************)
(* One connection of oaupa-server to one of its twenty providers, from the *)
(* authorization URL to the last token that is handed out: what a provider *)
(* class leaves out in one method shows in another, much later.  The       *)
(* interleavings of requests and workers are those of TokenRefresh and     *)
(* OAuthFlow; here every handler is one step, and what varies is the class, *)
(* the provider's answers, the provider row and the master key.            *)
(*                                                                         *)
(* What is stored encrypted is told by the master key it is under: decrypt *)
(* gets it back with that key and raises with any other (encryption.py     *)
(* stores a key version, always the same one, and never looks at it).      *)
(***************************************************************************)
EXTENDS Providers

CONSTANTS
    Offered,   \* the rows of oauth_providers
    Masters    \* the values OAUPA_MASTER_KEY is given

ASSUME ConstantsAssumption ==
    /\ Offered \subseteq Seeded
    /\ "none" \notin Masters

VARIABLES
    provider,  \* the provider of the connection (never changes)
    remote,    \* the nature of its server (never changes)
    listed,    \* is_active of the provider row
    secret,    \* the key that client_secret_encrypted is under
    master,    \* the master key of all processes
    flow,      \* the authorization under way
    answer,    \* how the last callback ended
    conn,      \* the row of the connection with its vault
    token,     \* what the stored access token is worth at the provider
    grant,     \* the provider honours the refresh token
    served     \* history: what the token handed out last was worth then

settings == <<provider, remote, listed, secret, master>>
dealings == <<flow, answer>>
vars     == <<settings, dealings, conn, token, grant, served>>

class == ClassOf[provider]

Ages   == {"fresh", "soon", "due", "lapsed"}   \* soon: < 5 min, due: < 30 s left
Tokens == Ages \cup {"none", "lasting", "revoked"}

(***************************************************************************)
(* A provider's tokens may lapse; it then may or may not tell when, in the *)
(* answer to a code and in that to a refresh token (expires_in is only     *)
(* recommended by RFC 6749).                                               *)
(***************************************************************************)
Natures == {n \in [lapses: BOOLEAN, dates: BOOLEAN, redates: BOOLEAN] :
                ~n.lapses => ~n.dates /\ ~n.redates}

NoFlow == [phase |-> "none", announced |-> FALSE, code |-> "none"]
NoConn == [status |-> "absent", access |-> "none", refresh |-> "none", expiry |-> "never"]

Init ==
    /\ provider \in Offered
    /\ remote \in Natures
    /\ listed = TRUE
    /\ master \in Masters /\ secret = master
    /\ flow = NoFlow /\ answer = "none"
    /\ conn = NoConn
    /\ token = "none" /\ grant = FALSE
    /\ served = "nothing"

\* decrypt(encrypt(x)) is x under the key that is set, and raises under another.
Decrypts(key) == key = master

\* get_provider_instance: the row must be active, and its client_secret readable.
Instance == listed /\ Decrypts(secret)

-----------------------------------------------------------------------------
(***************************************************************************)
(* The authorization.                                                      *)
(***************************************************************************)
\* start_oauth_flow; whether the URL carries the challenge is up to the class.
StartOAuthFlow ==
    /\ conn = NoConn /\ flow.phase = "none"
    /\ Instance
    /\ flow' = [phase |-> "asked", announced |-> class.announces, code |-> "none"]
    /\ UNCHANGED <<settings, answer, conn, token, grant, served>>

\* The user consents (external).  The provider asks for the verifier of the
\* challenge it has seen, also refuses one without a challenge, or asks for none.
Consent ==
    /\ flow.phase = "asked"
    /\ \E code \in {"free", "strict"} \cup (IF flow.announced THEN {"bound"} ELSE {}) :
          flow' = [flow EXCEPT !.phase = "approved", !.code = code]
    /\ UNCHANGED <<settings, answer, conn, token, grant, served>>

\* The token endpoint accepts the code with what exchange_code sends (external).
Proven ==
    CASE flow.code = "free"   -> TRUE
      [] flow.code = "bound"  -> class.proves
      [] flow.code = "strict" -> class.proves = flow.announced

Ends(outcome) == flow' = NoFlow /\ answer' = outcome

\* The callback raises and is rolled back, but the code is spent: the provider
\* refused it, its answer is lost, its TokenResponse cannot be built, or
\* get_account_info cannot reach the provider.
SpendCode ==
    /\ flow.phase = "approved"
    /\ Instance
    /\ \/ ~Proven /\ Ends("unproved")
       \/ Proven /\ ~class.builds /\ Ends("unbuilt")
       \/ Proven /\ Ends("failed")
    /\ UNCHANGED <<settings, conn, token, grant, served>>

\* A new token, as the provider sees it.
Issued == IF remote.lapses THEN "fresh" ELSE "lasting"

\* The expires_at of a new row.
Dated(sent, read) == IF sent /\ "expires_in" \in read THEN "fresh" ELSE "never"

\* handle_oauth_callback: the connection is stored, active, with its tokens.
Connect ==
    /\ flow.phase = "approved"
    /\ Instance /\ Proven /\ class.builds
    /\ Ends("connected")
    /\ \E sent \in BOOLEAN :
          /\ conn' = [status |-> "active", access |-> master,
                      refresh |-> IF sent /\ "refresh_token" \in class.reads
                                  THEN master ELSE "none",
                      expiry |-> Dated(remote.dates, class.reads)]
          /\ grant' = sent
    /\ token' = Issued
    /\ UNCHANGED <<settings, served>>

-----------------------------------------------------------------------------
(***************************************************************************)
(* The tokens.                                                             *)
(***************************************************************************)
\* What refresh_token needs of this side: it is stored and readable, and the class
\* implements it.
CanAsk == Decrypts(conn.refresh) /\ Decrypts(secret) /\ class.refreshes

\* Mutant of Renewed: expires_at is left alone.
RenewsUndated(key) == [conn EXCEPT !.access = key, !.refresh = key]

\* The row after a refresh: both tokens under the current key; expires_at stays
\* when the answer does not tell it.
Renewed(key) ==
    [conn EXCEPT !.access = key, !.refresh = key,
        !.expiry = IF remote.redates /\ "expires_in" \in class.rereads THEN "fresh" ELSE @]

\* The provider honours the refresh token and all is stored.
Refresh ==
    /\ CanAsk /\ grant
    /\ conn' = Renewed(master)
    /\ token' = Issued

Worth(t) == IF t \in {"lapsed", "revoked"} THEN t ELSE "live"

\* get_token refreshes first when less than 30 s are left.
NeedsRefresh == conn.expiry = "due"

\* get_token, which hands out the stored token; when it raises, what it did is
\* rolled back.
HandOut ==
    /\ conn.status = "active" /\ ~NeedsRefresh
    /\ Decrypts(conn.access)
    /\ served' = Worth(token)
    /\ UNCHANGED <<settings, dealings, conn, token, grant>>

RefreshAndHandOut ==
    /\ conn.status = "active" /\ NeedsRefresh
    /\ listed /\ Refresh
    /\ served' = Worth(token')
    /\ UNCHANGED <<settings, dealings, grant>>

\* force_refresh, which looks at no status.
ForceRefresh ==
    /\ conn.status # "absent"
    /\ listed /\ Refresh
    /\ served' = Worth(token')
    /\ UNCHANGED <<settings, dealings, grant>>

\* Mutant of Selected: rows that are due are left to get_token.
SelectsSoonOnly == conn.status = "active" /\ conn.expiry = "soon" /\ conn.refresh # "none"

\* The rows that refresh_expiring_tokens selects, whether their provider is
\* listed or not.
Selected ==
    conn.status = "active" /\ conn.expiry \in {"soon", "due"} /\ conn.refresh # "none"

\* _refresh_single_token, the provider answering ...
WorkerRefreshes ==
    /\ Selected
    /\ Refresh
    /\ UNCHANGED <<settings, dealings, grant, served>>

\* Mutant of WorkerFails: the keys are read inside the try.
FailsOnKeys ==
    /\ Selected
    /\ conn' = [conn EXCEPT !.status = "error"]
    /\ UNCHANGED <<settings, dealings, token, grant, served>>

\* ... and when it refuses, cannot be reached or was never to be asked.  A secret
\* or a token that cannot be read raises outside the try: nothing is changed.
WorkerFails ==
    /\ Selected
    /\ Decrypts(secret) /\ Decrypts(conn.refresh)
    /\ conn' = [conn EXCEPT !.status = "error"]
    /\ UNCHANGED <<settings, dealings, token, grant, served>>

\* revoke_token reaches the provider, which must be told with the access token.
Revokes ==
    /\ Instance /\ Decrypts(conn.access)
    /\ \/ class.revokes = "always"
       \/ class.revokes = "if url" /\ provider \in WithRevokeUrl

\* revoke_connection: whatever becomes of the call, the status is "revoked".  The
\* provider may or may not end the grant with the token.
RevokeConnection ==
    /\ conn.status # "absent"
    /\ conn' = [conn EXCEPT !.status = "revoked"]
    /\ \/ UNCHANGED <<token, grant>>
       \/ Revokes /\ token' = "revoked" /\ grant' \in {grant, FALSE}
    /\ UNCHANGED <<settings, dealings, served>>

-----------------------------------------------------------------------------
(***************************************************************************)
(* Time, the provider's users and the operator.                            *)
(***************************************************************************)
Older(t) ==
    CASE t = "fresh" -> "soon"
      [] t = "soon"  -> "due"
      [] t = "due"   -> "lapsed"
      [] OTHER       -> t

\* Time passes for the token and for what is stored of it, which has run out when
\* it is due.
Tick ==
    /\ token' = Older(token)
    /\ conn' = [conn EXCEPT !.expiry = IF @ = "due" THEN @ ELSE Older(@)]
    /\ UNCHANGED <<settings, dealings, grant, served>>

\* The user withdraws the consent at the provider.
Withdraw ==
    /\ grant \/ token \notin {"none", "revoked"}
    /\ token' = "revoked" /\ grant' = FALSE
    /\ UNCHANGED <<settings, dealings, conn, served>>

\* The operator switches the provider row off or on, ...
Toggle ==
    /\ listed' = ~listed
    /\ UNCHANGED <<provider, remote, secret, master, dealings, conn, token, grant, served>>

\* ... starts all processes with another master key, ...
ChangeMaster ==
    /\ master' \in Masters \ {master}
    /\ UNCHANGED <<provider, remote, listed, secret, dealings, conn, token, grant, served>>

\* ... or stores client_secret anew, under the key that is set.
ConfigureSecret ==
    /\ secret' = master
    /\ UNCHANGED <<provider, remote, listed, master, dealings, conn, token, grant, served>>

Worker == WorkerRefreshes \/ WorkerFails

Next ==
    \/ StartOAuthFlow \/ Consent \/ SpendCode \/ Connect
    \/ HandOut \/ RefreshAndHandOut \/ ForceRefresh \/ Worker \/ RevokeConnection
    \/ Tick \/ Withdraw \/ Toggle \/ ChangeMaster \/ ConfigureSecret

Spec == Init /\ [][Next]_vars

\* celery beat starts the worker every minute.
FairSpec == Spec /\ WF_vars(Worker)

-----------------------------------------------------------------------------
(***************************************************************************)
(* Properties.                                                             *)
(***************************************************************************)
Keys == Masters \cup {"none"}

\* The types of the rows and of the provider's side.
TypeOK ==
    /\ provider \in Offered /\ remote \in Natures /\ listed \in BOOLEAN
    /\ secret \in Masters /\ master \in Masters
    /\ flow \in [phase: {"none", "asked", "approved"}, announced: BOOLEAN,
                 code: {"none", "free", "bound", "strict"}]
    /\ answer \in {"none", "connected", "unproved", "unbuilt", "failed"}
    /\ conn \in [status: {"absent", "active", "error", "revoked"},
                 access: Keys, refresh: Keys, expiry: {"never", "fresh", "soon", "due"}]
    /\ token \in Tokens /\ grant \in BOOLEAN
    /\ served \in {"nothing", "live", "lapsed", "revoked"}

\* The classes whose two halves of PKCE do not agree.
HalfProved == {"github", "slack", "box", "asana", "hubspot", "mailchimp", "trello"}

\* The classes that take no expires_in from the answer to a code.
Undated == {"github", "stripe", "notion", "square"}

\* A user's consent is not lost for what the code sends: whichever way the provider
\* checks PKCE (RFC 7636, RFC 9700), its token endpoint is satisfied and its answer
\* understood, except with the classes that announce a challenge and do not show
\* the verifier or the reverse, and with Square, whose answer always raises.
CodesAreRedeemed ==
    /\ answer = "unproved" => provider \in HalfProved
    /\ answer = "unbuilt" => provider = "square"

\* No token is handed out that has lapsed, through the 30 s of get_token, the five
\* minutes of the worker, refreshes whose answer tells no expires_in and changes of
\* the master key, unless the first answer did not tell it or the class ignored it.
ServedIsLive == served = "lapsed" => ~remote.dates \/ provider \in Undated

\* The worker selects a token that was just renewed only when the provider tells no
\* expires_in on a refresh: such rows come back on every run and can fill its LIMIT.
BatchIsNeeded ==
    conn.expiry \in {"soon", "due"} /\ token = "fresh" => ~remote.redates

\* While the master key is not the one a connection is stored under nothing of it is
\* overwritten or declared broken, so that the old key brings it back; only a
\* revocation sets its status, and that one does not reach the provider.
UnreadableIsKept ==
    [][conn.access \notin {"none", master} =>
            /\ conn'.access = conn.access /\ conn'.refresh = conn.refresh
            /\ conn'.status \in {conn.status, "revoked"}
            /\ token' \in {token, Older(token)} \/ ~grant']_vars

\* The keys that a refresh needs are set.
Readable == Decrypts(secret) /\ conn.refresh \in {"none", master}

\* Dead: active, with a refresh token, and a lapsed token that is known to be.
Dead ==
    /\ conn.status = "active" /\ conn.refresh # "none" /\ conn.expiry # "never"
    /\ token = "lapsed"

\* Once the keys are right and stay so, no active connection is left with a token
\* that has lapsed: it is renewed or declared broken, also when its provider row is
\* switched off and its class cannot refresh.
LapsedIsRenewed == <>[]Readable => [](Dead => <>~Dead)

=============================================================================
