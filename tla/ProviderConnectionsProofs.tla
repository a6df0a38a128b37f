---------------------- MODULE ProviderConnectionsProofs ----------------------
(***************************************************************************)
(* Proofs about ProviderConnections, for any of the seeded providers, any  *)
(* server, any number of master keys and any length of time.               *)
(***************************************************************************)
EXTENDS ProviderConnections, TLAPS

-----------------------------------------------------------------------------
(***************************************************************************)
(* The classes.                                                            *)
(***************************************************************************)
\* What the class c of provider p may leave out.
Sound(c, p) ==
    /\ c.proves \in BOOLEAN /\ c.announces \in BOOLEAN
    /\ c.proves # c.announces => p \in HalfProved
    /\ ~c.builds => p = "square"
    /\ "expires_in" \notin c.reads => p \in Undated
    /\ c.refreshes /\ c.builds => "expires_in" \in c.rereads

\* The twenty classes leave out no more than the lists of exceptions say.
LEMMA ClassesSound ==
    ASSUME NEW p \in Seeded
    PROVE  Sound(ClassOf[p], p)
<1> USE DEF Sound, Standard, Fields, Base, HalfProved, Undated
<1>a. Seeded = {"google", "github", "slack", "microsoft", "notion", "airtable", "discord",
                "gitlab", "atlassian", "hubspot", "salesforce", "mailchimp", "stripe",
                "paypal", "square", "dropbox", "box", "asana", "trello", "youtube"}
  BY DEF Seeded, ClassOf
<1>b. /\ ClassOf["google"] = GoogleProvider
      /\ ClassOf["github"] = GitHubProvider
      /\ ClassOf["slack"] = SlackProvider
      /\ ClassOf["microsoft"] = MicrosoftProvider
      /\ ClassOf["notion"] = NotionProvider
      /\ ClassOf["airtable"] = AirtableProvider
      /\ ClassOf["discord"] = DiscordProvider
      /\ ClassOf["gitlab"] = GitLabProvider
      /\ ClassOf["atlassian"] = AtlassianProvider
      /\ ClassOf["hubspot"] = HubSpotProvider
      /\ ClassOf["salesforce"] = SalesforceProvider
      /\ ClassOf["mailchimp"] = MailchimpProvider
      /\ ClassOf["stripe"] = StripeOAuthProvider
      /\ ClassOf["paypal"] = PayPalProvider
      /\ ClassOf["square"] = SquareProvider
      /\ ClassOf["dropbox"] = DropboxProvider
      /\ ClassOf["box"] = BoxProvider
      /\ ClassOf["asana"] = AsanaProvider
      /\ ClassOf["trello"] = TrelloProvider
      /\ ClassOf["youtube"] = YouTubeProvider
  BY DEF ClassOf
\* Those which do all that is asked of them.
<1>1. /\ Sound(GoogleProvider, "google")
      /\ Sound(YouTubeProvider, "youtube")
      /\ Sound(DiscordProvider, "discord")
      /\ Sound(SalesforceProvider, "salesforce")
      /\ Sound(DropboxProvider, "dropbox")
      /\ Sound(MicrosoftProvider, "microsoft")
      /\ Sound(AirtableProvider, "airtable")
      /\ Sound(GitLabProvider, "gitlab")
      /\ Sound(AtlassianProvider, "atlassian")
  BY DEF GoogleProvider, YouTubeProvider, DiscordProvider, SalesforceProvider, DropboxProvider,
     MicrosoftProvider, AirtableProvider, GitLabProvider, AtlassianProvider
\* Those whose halves of PKCE differ.
<1>2. /\ Sound(GitHubProvider, "github")
      /\ Sound(SlackProvider, "slack")
      /\ Sound(HubSpotProvider, "hubspot")
      /\ Sound(MailchimpProvider, "mailchimp")
      /\ Sound(BoxProvider, "box")
      /\ Sound(AsanaProvider, "asana")
      /\ Sound(TrelloProvider, "trello")
  BY DEF GitHubProvider, SlackProvider, HubSpotProvider, MailchimpProvider, BoxProvider,
     AsanaProvider, TrelloProvider
\* Those which know no PKCE.
<1>3. /\ Sound(PayPalProvider, "paypal")
      /\ Sound(StripeOAuthProvider, "stripe")
      /\ Sound(NotionProvider, "notion")
      /\ Sound(SquareProvider, "square")
  BY DEF Unproved, PayPalProvider, StripeOAuthProvider, NotionProvider, SquareProvider
<1> QED
  BY <1>a, <1>b, <1>1, <1>2, <1>3 DEF ClassOf

\* The class of the connection is one of them.
LEMMA ClassSound ==
    ASSUME TypeOK
    PROVE  Sound(class, provider)
BY ConstantsAssumption, ClassesSound DEF TypeOK, class

-----------------------------------------------------------------------------
(***************************************************************************)
(* The inductive invariant: how the authorization, the row, the token and  *)
(* what is known of its age hang together.                                 *)
(***************************************************************************)
\* An authorization is for a connection that is not there yet, and the code is bound
\* to a challenge only where the class announced one.
FlowFits ==
    flow.phase # "none" =>
        /\ conn = NoConn
        /\ flow.announced = class.announces
        /\ flow.phase = "approved" => flow.code \in {"free", "bound", "strict"}
        /\ flow.code = "bound" => flow.announced

\* Both tokens of a row are under one key; there is a row only of a class that can
\* read an answer, and it has no expiry only if that was not told or ignored.
RowFits ==
    /\ conn.status = "absent" => conn = NoConn /\ token = "none" /\ ~grant
    /\ conn.refresh \in {"none", conn.access}
    /\ conn.status # "absent" =>
        /\ class.builds
        /\ conn.expiry = "never" => ~remote.dates \/ provider \in Undated

\* A token is never older than its row tells, and not younger either if the provider
\* dates the new ones.
AgeFits ==
    /\ conn.expiry # "never" => remote.lapses
    /\ conn.expiry = "fresh" => token \in {"fresh", "revoked"}
    /\ conn.expiry = "soon"  => token \in {"fresh", "soon", "revoked"}
    /\ conn.expiry = "due"   => token \in Ages \cup {"revoked"}
    /\ BatchIsNeeded
    /\ remote.redates /\ conn.expiry = "due" => token # "soon"

PCInv == TypeOK /\ FlowFits /\ RowFits /\ AgeFits /\ ServedIsLive /\ CodesAreRedeemed

LEMMA PCInit == Init => PCInv
<1> SUFFICES ASSUME Init PROVE PCInv
  OBVIOUS
<1> USE DEF Init, NoFlow, NoConn
<1>1. TypeOK
  <2>1. flow \in [phase: {"none", "asked", "approved"}, announced: BOOLEAN,
                  code: {"none", "free", "bound", "strict"}]
    OBVIOUS
  <2>2. conn \in [status: {"absent", "active", "error", "revoked"},
                  access: Keys, refresh: Keys, expiry: {"never", "fresh", "soon", "due"}]
    BY DEF Keys
  <2> QED
    BY <2>1, <2>2 DEF TypeOK, Tokens
<1>2. FlowFits /\ RowFits /\ AgeFits
  BY DEF FlowFits, RowFits, AgeFits, BatchIsNeeded
<1>3. ServedIsLive /\ CodesAreRedeemed
  BY DEF ServedIsLive, CodesAreRedeemed
<1> QED
  BY <1>1, <1>2, <1>3 DEF PCInv

\* What a refresh makes of the row and the token.
LEMMA RefreshFits ==
    ASSUME PCInv, Refresh, UNCHANGED <<settings, dealings, grant>>,
           served' \in {served, Worth(token')}
    PROVE  PCInv'
<1> USE DEF PCInv, Refresh, CanAsk, Renewed, Issued, Decrypts, settings, dealings
<1>1. conn.status # "absent"
  BY DEF RowFits
<1>2. class.builds /\ class' = class /\ "expires_in" \in class.rereads
  BY <1>1, ClassSound DEF RowFits, Sound, class
<1>3. TypeOK'
  <2>1. conn' \in [status: {"absent", "active", "error", "revoked"},
                   access: Keys, refresh: Keys, expiry: {"never", "fresh", "soon", "due"}]
    BY DEF TypeOK, Keys
  <2>2. token' \in {"fresh", "lasting"} /\ served' \in {served, "live"}
    BY DEF Worth
  <2> QED
    BY <2>1, <2>2 DEF TypeOK, Tokens, Ages, Keys
<1>4. FlowFits'
  BY <1>1 DEF FlowFits, NoConn, TypeOK
<1>5. RowFits'
  BY <1>1, <1>2 DEF RowFits, TypeOK
<1>6. AgeFits'
  BY <1>2 DEF AgeFits, BatchIsNeeded, TypeOK, Natures, Ages
<1>7. ServedIsLive' /\ CodesAreRedeemed'
  BY DEF ServedIsLive, CodesAreRedeemed, Worth
<1> QED
  BY <1>3, <1>4, <1>5, <1>6, <1>7

\* Every step preserves it.
LEMMA PCNext == PCInv /\ [Next]_vars => PCInv'
<1> SUFFICES ASSUME PCInv, [Next]_vars PROVE PCInv'
  OBVIOUS
<1> USE DEF PCInv, settings, dealings
<1>s. Sound(class, provider)
  BY ClassSound
<1>c. provider' = provider => class' = class
  BY DEF class
<1>1. CASE StartOAuthFlow
  <2> USE <1>1, <1>c DEF StartOAuthFlow
  <2>1. TypeOK'
    BY <1>s DEF TypeOK, Sound
  <2>2. FlowFits' /\ RowFits' /\ AgeFits'
    BY DEF FlowFits, RowFits, AgeFits, BatchIsNeeded
  <2>3. ServedIsLive' /\ CodesAreRedeemed'
    BY DEF ServedIsLive, CodesAreRedeemed
  <2> QED
    BY <2>1, <2>2, <2>3
<1>2. CASE Consent
  <2> USE <1>2, <1>c DEF Consent
  <2>1. TypeOK'
    <3>1. flow' \in [phase: {"none", "asked", "approved"}, announced: BOOLEAN,
                     code: {"none", "free", "bound", "strict"}]
      BY DEF TypeOK
    <3> QED
      BY <3>1 DEF TypeOK
  <2>2. FlowFits'
    BY DEF FlowFits, TypeOK
  <2>3. RowFits' /\ AgeFits' /\ ServedIsLive' /\ CodesAreRedeemed'
    BY DEF RowFits, AgeFits, BatchIsNeeded, ServedIsLive, CodesAreRedeemed
  <2> QED
    BY <2>1, <2>2, <2>3
<1>3. CASE SpendCode
  <2> USE <1>3, <1>c DEF SpendCode, Ends
  <2>1. TypeOK'
    <3>1. flow' = NoFlow
      OBVIOUS
    <3>2. answer' \in {"unproved", "unbuilt", "failed"}
      OBVIOUS
    <3>3. UNCHANGED <<provider, remote, listed, secret, master, conn, token, grant, served>>
      OBVIOUS
    <3> HIDE <1>3 DEF SpendCode
    <3> QED
      BY <3>1, <3>2, <3>3 DEF TypeOK, NoFlow
  <2>2. FlowFits' /\ RowFits' /\ AgeFits' /\ ServedIsLive'
    BY DEF FlowFits, RowFits, AgeFits, BatchIsNeeded, ServedIsLive, NoFlow
  <2>3. ~Proven => class.proves # class.announces
    BY <1>s DEF Proven, FlowFits, Sound
  <2>4. CodesAreRedeemed'
    BY <1>s, <2>3 DEF CodesAreRedeemed, Sound
  <2> QED
    BY <2>1, <2>2, <2>4
<1>4. CASE Connect
  <2> USE <1>4, <1>c DEF Connect, Ends
  <2>1. PICK sent \in BOOLEAN :
            /\ conn' = [status |-> "active", access |-> master,
                        refresh |-> IF sent /\ "refresh_token" \in class.reads
                                    THEN master ELSE "none",
                        expiry |-> Dated(remote.dates, class.reads)]
            /\ grant' = sent
    OBVIOUS
  <2>2. conn'.expiry \in {"fresh", "never"} /\ token' \in {"fresh", "lasting"}
    BY <2>1 DEF Dated, Issued
  <2>3. TypeOK'
    <3>1. conn' \in [status: {"absent", "active", "error", "revoked"},
                     access: Keys, refresh: Keys, expiry: {"never", "fresh", "soon", "due"}]
      BY <2>1, <2>2 DEF TypeOK, Keys
    <3> QED
      BY <2>1, <2>2, <3>1 DEF TypeOK, Tokens, Ages, NoFlow
  <2>4. FlowFits' /\ ServedIsLive' /\ CodesAreRedeemed'
    BY DEF FlowFits, ServedIsLive, CodesAreRedeemed, NoFlow
  <2>5. RowFits'
    BY <1>s, <2>1 DEF RowFits, Dated, Sound
  <2>6. AgeFits'
    BY <2>1, <2>2 DEF AgeFits, BatchIsNeeded, Dated, Issued, TypeOK, Natures
  <2> QED
    BY <2>3, <2>4, <2>5, <2>6
<1>5. CASE HandOut
  <2> USE <1>5, <1>c DEF HandOut
  <2>1. TypeOK' /\ FlowFits' /\ RowFits' /\ AgeFits' /\ CodesAreRedeemed'
    BY DEF TypeOK, FlowFits, RowFits, AgeFits, BatchIsNeeded, CodesAreRedeemed, Worth
  <2>2. token = "lapsed" => conn.expiry = "never"
    BY DEF AgeFits, NeedsRefresh, TypeOK
  <2>3. ServedIsLive'
    BY <2>2 DEF ServedIsLive, RowFits, Worth
  <2> QED
    BY <2>1, <2>3
<1>6. CASE RefreshAndHandOut
  BY <1>6, RefreshFits DEF RefreshAndHandOut
<1>7. CASE ForceRefresh
  BY <1>7, RefreshFits DEF ForceRefresh
<1>8. CASE WorkerRefreshes
  BY <1>8, RefreshFits DEF WorkerRefreshes
<1>9. CASE WorkerFails
  <2> USE <1>9, <1>c DEF WorkerFails, Selected
  <2>1. TypeOK'
    BY DEF TypeOK
  <2>2. FlowFits'
    BY DEF FlowFits, NoConn
  <2>3. RowFits' /\ AgeFits'
    BY DEF RowFits, AgeFits, BatchIsNeeded, TypeOK
  <2>4. ServedIsLive' /\ CodesAreRedeemed'
    BY DEF ServedIsLive, CodesAreRedeemed
  <2> QED
    BY <2>1, <2>2, <2>3, <2>4
<1>10. CASE RevokeConnection
  <2> USE <1>10, <1>c DEF RevokeConnection
  <2>1. token' \in {token, "revoked"} /\ grant' \in {grant, FALSE}
    OBVIOUS
  <2>2. TypeOK'
    <3>1. conn' \in [status: {"absent", "active", "error", "revoked"},
                     access: Keys, refresh: Keys, expiry: {"never", "fresh", "soon", "due"}]
      BY DEF TypeOK
    <3>2. UNCHANGED <<provider, remote, listed, secret, master, flow, answer, served>>
      OBVIOUS
    <3>3. token' \in Tokens /\ grant' \in BOOLEAN
      BY <2>1, Zenon DEF TypeOK, Tokens
    <3> HIDE <1>10 DEF RevokeConnection
    <3> QED
      BY <3>1, <3>2, <3>3 DEF TypeOK
  <2>3. FlowFits'
    BY DEF FlowFits, NoConn
  <2>4. RowFits' /\ AgeFits'
    BY <2>1 DEF RowFits, AgeFits, BatchIsNeeded, TypeOK
  <2>5. ServedIsLive' /\ CodesAreRedeemed'
    BY DEF ServedIsLive, CodesAreRedeemed
  <2> QED
    BY <2>2, <2>3, <2>4, <2>5
<1>11. CASE Tick
  <2> USE <1>11, <1>c DEF Tick
  <2>1. TypeOK'
    BY DEF TypeOK, Older, Tokens, Ages
  <2>2. conn = NoConn => conn' = NoConn
    BY DEF NoConn, Older
  <2>3. FlowFits' /\ ServedIsLive' /\ CodesAreRedeemed'
    BY <2>2 DEF FlowFits, ServedIsLive, CodesAreRedeemed
  <2>4. RowFits'
    BY <2>2 DEF RowFits, Older, TypeOK
  <2>5. AgeFits'
    BY DEF AgeFits, BatchIsNeeded, Older, TypeOK, Ages, Tokens
  <2> QED
    BY <2>1, <2>3, <2>4, <2>5
<1>12. CASE Withdraw
  <2> USE <1>12, <1>c DEF Withdraw
  <2>1. TypeOK'
    <3>1. UNCHANGED <<provider, remote, listed, secret, master, flow, answer, conn, served>>
      OBVIOUS
    <3>2. token' = "revoked" /\ grant' = FALSE
      OBVIOUS
    <3>3. token' \in Tokens /\ grant' \in BOOLEAN
      BY <3>2, Zenon DEF Tokens
    <3> HIDE <1>12 DEF Withdraw
    <3> QED
      BY <3>1, <3>3 DEF TypeOK
  <2>2. FlowFits' /\ ServedIsLive' /\ CodesAreRedeemed'
    BY DEF FlowFits, ServedIsLive, CodesAreRedeemed
  <2>3. RowFits' /\ AgeFits'
    BY DEF RowFits, AgeFits, BatchIsNeeded, TypeOK
  <2> QED
    BY <2>1, <2>2, <2>3
<1>13. CASE Toggle \/ ChangeMaster \/ ConfigureSecret
  <2>1. TypeOK'
    BY <1>13 DEF Toggle, ChangeMaster, ConfigureSecret, TypeOK
  <2>2. UNCHANGED <<provider, remote, dealings, conn, token, grant, served>>
    BY <1>13 DEF Toggle, ChangeMaster, ConfigureSecret
  <2>3. FlowFits' /\ RowFits' /\ AgeFits' /\ ServedIsLive' /\ CodesAreRedeemed'
    BY <1>c, <2>2 DEF FlowFits, RowFits, AgeFits, BatchIsNeeded, ServedIsLive, CodesAreRedeemed
  <2> QED
    BY <2>1, <2>3
<1>14. CASE UNCHANGED vars
  BY <1>14, <1>c DEF vars, TypeOK, FlowFits, RowFits, AgeFits, BatchIsNeeded, ServedIsLive,
     CodesAreRedeemed
<1> QED
  BY <1>1, <1>2, <1>3, <1>4, <1>5, <1>6, <1>7, <1>8, <1>9, <1>10, <1>11, <1>12, <1>13, <1>14
     DEF Next, Worker

-----------------------------------------------------------------------------
\* The invariant holds in every reachable state, for any providers offered, any server
\* and any number of master keys.
THEOREM ConnectionsInductive == Spec => []PCInv
BY PCInit, PCNext, PTL DEF Spec

\* A consent is lost to what exchange_code sends or reads only with the classes listed.
THEOREM Redeemed == Spec => []CodesAreRedeemed
<1>1. PCInv => CodesAreRedeemed
  BY DEF PCInv
<1> QED
  BY <1>1, ConnectionsInductive, PTL

\* A lapsed token is handed out only where its expiry was not told or not read.
THEOREM LiveWhenServed == Spec => []ServedIsLive
<1>1. PCInv => ServedIsLive
  BY DEF PCInv
<1> QED
  BY <1>1, ConnectionsInductive, PTL

\* The worker selects a fresh token only of a provider that does not date it.
THEOREM BatchNeeded == Spec => []BatchIsNeeded
<1>1. PCInv => BatchIsNeeded
  BY DEF PCInv, AgeFits
<1> QED
  BY <1>1, ConnectionsInductive, PTL

\* A connection under another master key is neither overwritten nor declared broken.
THEOREM UnreadableKept == Spec => UnreadableIsKept
<1> DEFINE Unread == conn.access \notin {"none", master}
           Kept == /\ conn'.access = conn.access /\ conn'.refresh = conn.refresh
                   /\ conn'.status \in {conn.status, "revoked"}
                   /\ token' \in {token, Older(token)} \/ ~grant'
<1>1. PCInv /\ [Next]_vars => [Unread => Kept]_vars
  <2> SUFFICES ASSUME PCInv, [Next]_vars, Unread PROVE Kept
    OBVIOUS
  <2> USE DEF PCInv, settings, dealings
  <2>1. ~Decrypts(conn.refresh) /\ ~Decrypts(conn.access)
    BY ConstantsAssumption DEF Decrypts, RowFits, TypeOK
  <2>2. flow.phase = "none"
    BY DEF FlowFits, NoConn
  <2>3. ~Refresh /\ ~Connect /\ ~WorkerFails
    BY <2>1, <2>2 DEF Refresh, CanAsk, Connect, WorkerFails
  <2>4. CASE RevokeConnection
    BY <2>1, <2>4 DEF RevokeConnection, Revokes, TypeOK
  <2>5. CASE Tick
    BY <2>5 DEF Tick, TypeOK
  <2>6. CASE Withdraw
    BY <2>6 DEF Withdraw
  <2>7. CASE UNCHANGED <<conn, token, grant>>
    BY <2>7
  <2> QED
    BY <2>3, <2>4, <2>5, <2>6, <2>7 DEF Next, vars, StartOAuthFlow, Consent, SpendCode, HandOut,
       RefreshAndHandOut, ForceRefresh, Worker, WorkerRefreshes, Toggle, ChangeMaster,
       ConfigureSecret
<1> QED
  BY <1>1, ConnectionsInductive, PTL DEF Spec, UnreadableIsKept

=============================================================================
