------------------------------ MODULE Providers ------------------------------
(***************************************************************************)
(* The provider classes of oaupa-server, as data: one record per class of  *)
(* src/app/providers, saying what its methods do of what the connection    *)
(* service can tell apart.  The endpoints, the scopes and the layout of    *)
(* requests and answers are left out.                                      *)
(*                                                                         *)
(*   announces  get_authorization_url puts the code_challenge in the URL   *)
(*   proves     exchange_code sends the code_verifier                      *)
(*   builds     exchange_code can build its TokenResponse from an answer   *)
(*   reads      the fields exchange_code takes from the answer             *)
(*   refreshes  refresh_token is implemented                               *)
(*   rereads    the fields refresh_token takes from the answer; all keep   *)
(*              the refresh token they have shown when there is no other   *)
(*   revokes    revoke_token calls the provider: never, if there is a      *)
(*              revoke_url, or always                                      *)
(*   identifies get_account_info calls the provider                        *)
(***************************************************************************)

Fields == {"refresh_token", "expires_in"}

ProviderClass ==
    [announces: BOOLEAN, proves: BOOLEAN, builds: BOOLEAN, reads: SUBSET Fields,
     refreshes: BOOLEAN, rereads: SUBSET Fields,
     revokes: {"never", "if url", "always"}, identifies: BOOLEAN]

\* OAuthProviderBase: what a class that overrides nothing else inherits.
Base == [revokes |-> "never", identifies |-> FALSE]

\* Mutant of Standard: exchange_code_standard leaves expires_in out of its
\* TokenResponse.
StandardUndated ==
    [announces |-> TRUE, proves |-> TRUE, builds |-> TRUE, reads |-> {"refresh_token"},
     refreshes |-> TRUE, rereads |-> Fields, revokes |-> Base.revokes, identifies |-> TRUE]

\* A class that uses build_authorization_url, exchange_code_standard and
\* refresh_token_standard with all that they offer, and asks for the account.
Standard ==
    [announces |-> TRUE, proves |-> TRUE, builds |-> TRUE, reads |-> Fields,
     refreshes |-> TRUE, rereads |-> Fields, revokes |-> Base.revokes, identifies |-> TRUE]

\* Mutant of GoogleProvider: the verifier is not handed on.
GoogleUnproved == [Standard EXCEPT !.proves = FALSE, !.revokes = "if url"]

GoogleProvider     == [Standard EXCEPT !.revokes = "if url"]
YouTubeProvider    == GoogleProvider
MicrosoftProvider  == Standard
AirtableProvider   == Standard
GitLabProvider     == Standard
AtlassianProvider  == Standard
DiscordProvider    == [Standard EXCEPT !.revokes = "if url"]
SalesforceProvider == [Standard EXCEPT !.revokes = "if url"]
DropboxProvider    == [Standard EXCEPT !.revokes = "always"]

\* These announce a challenge and never show its verifier.
SlackProvider  == [Standard EXCEPT !.proves = FALSE, !.revokes = "if url"]
GitHubProvider == [Standard EXCEPT !.proves = FALSE, !.revokes = "if url",
                      !.reads = {"refresh_token"}]

\* These show a verifier they never announced.
HubSpotProvider   == [Standard EXCEPT !.announces = FALSE]
AsanaProvider     == [Standard EXCEPT !.announces = FALSE]
BoxProvider       == [Standard EXCEPT !.announces = FALSE, !.revokes = "if url"]
MailchimpProvider == [Standard EXCEPT !.announces = FALSE, !.refreshes = FALSE, !.rereads = {}]
TrelloProvider    == [Standard EXCEPT !.announces = FALSE, !.refreshes = FALSE, !.rereads = {}]

\* These do neither.
Unproved            == [Standard EXCEPT !.announces = FALSE, !.proves = FALSE]
PayPalProvider      == Unproved
StripeOAuthProvider == [Unproved EXCEPT !.reads = {"refresh_token"}, !.revokes = "if url"]
NotionProvider      == [Unproved EXCEPT !.reads = {}, !.refreshes = FALSE, !.rereads = {}]

\* TokenResponse has no expires_at, which exchange_code passes: it always raises.
SquareProvider == [Unproved EXCEPT !.builds = FALSE, !.reads = {},
                      !.rereads = {"refresh_token"}, !.revokes = "if url",
                      !.identifies = Base.identifies]

\* PROVIDER_CLASSES, and get_provider_class.
ClassOf ==
    [google |-> GoogleProvider, github |-> GitHubProvider, slack |-> SlackProvider,
     microsoft |-> MicrosoftProvider, notion |-> NotionProvider,
     airtable |-> AirtableProvider, discord |-> DiscordProvider,
     gitlab |-> GitLabProvider, atlassian |-> AtlassianProvider,
     hubspot |-> HubSpotProvider, salesforce |-> SalesforceProvider,
     mailchimp |-> MailchimpProvider, stripe |-> StripeOAuthProvider,
     paypal |-> PayPalProvider, square |-> SquareProvider, dropbox |-> DropboxProvider,
     box |-> BoxProvider, asana |-> AsanaProvider, trello |-> TrelloProvider,
     youtube |-> YouTubeProvider]

\* The rows that seed_providers.py inserts with a revoke_url.
WithRevokeUrl ==
    {"google", "slack", "discord", "github", "salesforce", "stripe", "square", "box",
     "youtube"}

Seeded == DOMAIN ClassOf

=============================================================================
