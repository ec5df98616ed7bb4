------------------------------- MODULE Access -------------------------------
(* Who may call what: the operations the REST routes and the MCP tools offer,  *)
(* the guard each one meets in core, and the requests that change which keys   *)
(* and inboxes there are.  A principal is read once, at the start of a request *)
(* (authenticate); what the request writes later relies on it, so a key that   *)
(* is revoked in between still acts.                                           *)
(*                                                                             *)
(* An operation is named by the core function that performs it.  What the      *)
(* reading operations return and what sending, drafts and mail change is the   *)
(* matter of the other modules; here only their guards count.                  *)
EXTENDS Naturals, Sequences, FiniteSets

CONSTANTS
  Owner,      \* accounts
  OperatorAccount,   \* the account of the operator token, one of Owner
  Box,        \* inbox addresses
  Client,     \* requests under way at once
  Nobody,     \* owner of an address without an inbox
  Roles,      \* what role each account may have at the start
  MaxKeys,    \* bound: rows of api_keys
  MaxCodes,   \* bound: authorization codes of an account that wait for their exchange
  MaxKilled   \* bound: requests that die half way

ASSUME AccessAssumption ==
  /\ OperatorAccount \in Owner /\ Nobody \notin Owner
  /\ Roles \subseteq [Owner -> {"none", "member", "admin"}]
  /\ MaxKeys \in Nat \ {0} /\ MaxCodes \in Nat /\ MaxKilled \in Nat

VARIABLES
  keys,       \* api_keys: a sequence of rows
  owner,      \* inboxes: the account of each address
  role,       \* memberships: "none", "member" or "admin" of the one org
  codes,      \* oauth_codes: how many of each account are neither used nor expired
  client,     \* what each request is doing
  recovered,  \* history: the key whose verify last revoked the others
  loose,      \* history: keys that escaped a revocation, and how they came
  exchanged,  \* history: keys an exchange minted since their account was last recovered
  killed

accessVars == <<keys, owner, role, codes, client, recovered, loose, exchanged, killed>>

----------------------------------------------------------------------------
(* The MCP tools, one set per registering function.                           *)
OnboardingTools == {"signup", "verify", "readDocs"}
AccountTools == {"me", "createApiKey", "getUsage"}
InboxTools == {"listInboxes", "createInbox", "getInbox", "deleteInbox"}
ThreadTools == {"listThreads", "getThread", "updateThreadLabels", "deleteThread"}
MessageTools ==
  {"listMessages", "searchMessages", "getMessage", "waitForMessage", "updateMessageLabels",
   "deleteMessage", "batchUpdateLabels", "batchDeleteMessages", "getAttachment"}
DraftTools == {"createDraft", "listDrafts", "getDraft", "updateDraft", "deleteDraft", "sendDraft"}
SendingTools == {"sendMessage", "replyToMessage", "forwardMessage"}
WebhookTools == {"createWebhook", "listWebhooks", "getWebhook", "updateWebhook", "deleteWebhook"}
DomainTools == {"listDomains", "addDomain", "verifyDomain", "deleteDomain"}
SuppressionTools == {"listSuppressions", "addSuppression", "removeSuppression"}
DeliverabilityTools == {"getDeliverability", "listDmarcReports", "getDmarcReport"}
OrgTools ==
  {"createOrg", "listOrgs", "getOrg", "createInvite", "listInvites", "revokeInvite",
   "listMembers", "updateMember", "removeMember", "provisionInbox", "listAudit"}

\* A connection without a principal gets the onboarding tools, any other the rest.
KeyedTools ==
  UNION {AccountTools, InboxTools, ThreadTools, MessageTools, DraftTools, SendingTools,
         WebhookTools, DomainTools, SuppressionTools, DeliverabilityTools, OrgTools}

(* The REST routes behind requireAuth, one set per routes file.               *)
MessageRoutes ==
  {"listMessages", "searchMessages", "waitForMessage", "sendMessage", "batchUpdateLabels",
   "batchDeleteMessages", "getMessage", "getRawMessage", "updateMessageLabels",
   "deleteMessage", "replyToMessage", "forwardMessage"}
OrgRoutes ==
  {"createOrg", "listOrgs", "getOrg", "createInvite", "listInvites", "revokeInvite",
   "listMembers", "updateMember", "removeMember", "provisionInbox", "listAudit"}
DraftRoutes == {"listDrafts", "createDraft", "getDraft", "updateDraft", "deleteDraft", "sendDraft"}
AttachmentRoutes == {"getAttachment", "getAttachmentText"}
ThreadRoutes == {"listThreads", "getThread", "updateThreadLabels", "deleteThread"}
DomainRoutes == {"listDomains", "addDomain", "getDomain", "verifyDomain", "deleteDomain"}
WebhookRoutes == {"listWebhooks", "createWebhook", "getWebhook", "updateWebhook", "deleteWebhook"}
InboxRoutes == {"listInboxes", "createInbox", "getInbox", "deleteInbox"}
SuppressionRoutes == {"listSuppressions", "addSuppression", "removeSuppression"}
DeliverabilityRoutes == {"getDeliverability", "listDmarcReports", "getDmarcReport"}
KeyRoutes == {"listApiKeys", "createApiKey", "revokeApiKey"}
UsageRoutes == {"getUsage"}
AgentRoutes == {"signup", "verify", "me"}   \* signup open, verify also for a pending key

KeyedRoutes ==
  UNION {MessageRoutes, OrgRoutes, DraftRoutes, AttachmentRoutes, ThreadRoutes, DomainRoutes,
         WebhookRoutes, InboxRoutes, SuppressionRoutes, DeliverabilityRoutes, KeyRoutes,
         UsageRoutes, AgentRoutes \ {"signup", "verify"}}

----------------------------------------------------------------------------
(* What core demands.                                                         *)

\* The functions that begin with requireInbox or requireThread.
InboxScoped ==
  {"getInbox", "deleteInbox", "listThreads", "getThread", "updateThreadLabels", "deleteThread",
   "listMessages", "searchMessages", "waitForMessage", "getMessage", "getRawMessage",
   "updateMessageLabels", "deleteMessage", "batchUpdateLabels", "batchDeleteMessages",
   "sendMessage", "replyToMessage", "forwardMessage", "getAttachment", "getAttachmentText",
   "createDraft", "listDrafts", "getDraft", "updateDraft", "deleteDraft", "sendDraft"}

\* requireOrg: members only; requireOrgAdmin: its admins only.
MembersOnly == {"getOrg", "listMembers"}
AdminsOnly ==
  {"createInvite", "listInvites", "revokeInvite", "updateMember", "removeMember",
   "provisionInbox", "listAudit"}

\* requireDeploymentScope.
DeploymentScoped == {"listDmarcReports", "getDmarcReport"}

\* The functions that begin with requireFullScope, by themselves or through the above.
FullScoped ==
  UNION {MembersOnly, AdminsOnly, DeploymentScoped,
         {"createInbox", "createApiKey", "listApiKeys", "revokeApiKey", "createOrg", "listOrgs",
          "getDeliverability"},
         DomainRoutes, WebhookRoutes, SuppressionRoutes}

Wildcard == {"*"}                       \* scopes ["*"]; any other list names inboxes

HasFullScope(p) == p.scopes = Wildcard

AllowsInbox(p, b) == HasFullScope(p) \/ b \in p.scopes

\* getInboxForAccount, after the scope allowed it.
ReachesInbox(p, b) == AllowsInbox(p, b) /\ owner[b] = p.account

IsOrgAdmin(p) == p.account = OperatorAccount \/ role[p.account] = "admin"

Forbidden(p, op) ==
  \/ op \in FullScoped /\ ~HasFullScope(p)
  \/ op \in AdminsOnly /\ role[p.account] = "member" /\ p.account # OperatorAccount
  \/ op \in DeploymentScoped /\ ~IsOrgAdmin(p)

NotFound(p, op, b) ==
  \/ op \in InboxScoped /\ ~ReachesInbox(p, b)
  \/ op \in MembersOnly \cup AdminsOnly /\ role[p.account] = "none" /\ p.account # OperatorAccount

Answer(p, op, b) ==
  IF Forbidden(p, op) THEN "forbidden" ELSE IF NotFound(p, op, b) THEN "not_found" ELSE "ok"

----------------------------------------------------------------------------
(* authenticate, and the two surfaces.                                        *)

KeyIds == 1..Len(keys)
TokenKey == 0                            \* the operator token, not a row

Principal(k) ==
  IF k = TokenKey THEN [account |-> OperatorAccount, key |-> k, scopes |-> Wildcard]
  ELSE [account |-> keys[k].account, key |-> k, scopes |-> keys[k].scopes]

KeyState(k) == IF k = TokenKey THEN "live" ELSE keys[k].state

\* getApiKeyByHash: an activated key that is not revoked, or a pending one when allowed.
Authenticates(k, allowPending) ==
  KeyState(k) \in {"live"} \cup (IF allowPending THEN {"pending"} ELSE {})

\* requireAuth and requirePendingAuth.
HttpAnswer(k, op, b) ==
  CASE op = "signup" -> "ok"
    [] op # "signup" /\ Authenticates(k, op = "verify") -> Answer(Principal(k), op, b)
    [] OTHER -> "unauthorized"

\* The principal of an MCP connection: pending keys count for none.
McpAuthenticates(k) == Authenticates(k, FALSE)

\* signup and verify are called on a connection that shows no key: verify takes its own
\* as an argument.
McpAnswer(k, op, b) ==
  CASE op = "signup" -> "ok"
    [] op = "verify" -> IF Authenticates(k, TRUE) THEN "ok" ELSE "unauthorized"
    [] op \in KeyedTools /\ McpAuthenticates(k) -> Answer(Principal(k), op, b)
    [] OTHER -> "unauthorized"

----------------------------------------------------------------------------
\* A request about to write: the key it was let in with, or is to activate, the scopes of
\* the key it mints, the account it writes for.
Asking(step, k, S, a) == [at |-> step, key |-> k, scopes |-> S, account |-> a]

NoClient == Asking("none", TokenKey, {}, Nobody)

\* A row of api_keys; root is history, the signup key its line of minting starts from.
KeyRow(a, S, s, r) == [account |-> a, scopes |-> S, state |-> s, root |-> r]

AccessInit ==
  /\ \E a \in Owner \ {OperatorAccount} : keys = <<KeyRow(a, Wildcard, "live", 1)>>
  /\ owner \in [Box -> (Owner \ {OperatorAccount}) \cup {Nobody}]
  /\ role \in Roles
  /\ codes = [a \in Owner |-> 0]
  /\ client = [c \in Client |-> NoClient]
  /\ recovered = [a \in Owner |-> TokenKey]
  /\ loose = {} /\ exchanged = {}
  /\ killed = 0

Free(c) == client[c].at = "none"

May(k, op, b) == Authenticates(k, FALSE) /\ Answer(Principal(k), op, b) = "ok"

\* createApiKey up to its insert: the scopes are checked against the owned inboxes.
CreateKeyStart(c, k, S) ==
  /\ Free(c) /\ Len(keys) < MaxKeys /\ May(k, "createApiKey", CHOOSE b \in Box : TRUE)
  /\ \A b \in S \ Wildcard : owner[b] = Principal(k).account
  /\ client' = [client EXCEPT ![c] = Asking("mint", k, S, Nobody)]
  /\ UNCHANGED <<keys, owner, role, codes, recovered, loose, exchanged, killed>>

\* Whether what a request is about to write rests on a key that no longer counts.
ActsLate(k) == KeyState(k) # "live" \/ k \in loose

\* mintApiKey: the insert.
MintKey(c) ==
  /\ client[c].at = "mint" /\ Len(keys) < MaxKeys
  /\ LET p == Principal(client[c].key)
         new == Len(keys) + 1
     IN /\ keys' = Append(keys, KeyRow(p.account, client[c].scopes, "live",
                            IF p.key = TokenKey THEN new ELSE keys[p.key].root))
        /\ loose' = IF p.key = TokenKey \/ ActsLate(p.key) THEN loose \cup {new} ELSE loose
  /\ client' = [client EXCEPT ![c] = NoClient]
  /\ UNCHANGED <<owner, role, codes, recovered, exchanged, killed>>

\* revokeApiKey: one conditional update of a key of the caller's own account.
RevokeKey(k, j) ==
  /\ May(k, "revokeApiKey", CHOOSE b \in Box : TRUE)
  /\ keys[j].account = Principal(k).account /\ keys[j].state # "revoked"
  /\ keys' = [keys EXCEPT ![j].state = "revoked"]
  /\ UNCHANGED <<owner, role, codes, client, recovered, loose, exchanged, killed>>

\* signup for an address that has an account: the inbox it lacks, and a pending key.
SignupAgain(a) ==
  /\ a # OperatorAccount /\ Len(keys) < MaxKeys
  /\ IF \E b \in Box : owner[b] = a THEN UNCHANGED owner
     ELSE \E b \in Box : owner[b] = Nobody /\ owner' = [owner EXCEPT ![b] = a]
  /\ keys' = Append(keys, KeyRow(a, Wildcard, "pending", Len(keys) + 1))
  /\ UNCHANGED <<role, codes, client, recovered, loose, exchanged, killed>>

\* verify with the pending key and the right code; the code itself is in Accounts.
VerifyStart(c, k) ==
  /\ Free(c) /\ keys[k].state = "pending"
  /\ client' = [client EXCEPT ![c] = Asking("activate", k, {}, Nobody)]
  /\ UNCHANGED <<keys, owner, role, codes, recovered, loose, exchanged, killed>>

\* activateApiKey: it does not look at revoked_at, which stays.
ActivateKey(c) ==
  /\ client[c].at = "activate"
  /\ keys' = [keys EXCEPT ![client[c].key].state = IF @ = "pending" THEN "live" ELSE @]
  /\ client' = [client EXCEPT ![c].at = "revoke"]
  /\ UNCHANGED <<owner, role, codes, recovered, loose, exchanged, killed>>

OthersRevokedFull(k) ==                  \* mutant: scoped keys are left alone
  [j \in KeyIds |->
     IF keys[j].account = keys[k].account /\ j # k /\ keys[j].scopes = Wildcard
     THEN [keys[j] EXCEPT !.state = "revoked"] ELSE keys[j]]

\* revokeOtherApiKeys: every row of the account but the one kept, pending rows too.
OthersRevoked(k) ==
  [j \in KeyIds |->
     IF keys[j].account = keys[k].account /\ j # k THEN [keys[j] EXCEPT !.state = "revoked"]
     ELSE keys[j]]

RevokeOthers(c) ==
  /\ client[c].at = "revoke"
  /\ keys' = OthersRevoked(client[c].key)
  /\ LET a == keys[client[c].key].account
     IN /\ recovered' = [recovered EXCEPT ![a] = client[c].key]
        /\ exchanged' = {j \in exchanged : keys[j].account # a}
  /\ client' = [client EXCEPT ![c] = NoClient]
  /\ UNCHANGED <<owner, role, codes, loose, killed>>

\* submitAuthorizationCode, after consumeOtp: a code is approved for the account.
Approve(a) ==
  /\ a # OperatorAccount /\ codes[a] < MaxCodes
  /\ codes' = [codes EXCEPT ![a] = @ + 1]
  /\ UNCHANGED <<keys, owner, role, client, recovered, loose, exchanged, killed>>

\* deleteExpiredOauthCodes; an expired code is refused until then.
CodeExpires(a) ==
  /\ codes[a] > 0
  /\ codes' = [codes EXCEPT ![a] = @ - 1]
  /\ UNCHANGED <<keys, owner, role, client, recovered, loose, exchanged, killed>>

\* exchangeToken up to its claim: a conditional update, which one exchange wins.  It asks
\* for no key, and whether the account was recovered since the approval is not looked at.
ExchangeStart(c, a) ==
  /\ Free(c) /\ codes[a] > 0 /\ Len(keys) < MaxKeys
  /\ codes' = [codes EXCEPT ![a] = @ - 1]
  /\ client' = [client EXCEPT ![c] = Asking("redeem", TokenKey, {}, a)]
  /\ UNCHANGED <<keys, owner, role, recovered, loose, exchanged, killed>>

\* createAccountApiKey: a live key with the full scope.
RedeemKey(c) ==
  /\ client[c].at = "redeem" /\ Len(keys) < MaxKeys
  /\ LET new == Len(keys) + 1
     IN /\ keys' = Append(keys, KeyRow(client[c].account, Wildcard, "live", new))
        /\ exchanged' = exchanged \cup {new}
  /\ client' = [client EXCEPT ![c] = NoClient]
  /\ UNCHANGED <<owner, role, codes, recovered, loose, killed>>

\* removeMember up to the deletion of the membership; two admins at once are in Orgs.
RemoveStart(c, k, a) ==
  /\ Free(c) /\ May(k, "removeMember", CHOOSE b \in Box : TRUE)
  /\ role[a] # "none"
  /\ role[a] = "admin" => \E x \in Owner \ {a} : role[x] = "admin"
  /\ role' = [role EXCEPT ![a] = "none"]
  /\ client' = [client EXCEPT ![c] = Asking("evict", TokenKey, {}, a)]
  /\ UNCHANGED <<keys, owner, codes, recovered, loose, exchanged, killed>>

\* revokeAccountApiKeys: every row of the account.
RevokeAccount(c) ==
  /\ client[c].at = "evict"
  /\ keys' = [j \in KeyIds |-> IF keys[j].account = client[c].account
                               THEN [keys[j] EXCEPT !.state = "revoked"] ELSE keys[j]]
  /\ client' = [client EXCEPT ![c] = NoClient]
  /\ UNCHANGED <<owner, role, codes, recovered, loose, exchanged, killed>>

\* The worker of a request dies; a key it activated without revoking the others is loose.
RequestDies(c) ==
  /\ ~Free(c) /\ killed < MaxKilled
  /\ killed' = killed + 1
  /\ loose' = IF client[c].at = "revoke" THEN loose \cup {client[c].key} ELSE loose
  /\ client' = [client EXCEPT ![c] = NoClient]
  /\ UNCHANGED <<keys, owner, role, codes, recovered, exchanged>>

\* createInbox, and provisionInbox for a member of the org.
TakeBox(a, b) ==
  /\ owner[b] = Nobody
  /\ owner' = [owner EXCEPT ![b] = a]
  /\ UNCHANGED <<keys, role, codes, client, recovered, loose, exchanged, killed>>

CreateBox(k, b) == May(k, "createInbox", b) /\ TakeBox(Principal(k).account, b)

ProvisionBox(k, a, b) == May(k, "provisionInbox", b) /\ role[a] # "none" /\ TakeBox(a, b)

DeleteBox(k, b) ==
  /\ May(k, "deleteInbox", b)
  /\ owner' = [owner EXCEPT ![b] = Nobody]
  /\ UNCHANGED <<keys, role, codes, client, recovered, loose, exchanged, killed>>

AccessNext ==
  \/ \E c \in Client, k \in {TokenKey} \cup KeyIds, S \in {Wildcard} \cup (SUBSET Box \ {{}}) :
       CreateKeyStart(c, k, S)
  \/ \E c \in Client : \/ MintKey(c) \/ ActivateKey(c) \/ RevokeOthers(c)
                       \/ RedeemKey(c) \/ RevokeAccount(c) \/ RequestDies(c)
  \/ \E k \in {TokenKey} \cup KeyIds, j \in KeyIds : RevokeKey(k, j)
  \/ \E a \in Owner : SignupAgain(a) \/ Approve(a) \/ CodeExpires(a)
  \/ \E c \in Client, a \in Owner : ExchangeStart(c, a)
  \/ \E c \in Client, k \in {TokenKey} \cup KeyIds, a \in Owner : RemoveStart(c, k, a)
  \/ \E c \in Client, k \in KeyIds : VerifyStart(c, k)
  \/ \E k \in {TokenKey} \cup KeyIds, b \in Box : CreateBox(k, b) \/ DeleteBox(k, b)
  \/ \E k \in {TokenKey} \cup KeyIds, a \in Owner, b \in Box : ProvisionBox(k, a, b)

\* The requests on their own.
AccessSpec == AccessInit /\ [][AccessNext]_accessVars

----------------------------------------------------------------------------
(* Activating a key through verify "revokes every other key on the account":   *)
(* afterwards a key of the account works only if it is the recovered one or    *)
(* was minted along its line, unless a request that had been let in earlier    *)
(* minted it late, the operator minted it, or the verify died between its two  *)
(* updates; or unless an exchange minted it, or the key it descends from,      *)
(* since the revocation: an authorization code survives a recovery, so one     *)
(* that was approved before it still buys a full key after it.                 *)
SurvivorNeedsOverlap ==
  \A k \in KeyIds :
    LET a == keys[k].account IN
    \/ keys[k].state # "live" \/ recovered[a] = TokenKey \/ k \in loose
    \/ keys[k].root \in loose \cup exchanged
    \/ keys[k].root = recovered[a]
    \/ \E c \in Client : client[c].at = "revoke" /\ keys[k].root = client[c].key

\* The REST route or the MCP tool of an operation lets the key in.
Reached(k, op, b) ==
  \/ op \in KeyedRoutes /\ HttpAnswer(k, op, b) = "ok"
  \/ op \in KeyedTools /\ McpAnswer(k, op, b) = "ok"

(* docs/api.md: "A key holding only inbox: scopes reaches every inbox-scoped   *)
(* endpoint on those inboxes and nothing else", on either surface, but for the *)
(* list of its inboxes and GET /v1/auth/me, which "stays open to it".          *)
ScopedReachesInboxesOnly ==
  \A k \in KeyIds, b \in Box, op \in KeyedRoutes \cup KeyedTools :
    (keys[k].scopes # Wildcard /\ Reached(k, op, b)) =>
      op \in InboxScoped \cup {"listInboxes", "me"}
=============================================================================
