# Formal models of id-jag-the-hard-way

This directory holds TLA+ models of the programs of this repository, the TLC
configurations that model-check them, and proofs that TLAPS checks. The
repository shows how AI clients reach protected MCP servers with ID-JAGs and
Athenz access tokens: the Hub registers servers and says which roles their tools
need, a credential broker on the user's machine logs in at the MCP Gateway, the
Gateway turns the login into Athenz tokens, and proxies in the cluster verify,
exchange and meter what passes through them. The models are translated from the
source; `PROJECT.json` ("map") names the lines that each definition stands for.

Contents: 1 the system, 2 modules, 3 runs, 4 theorems, 5 known deviations,
6 not modelled, 7 plan.

## 1. The system

| Part | State it keeps | Operations | Talks to |
| --- | --- | --- | --- |
| Credential broker, session cache (`mcp-credential-broker/src/sharedSession.ts`, `authenticatedFetch.ts`, `index.ts`) | one credential file and one lock file per issuer, shared by all processes of the user | use, log in, write, invalidate, retry once, `--logout`, reclaim a stale lock | Gateway (HTTP), file system, other broker processes |
| Credential broker, login (`oauth.ts`) | loopback server, pending redirect, timeout | register, open browser, wait, redeem | browser, Gateway |
| MCP Gateway, OAuth (`mcp-gateway/src/routes/oauth.ts`, `utils/oauthStore.ts`, `utils/sessionStore.ts`) | in-memory clients, transactions, codes, sessions, logout tickets | authorize, callback, token, logout ticket, logout, revoke | browser, broker, Keycloak |
| MCP Gateway, tokens (`services/athenz.ts`, `routes/protected.ts`) | caches of ID-JAGs and access tokens per session, issuances in flight | `/mcp/{id}` requests: session, route, token, answer | registry, ZTS |
| MCP Gateway, registry (`services/mcpRegistry.ts`) | cached routes with a lifetime | refresh, look up | Hub |
| Core MCP proxy (`core_mcp_proxy/src`) | cached routes | discover, look up, forward | Kubernetes, MCP servers |
| GenAI proxy (`genai_proxy/src/server.ts`, `usage.ts`, `billing.ts`) | usage per project and day, in memory and in a file | admit, stream, charge, save, load | AI provider, file system |
| MCP Runtime Proxy, calls (`mcp-runtime-proxy/src/proxy.ts`, `auth.ts`, `tokenExchange.ts`) | cached key set, fetch in flight, token files | verify, refresh keys, exchange, publish, forward, remove | ZTS, MCP server in the same pod |
| MCP Runtime Proxy, identity (`identity.ts`) | service certificate in a Secret and in memory | issue, wait for projection, renew | ZTS, Kubernetes |
| Hub, registration (`idthw_hub/features/registration`, `app/api/mcp-servers`) | none of its own: Deployments, Services and Secrets; roles, policies and service keys in ZMS | create, update and delete a server, edit one tool's permissions, ask for access | Kubernetes (kubectl), ZMS |
| Hub, workflow (`features/workflow`, `app/api/workflow-*`, `permission-requests`) | ConfigMaps: form templates, applications, permission requests | edit a form, answer it, approve, clean up, demo grants | Kubernetes, ZMS |
| Hub, permissions (`features/permissions`) | settings in an annotation of the Deployment and in a preset document; drafts in the browser | parse, merge, resolve, edit, look roles up | registration, ZMS |
| Hub, readiness (`fetchPermissionReadiness.ts`, `PermissionReadinessSection.tsx`, `McpAccessRequestSection.tsx`) | what a page shows | look every membership and policy up, list tools, ask for access | ZMS, Gateway |
| Hub, listing (`app/api/mcp-servers/route.ts`) | none | list servers with the roles of their tools | Kubernetes; read by the Gateway |
| athenzd (`athenzd/internal`) | token cache, configuration, daemon's pid and port files | login, switch project, start and stop the GenAI daemon | Gateway, GenAI proxy |
| AI client gateway (`ai_client_gateway/src`) | pending OAuth states | adapt a client's requests | Gateway |
| Demo API, identity-provider plug-ins, labs, deployment | none | | |

What is hard about them:

- *Processes that share files* (broker): every step is a file-system call, and
  other processes act in between. A process may be killed inside the critical
  section.
- *Event loops* (Gateway, proxies): between two awaits anything else may run.
  What was read before an await may be stale after it; several requests may
  await one promise.
- *Browsers* (login, Hub): any URL may be loaded at any time, again, or never; a
  page shows what was read when it was opened; answers to look-ups come late, in
  any order, or not at all.
- *Time*: codes, sessions, tokens, caches, locks and waits all expire, and a
  timeout races the answer that it waits for.
- *Partial failure*: ZTS grants a part of what is asked, a save fails, an answer
  is lost, a series of ZMS and kubectl calls stops in the middle.
- *Objects without transactions* (Hub): documents are read, compared and written
  back with no lock and no resource version while others do the same.
- *Two derivations of one fact*: the roles of a tool are worked out for the page
  and for the Gateway by two code paths; a draft is settings translated, and
  translated back.

`PROJECT.json` lists each hazard at its line, with the properties for it.

What makes each part correct: the broker opens one browser at a time and never
loses a session that still works; a sign-in yields one session, for the login
that asked; a request is answered with its own user's token for its own tool's
scopes; a call reaches the server whose access was asked for; a project cannot
overspend by more than what was in flight; a call is judged by the keys ZTS
publishes and leaves no delegated token behind; a server that runs has what its
Deployment names, and one that is deleted leaves nothing; a decision stands, an
edit is not lost, an answer stays under its question; what an editor shows is
what the tool will require; what a page reports was true.

## 2. Modules

| Module | Models | Proofs |
| --- | --- | --- |
| `SharedSession` | the broker's lock-file protocol, composed with requests, logouts and the Gateway's view of sessions | `SharedSession_proofs` |
| `SessionCache` | what that protocol promises: an atomic session cache | (refined by `SharedSession`) |
| `GatewayLogin` | the login: broker, browser, Gateway stores, Keycloak | `GatewayLogin_proofs` |
| `Scopes` | Athenz scopes with and without domain, `scopesCover`, what scopes denote | |
| `AthenzTokens` | the Gateway's protected route and its token manager | `AthenzTokens_proofs` |
| `McpRouting` | Hub listing, Gateway registry, Core MCP proxy: how a call finds its server | `Permissions_proofs` |
| `RuntimeProxy` | a protected call, the key cache, token files | `Proxies_proofs` |
| `GenAIProxy` | metering, limits, persistence | `Proxies_proofs` |
| `HubRegistration` | the five operations on a server, in Kubernetes and ZMS | `HubRegistration_proofs` |
| `HubWorkflow` | form templates, applications, decisions, permission requests, demo grants | `HubWorkflow_proofs` |
| `PermissionSettings` | the settings of a server's tools: validation, merging, resolution, drafts (no state) | `Permissions_proofs` |
| `PermissionEditor` | the dialog and the wizard that edit them | `PermissionEditor_proofs` |
| `PermissionReadiness` | the page that checks them in Athenz and asks for access | `Permissions_proofs` |

A module `MC<Module>` gives the constants their values for TLC.
`PermissionSettings` is used by `PermissionEditor`, `PermissionReadiness` and
`McpRouting`, which is how the two derivations of a tool's roles meet.

### SharedSession, SessionCache

`proc[p].pc` is the place in `sharedSession.ts` where process `p` awaits the
file system, the browser or the Gateway; an action is the code from one await
to the next. `lock` is the owner named in the lock file (its nonce), `mtime` its
age, `cred` the session in the credential file, `live` the sessions that the
Gateway still accepts. `Connectors` run `authenticatedFetch`: one request, one
invalidation, one retry. `Logouts` run `clearAll`. `Crash` kills a process
anywhere; in the critical section its lock file stays (`orphans`). A failed
write of a fresh lock file leaves it behind too.

`SessionCache` has no lock: a session, whether one flow is in progress, and
atomic steps. `SharedSession!ImplementsCache` says that the protocol implements
it while no lock file has been left behind: one flow at a time, begun only when
there is no usable session, and no session dropped that the Gateway accepts
unless a logout is running.

### GatewayLogin

`signIns` numbers the requests to `/oauth/authorize`; the number stands for the
random token that identifies what the sign-in has become: a transaction, a
callback that awaits Keycloak, a code, a session, a ticket. `urls` holds every
URL a browser was ever sent to; `LoadCallback` and `LoadLoopback` may load each
again at any time. Loopback ports are reused (`Ports` is smaller than `Logins`),
so a late redirect can reach another login.

### Scopes, AthenzTokens

`Order` lists scopes as Athenz writes them, sorted; a scope without domain has
`NoDomain`. `Denoted` is what a grant means. `ScopesCover` is `scopesCover` with
its greedy matching, stated by what the loop has taken in the end: each requested
scope a granted one, no two the same, and each the first that was left.
A request goes through `authenticate`, the registry, the token
manager (cache, join, ID-JAG, access token) and is answered; settling an
issuance answers all who joined. ZTS may grant any subset with any lifetime of
`Lives`. Entries of dead sessions stay, as in the code, until they are looked at.

### McpRouting

`deployments` and `services` are what the Kubernetes API has; they change while
calls run. `Registry` is the Hub's listing of a set of Deployments, `Routable`
the Core MCP proxy's. `cache` holds the routes that each of the two remembers; a
miss reads (`...Read` notes the moment, the landing may be later), and of several
misses the last to land stays. A call goes from the Gateway's look-up through the
scopes it asks for to the Core proxy's look-up and its upstream; the id is all
that goes from one to the other. `settles` records until when a cache may still
remember the former owner of an id.

### RuntimeProxy

`cache` and `pending` are the two variables of `createRemoteJwksKeyResolver`. A
fetch reads the keys (`FetchRead`) at one moment between its begin and its end.
`stage` says which refreshes a call has behind it: one for an unknown key id,
one for a signature that does not verify. `files` are the token files by path,
with the call whose token they hold. A client may leave at any time; before
`proxyRequest` nobody notices, which `Forward` models by its choice of `gone`.
Public requests and probes change no state and are left out.

### GenAIProxy

`spent` is the store in memory, `saved` the file, `served` what the upstream
really charged. `Charge` is the end of a stream: recorded, then saved, and the
save may fail. `MeterRestarts` loads the file. `Midnight` begins a new day, also for
requests in flight.

### HubRegistration

`op[o]` is one HTTP request, with its place in the series of calls that its
handler makes; every call to kubectl or ZMS is an action, and `CallFails` may
end any of them with an error. `objects` are the Kubernetes objects of a server,
`deployed` what its Deployment says, `zms` the facts that ZMS holds: roles,
members, assertions. An `ensure...` function is a list of fact sets, each looked
for, put and looked for again (`CheckFacts`, `PutFacts`, `VerifyFacts`).
An operation that succeeds is judged at that step (`AccessProvided`,
`DeletionComplete`), for the objects may change right after. `raced` and
`contended` record which servers had two creations, or a deletion
and something else, at once.

### HubWorkflow

`tab[c]` is a browser page with the request it has sent: what it shows
(`version`, `rows`) was read when it was opened, `pc` is the place in the
handler, `todo` what remains of a list. A template's editor keeps keyed rows,
which may be added, moved, removed and changed. `templates`, `applications` and
`requests` are the ConfigMaps. `clashed`, `crossed` and `doubled` record which
templates, applications and permissions two pages handled at the same time, for
the code compares and then writes without holding anything; the properties say
what holds for all others.

### PermissionSettings, PermissionEditor

`PermissionSettings` has no variables: settings, their validators
(`...Valid`), `Merged` (preset and override), `Definition` (the rows that a page
resolves: memberships, managed and tool rows, generated or customised exchange
helpers, policies), `ToolScopes` (the roles that the listing derives), and the
drafts of dialog and wizard with their way back (`ConfiguredRows`).

In `PermissionEditor`, `dialog.rows` is the draft, `selects` the role menu of
each row with the look-up on its way (`lookup`) and the audience it was asked
for, `put` the saves. Administrators make and remove roles meanwhile.

### PermissionReadiness

`load` is one load of the page by the Hub: its session with the server, the list
of tools, and the look-ups in ZMS, one action each and in any order. The list of
tools shares no state with the look-ups, so the model takes it before them.
`members` and `policies` change while it runs; `history` collects what was true
during the load, `since` which managed facts stayed since the page was asked for.
One bound (`MaxEvents`) counts changes and failures together.

## 3. Runs

| Run | Question | Instance |
| --- | --- | --- |
| `shared_session` (`MCSharedSession.cfg`) | Do the lock and the cache do what they promise? `LockDiscipline`, `OneBrowserFlow`, `ImplementsCache` | two connectors, a logout, two logins, no orphaned lock |
| `shared_session_recovery` (`MCSharedSessionRecovery.cfg`) | Does every request end, even behind a killed process's lock? `RequestsEnd` | one crash in the critical section, the clock passes `LockStale` |
| `gateway_login` (`MCGatewayLogin.cfg`) | Is a sign-in used once, by its own login, and does each login end? `SignInOnce`, `OwnSignIn`, `BeginsFresh`, `TicketEndsSession`, `LoginEnds` | two logins on one port, two sign-ins, ID tokens that outlive codes and some that do not |
| `athenz_tokens` (`MCAthenzTokens.cfg`) | Is each request answered with its own usable token, at the cost of one issuance? `RightToken`, `OneIssuance`, `AnswersUsable` | two sessions, two requests, tools with roles of their server's and of another domain, partial grants |
| `mcp_routing` (`MCMcpRouting.cfg`) | Does a call reach the server whose access was asked for, and is that access what the page says? `Fresh`, `SameServer`, `AsksWhatPageShows` | two calls, two servers that may claim one id, two changes, failing reads |
| `registry_emptied` (`MCMcpRoutingUnscoped.cfg`) | Does a tool without requirements leave its server reachable? It does not: `StandardAccessApplies` is violated. | one good server, one without access scope, nothing changes, nothing fails |
| `runtime_proxy` (`MCRuntimeProxy.cfg`) | Are keys neither refused nor honoured wrongly, and token files each call's own? `KeyNotRefused`, `StaleKeyBounded`, `OwnToken`, `FilesInUse`, `LeavingEnds` | two calls of one or two tools, one key id, two keys, rotation, restart, failed removal |
| `genai_proxy` (`MCGenAIProxy.cfg`) | Is usage durable, and overspending bounded? `Durable`, `NeverOvercharged`, `OverspendBounded` | two projects, two requests, midnight, failed saves, restarts |
| `hub_registration` (`MCHubRegistration.cfg`) | Does what runs have what it names, and is what succeeded complete? `ReferencesResolve`, `KeyRegistered`, `RefusalIsClean`, `AccessProvided`, `DeletionComplete` | three requests of any kind on one server, two at a time, one failed call |
| `hub_workflow` (`MCHubWorkflow.cfg`) | Do answers, edits, decisions and requests survive one another? `TypeOK`, `AnswersToWhatWasShown`, `PendingOnce`, `EditsAreKept`, `DecisionsStand` | two pages at a time, four in all, two users, one template, two fields, one failed call |
| `permission_editor` (`MCPermissionEditor.cfg`) | Is what a draft shows what the tool will require? `ShownIsRequired`, `UnchangedIsNeutral`, `RoleFromList`, `RoleLostOnlyIfGone` | settings of each form (none, empty, generated and customised helpers, two rows, default, legacy, preset), two edits, two look-ups, a save, a change by others |
| `permission_readiness` (`MCPermissionReadiness.cfg`) | Was what the page reports true? `StatusesWereTrue`, `ApprovedWasVerified`, `NothingHidden` | settings of each form, two loads, two changes or failures |

`TypeOK` of `HubWorkflow` is a property of its own: every listing parses every
ConfigMap and fails on the first that its parser refuses, so each stored document
must be one that the next reader accepts.

### Bounds, and why they are enough

Every bound is a constant marked "model bound" in its module.

- *Processes, requests, calls, pages*: two at a time. The races are between a
  pair: who locks and who reclaims, who owns an issuance and who joins, whose
  file and whose token, who compared and who patched. `HubRegistration` has a
  third request, so that what two left behind is met by another. The proofs have
  no such bound.
- *Time*: `MaxTime` lets every limit pass at least once in a run: a lock becomes
  stale and a wait ends after it (`LockStale` < `MaxWait` = 2, 3), a transaction,
  a code and an ID token expire while they are held, a token goes below the skew,
  a cached key set or route list expires and is fetched again. Limits are 1 to 3,
  in the order the code's have (a login's timeout is shorter than the life of its
  transaction). `SharedSession` assumes that a critical section is shorter than
  the age at which its lock may be reclaimed (`HoldLimit`): the login timeout of
  five minutes and two requests of ten seconds, against ten minutes.
- *Logins, sign-ins*: two, so that there is an old one and a new one.
- *Money*: a limit of two, requests of cost 0 or 1, two days.
- *Keys*: one key id and two keys: a rotation under the same id and back, an id
  that is withdrawn, and one that appears after the fetch.
- *Documents*: two fields and two options reach the limits of 30 and 20 in the
  same way; `MaxListed` = 2 stands for the listing that kubectl.ts refuses to
  read; a template has up to three versions, so that a page may be one or two
  behind.
- *Settings*: one of each form that the parsers tell apart, with at most two rows.
- *Failures*: one in the Hub's series of calls; a second would end another
  request in the same way. Unbounded in the other modules.
- `RuntimeProxy` bounds a fetch by `FetchTime`. The code's timeout is for an idle
  socket, so this is an assumption on ZTS: that it does not trickle.

`SYMMETRY` is used where requests, sessions, pages or processes are
interchangeable and no liveness is checked.

### Fairness

Fairness is assumed only of what the program or a timeout drives.

- `SharedSession!FairSpec`: a running process goes on and the clock ticks. A
  browser login ends because the login's timer does. Users, crashes and the
  Gateway need do nothing.
- `GatewayLogin!FairSpec`: the login's own steps and the clock. The browser need
  do nothing: a login that nobody completes ends by its timer.
- `RuntimeProxy!FairSpec`: the event loop runs; a fetch is not assumed to end,
  nor an upstream server to answer.

The Hub's modules, `AthenzTokens`, `McpRouting` and `GenAIProxy` state safety
only: what ends their waiting are kubectl, ZMS, ZTS, Kubernetes and AI providers.

`CHECK_DEADLOCK FALSE` stands where a system may stop: all logins have ended, all
calls were answered, no page is open and the bounds are reached. In the two
`SharedSession` runs and in `athenz_tokens`, deadlock is checked.

## 4. Theorems

TLAPS proves these for any number of processes, requests, projects, logins,
pages and servers and all values of the time limits.

**SharedSession_proofs.** `TypeCorrect`, `LockIsDisciplined`, `FlowsAreExclusive`,
`Implementation`, from the invariant `IInv` (`Inductive`): types, and `Guarded`,
which is `LockDiscipline` under the condition that no lock file was left behind.
`LockDiscipline` is inductive because a process that is about to reclaim a lock
must have found it stale, and a lock younger than `LockStale` is never found so;
the guard on `Tick` (`HoldLimit`) carries the assumption on critical sections.
For the refinement, the cached session must also be known to the processes that
are about to write, use or reject it (`Known`): only the process in the critical
section writes, and a session that is rejected was read under the same lock.

**GatewayLogin_proofs.** `TypeCorrect`, `SignInsUsedOnce`, `SignInsAreOwn`,
`SessionsBeginFresh`, `TicketsEndSessions`. A sign-in's number is fresh when it
begins (`Numbered`), moves from store to store and never stays (`SignInOnce`),
and everything that holds it, redirects in the browser included, belongs to one
login (`Owned`). `BeginsFresh` needs that a code ends with its ID token
(`CodesEnd`), `TicketsEndSessions` that nothing is left of a sign-in with a
ticket (`Over`).

**AthenzTokens_proofs.** `IssuancesAreShared`, `TokensAreUsable`, `TokensAreOwn`,
`TokensAreRight`. `OneIssuance` is inductive with the shape of the requests
(`Shape`): an issuance begins only where none is pending, and settles with all who
wait for it. For the tokens, every cached grant must be its session's own (`Own`),
also the assertion that a request holds between its two calls to ZTS;
`RightAnswers` then says whose token an answer has, for which audience, that it is
usable and ends with its session, and that its scopes matched those asked for.
What that match means is the second half: every grant is some set of full scopes
as ZTS writes it for the audience (`Understood`), and of such a set, `MatchMeans`
says that it matches what was asked for only if it is that. The last holds under
`OwnRolesDiffer`, a hypothesis of the theorem and no `ASSUME` of the module: no role of a server's own domain has a namesake in another domain. The
registry does not enforce it; section 5 says what happens without it. The
instance of `athenz_tokens` satisfies it.

**Proxies_proofs**, of `RuntimeProxy`: two invariants, one for each half. `FilesIInv`: a file is
where its call would write it, and its call is one that will remove it (`Placed`);
a step of another call does not touch either (`Quiet`). Hence `TokensAreOwn` and
`FilesAreInUse`. `KeysIInv`: how old the keys can be that a fetch in flight has
read (`PendingFits`), that the cache holds (`CacheFits`) and that a call has in
its hand (`CallFits`); a key that was published all along is in each of them.
Hence `KnownKeysPass`, and `StaleKeysExpire`, an action property: when a key was
withdrawn (`until`), the cache and one fetch are all that can extend its life.

**Proxies_proofs**, of `GenAIProxy`: `TypeCorrect`, `UsageIsDurable`, `NobodyIsOvercharged`,
`OverspendIsBounded`. The bound on the overspend is not inductive by itself:
`Room` says that what is spent today, and what the requests in flight may cost,
stays within the bound. A request is admitted below the limit only, so all
requests together have room; one that ends takes its cost out of its own share.
Midnight begins at zero.

**Permissions_proofs** and **PermissionEditor_proofs**, which extends it, are about the
three modules that read the settings of tools: they share what is proved of
`PermissionSettings`, what concatenating, selecting, merging and resolving rows of any
number keeps. A sequence is mostly looked at as the set of its elements; `Concatenated`
and `Selected` give the elements of what `FlattenSeq` and `SelectSeq` return, by
induction over positions (`SetInduction`, from the well-foundedness of the naturals).

*McpRouting.* `RoutesAreFresh`: a cache's expiry counts from the request,
not from the answer. The invariant relates each read in flight (`CallsWell`) and
each cache (`CacheWell`) to the clock, so that a slow answer that lands last does
not bring old routes back for a full life. `CallsReachTheirServer`, which is
`SameServer`, needs in addition what is known of the owners of ids
(`OwnersAreKnown`): a list that was read at some time and is remembered, or still
on its way, is either right about the owner of an id, or `settles` dates the change
after that read. A call carries what the Gateway knew to where the Core proxy looks
for itself; if both were right they agree, and if one was not, the call arrived
before its cache, which may have been read one life earlier, had settled.
`GatewayAsksWhatPageShows` compares two derivations. By `RoutesAreAccepted` every
route that is remembered, on its way or given to a call has settings that the Hub
accepted when it listed them, preset included, and the call has asked for what they
say. Of such settings, the tool rows of a group are the requirements in their order,
the managed rows come from the access scope, and merging drops a row only for an equal
membership; so the roles that a user's rows name are those that the listing joins.
A row may also name the user himself where his name is configured as a member,
which the property allows.

*PermissionReadiness.* `PageStatusesWereTrue`: while a load runs, what it has read of
a principal's roles or a domain's policies and need not read again is in `history`
(`RolesWereRead`, `KeysWereRead`), for `history` follows every change of Athenz
(`HistoryIs`); the answer is made of nothing else. `PageApprovedWasVerified`: what the
page shows as ready was true since it was asked for (`WasSince`), what a request
has not granted yet it still will (`ToGrant`), and so a request that ends with
success has granted or found all of it. `PageNothingHidden` is about the shape of
the answer (`Shaped`): it has a status for each row and policy, each row belongs to
one table, and each policy to the role of one of its rows.

*PermissionEditor.* `EditorAlwaysWell`: what has been accepted, edited, looked up or
typed stays well formed (`EditorWell`): settings in the Deployment and in saves on
their way, drafts, wizard, menus. With what the menus offer (`Offers`) and what the
rows name (`NamesOf`), `EditorRoleFromList` follows; with what each menu has looked
up (`LookedUpFor`), `EditorRoleLostOnlyIfGone`, an action property.
`EditorShowsRequired` follows a draft through the requirements made of it, what the
server parses of them, the rows the page resolves and the policies it adds. The rows
are those the draft displays, with those of the server's own access (`RowsMade`,
`RowsResolved`): merging drops no membership. The policies are those of customised
helpers (`PoliciesMade`) and those expected of each row of the signed-in user, which
are added where the role has a row and no helper has policies of its own (`Takes`,
`PoliciesResolved`). Two helpers of one role would have each other's policies
(`Entangled`), and a server without access audience has none to generate; that is
why `ShownIsRequired` leaves them out.
`EditorSavesUnchanged` goes the whole way round, from a page through the draft that
is made of it to the page of what that draft saves. Its invariant (`UneditedWell`)
has three parts: settings that are stored, or that a save is to merge its tool into,
are requirements that validation would accept again (`ValidSettings`); what the page
shows, and what editing began with, is the page of such requirements (`PageMade`);
and a draft that is `clean` is still the draft of that page. The rest is about data.
The draft has one row for each requirement, in their order (`DialogRowsOf`), with the
helpers of that requirement and of no other. What is sent for a row is its
requirement, where it has helpers with the policies that were displayed of each
(`StoredAs`), which are that helper's own because policies of one role are told apart
by the requirement they are for (`ToldApart`). That none of it is refused needs the
validity and the distinctness of what the page displayed (`SentRequirement`,
`PoliciesAreApart`). The page of it has the rows of the first one, the policies
aside, and resolves the same policies (`UneditedSaves`).

**HubRegistration_proofs.** `ReferencesAreThere`, `IdentitiesAreRegistered`,
`RefusalsAreClean`, `AccessIsProvided`, `DeletionsAreComplete`. Nothing is locked,
so all depends on what a request may still believe between two of its calls
(`Knows`, one formula per kind of thing): that the facts it has verified are in ZMS
(`ZmsKnown`), that the objects its list still names for creation are not there, or
for deletion are all there is (`ObjectsKnown`, with the Deployment after what it
names in the one and first in the other, `Precedes`), that the key it generated is registered before
its Secret is made (`KeysKnown`), and that before its dry run it has no key anywhere
(`Keyless`). Overlapping requests are on record (`Overlaps`), which is all that
makes these stable while others act. The two action properties then follow at the
step that ends a request with success: nothing was left on its list.

**HubWorkflow_proofs.** `AnswersFollowTheForm`, `RequestedOnce`, `NoEditIsLost`,
`DecisionsAreKept`, `DocumentsAreValid`. The properties are about what is stored;
the invariants add what the pages in flight know. In `IInv`: `RequestsFit`, of two
that are between the listing and the creation for one permission, or one beside a
pending request, the overlap was recorded. `EditorsFit`: outside of recorded
clashes one page at most is between reading a template's version and patching it,
and that version is still the stored one. `ApplicantsFit`: a registration page
shows the template as it is or as an earlier version was, and the application it is
about to store has the labels of the page. Most steps touch none of this
(`Harmless`), which is proved once per kind of step. In `FitInv` (`PagesFit`):
`TabsFit`, a form that was submitted is valid and stays so while its request runs,
and who decides is a user; `StoresFit`, documents are valid and numbered without
gaps, so that a new one replaces none; `DecidersFit`, what a page is about to
approve nobody has approved and nobody else is approving, but for those in
`crossed`; `CleanersFit`, what is about to be removed is approved, if it is still
there. The last two give `DecisionsStand`: no single call of the two handlers
looks at the status again.

The assumptions are the `ASSUME`s of the modules: limits are numbers, requests
are finitely many, "none" is not one of the things it stands for, the forms at the
start were accepted by the Hub (`SeedAssumption`), a scope is its domain and its
role (`ScopesAssumption`), the settings that servers start with were accepted by the
Hub and are sequences and records of the parsers' form (`SettingsFormed`). TLC
evaluates them in each run. Three theorems have a hypothesis of their own:
`TokensAreRight` has `OwnRolesDiffer`, and `EditorShowsRequired` and
`EditorSavesUnchanged` have `NothingAbsent`, that `None`, which stands for an absent
value, is no sequence, no settings record and not TRUE; TLC takes it for granted of a
model value and cannot evaluate it.

Where a proof did not go through, TLC showed why, and the model or the property
was corrected: `KeyRegistered` speaks of servers that are not `contended`, since an
update that began before a deletion may patch the identity it saw onto the server
created afterwards; `Owners` of an id counts Deployments with a project only, as
the two readers do, or one that leaves the Hub and one that enters under its id
would not count as a change. In the same way the cases that `ApprovedWasVerified`,
`NothingHidden`, `ShownIsRequired` and `RoleLostOnlyIfGone` except were found by
failed proof steps and replayed in the code; section 5 describes them.
The proof of `UnchangedIsNeutral` corrected both: the parser takes nothing but a
Boolean for `includeExchangeHelpers` and compares policies by effect, action and
resource (`RequirementsValid`, `PolicyIdentity`); a helper that names the template's
own account, of which a draft keeps the kind and not the name, comes back as the
account of the server (`NamesTemplate`, section 5), which no settings of the instance
have.

Only model-checked: all liveness (`RequestsEnd`, `LoginEnds`, `LeavingEnds`), which
needs fairness and ENABLED and is beyond the prover. Every other property that a
passing run checks is a theorem.

## 5. Known deviations

One run reproduces a disagreement between the code and its own words:

- `registry_emptied`: `toolAccessScopesFromSettings` (`permissionPreset.ts:361`)
  throws for a tool that requires no role on a server without an access scope.
  The listing then answers with no servers, status 200 and an `error` that the
  Gateway does not read (`mcpRegistry.ts:63`): all servers are gone until the
  cache expires. The editor says of such a tool "Standard MCP server access still
  applies." (`AdditionalToolAccessField.tsx:47`).

The others were met while modelling. They are part of the models, and the
properties leave out exactly these cases:

- *A reclaimed lock* (`sharedSession.ts:266`): `removeStaleLock` looks at the lock
  file and then unlinks the path. Between the two, another process may have
  reclaimed the lock and written its own; that one is removed, and both processes
  log in. `LockDiscipline` and `OneBrowserFlow` speak of the time before a lock
  file was left behind.
- *A logout without the lock* (`sharedSession.ts:149`): `clearAll` reads the
  credential before it locks. If there is none it unlinks the path without the
  lock, and with it a session that a login has just written; that session is not
  revoked.
- *Roles of one name in two domains* (`athenz.ts:422`): `scopesCover` takes a scope
  without domain for the role of any domain. Let a server of the project `core`
  have one tool mapped to core's `accessor` and core's `reader`, and another to
  core's `accessor` and api's `reader`. ZTS writes the first grant as "accessor
  reader", which also covers the second wish: a token cached for the first tool is
  handed out for a call of the second, against "Each `tools/call` obtains only the
  scopes mapped to `params.name`" (`mcp-gateway/README.md:51`). In the other
  direction, the greedy pairing can refuse a full grant. TLC finds the first as a
  violation of `RightToken` as soon as the instance has such roles;
  `TokensAreRight` excludes them by `OwnRolesDiffer`.
- *A token file that stays* (`proxy.ts:233`): the listeners for a client that
  leaves are registered when the call is forwarded. A client that left earlier is
  not noticed; a response with a body is piped into a closed connection, which
  never drains, so the call does not end and its token file stays until the pod
  goes.
- *A key that cannot be registered again* (`mcpResources.ts:400`): whether a
  deletion includes the identity is read from the Deployment; once access was
  switched to "server", the Secret and service account of the identity stay, and a
  new registration of the key finds them.
- *A cleanup that cannot begin* (`kubectl.ts:34`): a listing longer than the
  output limit is an error, also for the operation that would shorten it.
- *Approval without membership* (`McpAccessRequestSection.tsx:87`, `:125`): a tool
  that requires the server's own access role makes that row a tool row, and
  approval looks at managed rows only. The same goes for policies: if a helper of a
  tool has one that the server's own access needs, it is not expected a second time
  (`permissionPreset.ts:326`), and not managed. `ApprovedWasVerified` leaves both
  kinds of servers out (`OwnRoleRequired`, `OwnPolicySet`).
- *A status in no table* (`PermissionRequestDialog.tsx:73`, `:393`): a table shows
  the policies of the roles it has rows for. Where a tool requires the server's own
  access role, the row is the tool's and the policy of its role may be managed; the
  policy is in the count of the tool's status (`PermissionReadinessSection.tsx:230`)
  and in neither table. `NothingHidden` leaves such servers out.
- *A role taken by another's answer* (`AthenzRoleSelect.tsx:72`, `:81`): rows are keyed
  by position (`PermissionRequestDialog.tsx:539`), so after a removal a row has the
  menu of the one before it. If both have the same role, and the user had changed
  the other's audience to look there, the menu does not look the role up again; the
  answer it waits for is for the other audience, and takes the role from the row.
  `RoleLostOnlyIfGone` excepts just this.
- *Drafts that show less*: a requirement with helpers of its own for the server's
  own access role gets, once stored, the policies of managed access too, which the
  draft does not show; for a server without access audience the draft can generate
  no helpers, but saving includes them (`kubernetesCatalog.ts:176`). Two helpers of
  one role get each other's policies. `ShownIsRequired` leaves the three out.
- *A helper under the template's name* (`toolPermissionDraft.ts:277`): a draft keeps
  the kind of a helper's member, and the template's own account counts as the
  server's. Saving unedited settings that name it replaces it with the account of
  the server. `UnchangedIsNeutral` leaves it out (`NamesTemplate`), as it does a
  signed-in user's row without `includeExchangeHelpers`, for which the draft
  generates helpers (`Legacy1`), and two helpers of one role (`Entangled`).
- *A shared group that is not shown* (`PermissionReadinessSection.tsx:53`): the
  managed permissions of tools without settings of their own are shown only where
  the default is "none"; of a server without a preset they are resolved, and its
  tools appear as not configured. The Hub's README (`README.md:128`) has them
  shown.
- *One bad annotation* (`mcpRegistry.ts:87`): an access audience that the Gateway
  cannot parse makes it refuse the whole list, and every route fails with it.
- *Edits typed during a save* (`PermissionRequestDialog.tsx:198`): the fields stay
  enabled while a save runs; when it succeeds, editing ends and they are lost.
- *Only the first requirement* (`ToolPermissionAuthoring.tsx:226`): a change of the
  audience or the role in the wizard keeps a tool's first row only.
- *Two saves of tools at once* (`mcpResources.ts:348`): the settings are one
  annotation; the later patch drops the earlier change.
- *Two requests, two decisions, two edits at once* (`permissionWorkflowRequests.ts:41`,
  `workflowApplications.ts`, `workflowFormTemplates.ts:98`): both take effect, as
  `doubled`, `crossed` and `clashed` record.

## 6. Not modelled

- *Pages and reports* that show one read, health probes, the Gateway's internal
  status and the GenAI proxy's reports and token verification: no state that
  anything depends on.
- *Service identity* of the Runtime Proxy: one process, one pair of files, waiting
  for the kubelet.
- *athenzd*: the command line tool of one user; its daemon is an external process.
  *AI client gateway*: its pending OAuth states are those of `GatewayLogin` again.
- *Demo API, its MCP server, identity-provider plug-ins*: each validates or signs
  one document. *Labs, tools, deployment*: no program.
- HTTP, TLS, JSON and JWT are abstracted: a token is the claims the code looks at,
  an HTTP exchange is an answer, an error or a timeout. PKCE, state and nonces are
  modelled by the identity they establish. Keycloak, ZTS, ZMS and Kubernetes are
  external and may do whatever the code's use of them allows.
- Some reads inside the cluster have no timeout; the models let them take for
  ever, and no liveness is claimed of what waits for them.

## 7. Plan

Done, in this order: `SharedSession` with `SessionCache`, `Scopes` and
`AthenzTokens`, `GatewayLogin`, `GenAIProxy`, `RuntimeProxy`, `HubRegistration`,
`HubWorkflow`, `PermissionSettings` with `PermissionEditor` and
`PermissionReadiness`, `McpRouting`; proofs of every safety and action property that
a run checks.

1. Proofs: a refinement of an abstract token manager (see 4).
2. `ServiceIdentity`: issuance and renewal of the Runtime Proxy's certificate
   through the Secret and the kubelet's projection; that a renewed key and its
   certificate are used as a pair, and that a failed renewal leaves the old.
3. `Athenzd`: token cache, default project, daemon start.
4. Abstract specifications: a token manager that answers each request from one
   grant of its own session (for `AthenzTokens`), and a permission that is
   requested once and decided once (for `HubWorkflow`).
