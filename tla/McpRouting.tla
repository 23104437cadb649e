------------------------------ MODULE McpRouting ------------------------------
(***************************************************************************)
(* How a call of an MCP client finds its server.  Deployments of the       *)
(* cluster describe the servers.  The Hub lists them with the access that  *)
(* their tools need; the MCP Gateway caches the Hub's list, asks Athenz for *)
(* a token of the right scopes and sends the call to the Core MCP Proxy,   *)
(* which reads Deployments and Services itself, caches what it found, and  *)
(* forwards the call.  Only the id of the route goes from one to the other.*)
(* How a token is issued is in AthenzTokens, what an MCP server's sidecar  *)
(* does with the call in RuntimeProxy.                                     *)
(***************************************************************************)
EXTENDS PermissionSettings

CONSTANTS
    Descriptions, \* Deployments that the cluster may have
    ServiceSet,   \* Services that it may have
    Starts,       \* the sets of Deployments to start with
    Preset,       \* the preset document: an entry for each route id, or None
    Fallback,     \* MCP_GATEWAY_ACCESS_SCOPE
    Calls,        \* the calls of clients
    Asked,        \* what they ask for: an id and a request
    ReadsFail,    \* whether reads of the Kubernetes API may fail
    Ttl,          \* life of the caches, "gateway" and "core"
    MaxNow,       \* model bound: ticks of the clock
    MaxChanges    \* model bound: changes of the cluster

Caches == {"gateway", "core"}
VARIABLES
    deployments,  \* the Deployments, as the API server has them
    services,     \* the Services
    now,          \* the clock
    cache,        \* routes that the Gateway and the Core MCP Proxy remember
    calls,        \* the calls on their way
    settles,      \* (history) when the caches have forgotten an id's owner before
    changes

vars == <<deployments, services, now, cache, calls, settles, changes>>
cluster == <<deployments, services, settles, changes>>

----------------------------------------------------------------------------
(* Deployments.                                                            *)

Key(d) == <<d.namespace, d.name>>
RouteId(d) == IF d.id = None THEN d.name ELSE d.id
Ids == {RouteId(d) : d \in Descriptions}
BadId == "-"       \* an id that is no route id
RouteIdValid(id) == id # BadId
DistinctIdsIgnored(ds) == TRUE
DistinctIds(ds) == \A d, e \in ds : RouteId(d) = RouteId(e) => d = e

\* Of Deployments with one id the Gateway would take the last and the Core MCP
\* Proxy the first in the order of their names.
FirstOf(ds) == CHOOSE d \in ds : \A e \in ds : d.order <= e.order
LastOf(ds) == CHOOSE d \in ds : \A e \in ds : d.order >= e.order

\* The Hub: toolPermissionSettingsForServer and mergeToolPermissionSettings
Override(d) == IF d.settings = None THEN None ELSE Parsed(d.settings)
ServerSettings(d) == Merged(PresetEntry(Preset[RouteId(d)]), Override(d))
Accepted(d) ==
    /\ d.settings # None => SettingsValid(d.settings)
    /\ PresetEntryValid(Preset[RouteId(d)])
Scoped(d) ==
    ServerSettings(d) # None =>
       \A t \in DOMAIN ServerSettings(d).tools : ToolScopes(ServerSettings(d), d.scope)[t] # {}
AudienceOf(d) ==
    IF d.audience # None THEN d.audience
    ELSE IF d.scope = << >> THEN None ELSE d.scope[1].domain

Listed(ds) == {d \in ds : d.project # None /\ RouteIdValid(RouteId(d))}
ListingFails(ds) ==
    \/ ~DistinctIds(Listed(ds))
    \/ \E d \in Listed(ds) : ~Accepted(d) \/ ~Scoped(d)

\* GET /api/mcp-servers: the routes of a set of Deployments.  A listing that
\* fails is answered with no server and an error, which the Gateway ignores.
\* A route stands for what the Hub computes of its Deployment.
Registry(ds) ==
    IF ListingFails(ds) THEN << >>
    ELSE [id \in {RouteId(d) : d \in Listed(ds)} |->
            LastOf({d \in Listed(ds) : RouteId(d) = id})]

\* The Core MCP Proxy: the Service of a Deployment's name, or one that selects
\* its pods.
Reserved == {"core-mcp-proxy", "mcp-gateway"}
SelectorMatches(s, d) == s.selects = d.name
InferService(d, ss) ==
    LET near == {s \in ss : s.namespace = d.namespace}
        named == {s \in near : s.name = d.name}
    IN IF named # {} THEN named ELSE {s \in near : SelectorMatches(s, d)}
HasUpstream(d, ss) == d.url # None \/ InferService(d, ss) # {}
Routable(ds, ss) ==
    {d \in ds : d.project # None /\ d.name \notin Reserved /\ HasUpstream(d, ss)}
CoreRoutes(ds, ss) ==
    [id \in {RouteId(d) : d \in Routable(ds, ss)} |->
       FirstOf({d \in Routable(ds, ss) : RouteId(d) = id})]

----------------------------------------------------------------------------
(* What the Gateway asks for.  A request is a call of a tool, a discovery   *)
(* method or another method of MCP.                                        *)

Requests == Tools \cup {"discovery", "other"}
\* The Hub's group of the tools that are not listed has no tool's name, and a
\* tool's name is only in the body of the request that calls it.
SettingsOfAll == {d.settings : d \in Descriptions} \cup {Preset[id] : id \in Ids}
ASSUME RoutingAssumption ==
    /\ {SharedGroup, "discovery", "other"} \cap Tools = {}
    /\ \A s \in SettingsOfAll : s # None => SharedGroup \notin DOMAIN s.tools
    /\ Asked \subseteq Ids \X Requests
    /\ Starts \subseteq SUBSET Descriptions
    /\ \A d \in Descriptions :
          d.order \in Nat /\ IsSequence(d.scope) /\ SettingsFormed(d.settings)
    /\ \A id \in Ids : SettingsFormed(Preset[id])
    /\ Service # SignedIn
    /\ Ttl \in [Caches -> Nat \ {0}]
    /\ MaxNow \in Nat /\ MaxChanges \in Nat /\ ReadsFail \in BOOLEAN

RouteScope(d) == IF d.scope = << >> THEN {Fallback} ELSE ToSet(d.scope)

\* accessScopeForRequest: the roles of the token, none where the call is refused.
AccessScopeUnlisted(d, tool) ==
    LET s == ServerSettings(d) IN
    IF tool \notin Tools \/ s = None \/ tool \notin DOMAIN s.tools THEN RouteScope(d)
    ELSE ToolScopes(s, d.scope)[tool]
AccessScope(d, tool) ==
    LET s == ServerSettings(d) IN
    IF tool \notin Tools \/ s = None THEN RouteScope(d)
    ELSE IF tool \in DOMAIN s.tools THEN ToolScopes(s, d.scope)[tool]
    ELSE IF s.default = "none" THEN RouteScope(d) ELSE {}

\* downstreamScopeForRequest: the roles that the server's sidecar exchanges.
Downstream(d, tool) ==
    IF tool \notin Tools \/ ServerSettings(d) = None THEN {}
    ELSE AccessScope(d, tool) \ RouteScope(d)

----------------------------------------------------------------------------
NoRead == [from |-> 0, at |-> 0, listed |-> None, deployments |-> None, services |-> None]
NoCall == [pc |-> "idle", id |-> None, tool |-> None, arrived |-> 0, read |-> NoRead,
           route |-> None, scopes |-> {}, downstream |-> {}, reached |-> None, answer |-> None]

Init ==
    /\ deployments \in Starts
    /\ services = ServiceSet
    /\ now = 0
    /\ cache = [k \in Caches |-> [expires |-> 0, readAt |-> 0, routes |-> << >>]]
    /\ calls = [c \in Calls |-> NoCall]
    /\ settles = [id \in Ids |-> 0]
    /\ changes = 0

Tick == now < MaxNow /\ now' = now + 1 /\ UNCHANGED <<cluster, cache, calls>>

\* The Hub's users, kubectl and administrators register, change and remove.
\* Both the Hub and the Core MCP Proxy look at the Deployments with a project.
Owners(ds, id) == {Key(d) : d \in {e \in ds : RouteId(e) = id /\ e.project # None}}
LongestTtl == IF Ttl["gateway"] > Ttl["core"] THEN Ttl["gateway"] ELSE Ttl["core"]
Cluster(ds) ==
    /\ changes < MaxChanges /\ changes' = changes + 1
    /\ deployments' = ds
    /\ settles' = [id \in Ids |-> IF Owners(ds, id) = Owners(deployments, id) THEN settles[id]
                                  ELSE now + LongestTtl]
    /\ UNCHANGED <<now, cache, calls>>
DeploymentApplied ==
    /\ \E d \in Descriptions \ deployments :
          Cluster({e \in deployments : Key(e) # Key(d)} \cup {d})
    /\ UNCHANGED services
DeploymentDeleted ==
    /\ \E d \in deployments : Cluster(deployments \ {d})
    /\ UNCHANGED services
ServiceChanges ==
    /\ Cluster(deployments)
    /\ \E s \in ServiceSet : services' = IF s \in services THEN services \ {s}
                                         ELSE services \cup {s}

----------------------------------------------------------------------------
(* The Gateway.                                                            *)

\* parseAccessAudience refuses what the Hub does not look at: one such server
\* and no route is read.
BadAudience == "-"
RoutesParse(routes) == \A id \in DOMAIN routes : AudienceOf(routes[id]) # BadAudience

\* What the client is told; the rest is forgotten.
Ended(status) == [NoCall EXCEPT !.pc = "done", !.answer = status]

\* proxyToCore sends the id, and the token and scopes that it has in place of
\* what the client sent.
ToCore(call) == [call EXCEPT !.pc = "sent"]

\* The route is known or it is not; a discovery method needs no token.
IsPublic(call) == call.tool = "discovery"
WithRoute(call, routes) ==
    IF call.id \notin DOMAIN routes THEN [Ended("not-found") EXCEPT !.id = call.id]
    ELSE LET d == routes[call.id]
             found == [call EXCEPT !.route = d, !.read = NoRead] IN
         IF IsPublic(call) THEN ToCore(found)
         ELSE IF AccessScope(d, call.tool) = {}
         THEN [found EXCEPT !.pc = "done", !.answer = "refused"]
         ELSE [found EXCEPT !.pc = "token", !.scopes = AccessScope(d, call.tool),
                            !.downstream = Downstream(d, call.tool)]

Becomes(c, call) == calls' = [calls EXCEPT ![c] = call]

\* Reading the clock and the cache are one step; a stale cache is filled again.
Arrives(c) ==
    /\ calls[c].pc = "idle"
    /\ \E asked \in Asked :
          LET call == [NoCall EXCEPT !.id = asked[1], !.tool = asked[2], !.arrived = now] IN
          Becomes(c, IF cache["gateway"].expires > now
                     THEN WithRoute(call, cache["gateway"].routes)
                     ELSE [call EXCEPT !.pc = "asking", !.read.from = now])
    /\ UNCHANGED <<cluster, now, cache>>

\* The Hub reads the Deployments and the preset document, or cannot.
ReadFailure == IF ReadsFail THEN {<< >>} ELSE {}
HubReads(c) ==
    /\ calls[c].pc = "asking" /\ calls[c].read.listed = None
    /\ \E routes \in {Registry(deployments)} \cup ReadFailure :
          Becomes(c, [calls[c] EXCEPT !.read.listed = routes, !.read.at = now])
    /\ UNCHANGED <<cluster, now, cache>>

FilledAtAnswer(k, read, routes) ==
    cache' = [cache EXCEPT ![k] = [expires |-> now + Ttl[k], readAt |-> read.at,
                                   routes |-> routes]]
Filled(k, read, routes) ==
    cache' = [cache EXCEPT ![k] = [expires |-> read.from + Ttl[k], readAt |-> read.at,
                                   routes |-> routes]]
HubAnswers(c) ==
    /\ calls[c].pc = "asking" /\ calls[c].read.listed # None
    /\ IF RoutesParse(calls[c].read.listed)
       THEN /\ Filled("gateway", calls[c].read, calls[c].read.listed)
            /\ Becomes(c, WithRoute(calls[c], calls[c].read.listed))
       ELSE Becomes(c, Ended("refused")) /\ UNCHANGED cache
    /\ UNCHANGED <<cluster, now>>

\* The Hub is not there, refuses the Gateway or does not answer in time.
AskingFails(c) ==
    /\ calls[c].pc = "asking"
    /\ Becomes(c, Ended("refused"))
    /\ UNCHANGED <<cluster, now, cache>>

\* getAccessToken (AthenzTokens), and proxyToCore
TokenIssued(c) ==
    /\ calls[c].pc = "token"
    /\ Becomes(c, ToCore(calls[c]))
    /\ UNCHANGED <<cluster, now, cache>>
TokenRefused(c) ==
    /\ calls[c].pc = "token"
    /\ Becomes(c, Ended("refused"))
    /\ UNCHANGED <<cluster, now, cache>>

----------------------------------------------------------------------------
(* The Core MCP Proxy.                                                     *)

WithUpstream(call, routes) ==
    IF call.id \notin DOMAIN routes THEN Ended("refused")
    ELSE [call EXCEPT !.pc = "forwarded", !.read = NoRead, !.reached = Key(routes[call.id])]

CoreReceives(c) ==
    /\ calls[c].pc = "sent"
    /\ Becomes(c, IF cache["core"].expires > now
                  THEN WithUpstream(calls[c], cache["core"].routes)
                  ELSE [calls[c] EXCEPT !.pc = "discovering", !.read.from = now])
    /\ UNCHANGED <<cluster, now, cache>>

\* discoverMcpRoutes reads both at once, in no order.
CoreReadsDeployments(c) ==
    /\ calls[c].pc = "discovering" /\ calls[c].read.deployments = None
    /\ Becomes(c, [calls[c] EXCEPT !.read.deployments = deployments, !.read.at = now])
    /\ UNCHANGED <<cluster, now, cache>>
CoreReadsServices(c) ==
    /\ calls[c].pc = "discovering" /\ calls[c].read.services = None
    /\ Becomes(c, [calls[c] EXCEPT !.read.services = services])
    /\ UNCHANGED <<cluster, now, cache>>
CoreDiscovered(c) ==
    LET read == calls[c].read
        routes == CoreRoutes(read.deployments, read.services) IN
    /\ calls[c].pc = "discovering" /\ read.deployments # None /\ read.services # None
    /\ IF DistinctIds(Routable(read.deployments, read.services))
       THEN Filled("core", read, routes) /\ Becomes(c, WithUpstream(calls[c], routes))
       ELSE Becomes(c, Ended("refused")) /\ UNCHANGED cache
    /\ UNCHANGED <<cluster, now>>
CoreFails(c) ==
    /\ calls[c].pc = "discovering" /\ ReadsFail
    /\ Becomes(c, Ended("refused"))
    /\ UNCHANGED <<cluster, now, cache>>

\* proxyToUpstream: the server answers, or does not.  The Gateway gives up a
\* call after a minute, which the Core MCP Proxy does not see: the call goes on.
ServerAnswers(c) ==
    /\ calls[c].pc = "forwarded"
    /\ Becomes(c, Ended("answered"))
    /\ UNCHANGED <<cluster, now, cache>>

GatewayStep(c) ==
    \/ Arrives(c) \/ HubReads(c) \/ HubAnswers(c) \/ AskingFails(c)
    \/ TokenIssued(c) \/ TokenRefused(c)
CoreStep(c) ==
    \/ CoreReceives(c) \/ CoreReadsDeployments(c) \/ CoreReadsServices(c)
    \/ CoreDiscovered(c) \/ CoreFails(c) \/ ServerAnswers(c)

Next ==
    \/ Tick \/ DeploymentApplied \/ DeploymentDeleted \/ ServiceChanges
    \/ \E c \in Calls : GatewayStep(c) \/ CoreStep(c)

Spec == Init /\ [][Next]_vars

----------------------------------------------------------------------------
(* Properties.                                                             *)

\* Routes in use have been read within the life of their cache, although the
\* read may be slow and one that began earlier may land later (getRoutes of
\* the Gateway and of the Core MCP Proxy).
Fresh ==
    \A k \in Caches : cache[k].expires > now => now < cache[k].readAt + Ttl[k]

\* A call reaches the server whose access the Gateway has asked for, unless it
\* arrived before the caches had settled on the owner of its id.
SameServer ==
    \A c \in Calls :
       calls[c].reached # None /\ calls[c].reached # Key(calls[c].route)
          => calls[c].arrived < settles[calls[c].id]

\* The page of the server tells the user what the Gateway asks of him: the
\* roles of a tool's signed-in rows, those of the tool's own rows for exchange
\* by the server; and no tool that it shows without configuration is called.
\* Of a role for access to the server the page may show a row that names the
\* user himself instead.  It shows nothing of a server that has no settings,
\* nor of the Gateway's own scope (PermissionReadinessSection.tsx:47-52,
\* permissionPreset.ts:374-397, protected.ts:134-178).
PageGroups(d, tool) ==
    LET groups == Definition(ServerSettings(d), d.scope, AudienceOf(d))
        shown(g) == \/ g = tool
                    \/ g = SharedGroup /\ tool \notin DOMAIN groups
                       /\ ServerSettings(d).default = "none"
    IN {groups[g] : g \in {x \in DOMAIN groups : shown(x)}}
Pages ==
    [d \in {e \in Descriptions : Accepted(e) /\ ServerSettings(e) # None} |->
        [tool \in Tools |-> PageGroups(d, tool)]]
SignedInRoles(rows) ==
    {row.role : row \in {x \in ToSet(rows) : x.configured = SignedIn}}
UserRoles(rows, scope) ==
    SignedInRoles(rows)
    \cup {row.role : row \in {x \in ToSet(rows) : x.member = User /\ x.role \in ToSet(scope)}}
AsksWhatPageShows ==
    \A c \in Calls :
       LET call == calls[c]
           scope == call.route.scope
           groups == Pages[call.route][call.tool] IN
       call.route # None /\ call.tool \in Tools /\ ServerSettings(call.route) # None
          /\ scope # << >> =>
       /\ groups = {} => call.scopes = {} /\ call.reached = None
       /\ \A group \in groups :
             /\ call.scopes = UserRoles(group.requirements, scope)
             /\ call.downstream = SignedInRoles(RowsFrom(group, "tool")) \ ToSet(scope)

\* "No additional permission required" of one tool leaves standard access to the
\* MCP server as it is (AdditionalToolAccessField.tsx:47): while nothing fails
\* or changes, a registered server of its own id and with settings that the
\* Hub has accepted is found.
StandardAccessApplies ==
    \A c \in Calls :
       /\ calls[c].answer = "not-found" /\ changes = 0 /\ ~ReadsFail
       /\ DistinctIds(deployments)
       /\ \A d \in deployments : Accepted(d)
       => calls[c].id \notin {RouteId(d) : d \in Listed(deployments)}

=============================================================================
