-------------------------- MODULE HubRegistration --------------------------
(***************************************************************************)
(* The Hub's registration of MCP servers: the five HTTP operations of      *)
(* app/api/mcp-servers that create, update and delete a server, edit the   *)
(* permissions of one tool, and ask for access.  An operation is a series  *)
(* of calls to kubectl and to Athenz ZMS with nothing held in between;     *)
(* each call is a step here, and any call may fail.                        *)
(***************************************************************************)
EXTENDS FiniteSets, Sequences, Naturals

CONSTANTS
    Projects,     \* projects, each a namespace with a ZMS domain of its own
    Keys,         \* MCP server keys
    Ops,          \* HTTP requests
    Tools,        \* tools of a server
    Audiences,    \* domains of the roles that tools may require
    Helped,       \* those of Audiences whose roles come with exchange helpers
    Preset,       \* the audiences that the preset document requires
    Users,        \* signed-in users
    MaxRunning,   \* model bound: how many requests overlap
    MaxFailures   \* model bound: how many calls fail

ASSUME RegistrationAssumption ==
    /\ Projects # {} /\ Keys # {} /\ Users # {} /\ Tools # {}
    /\ Helped \subseteq Audiences /\ Preset \subseteq Audiences
    /\ MaxRunning \in Nat /\ MaxFailures \in Nat
    /\ "none" \notin Ops

Servers == Projects \X Keys

VARIABLES
    objects,    \* the Kubernetes objects of each server
    deployed,   \* what its Deployment says, while there is one
    bootstrap,  \* whose generated private key its bootstrap Secret holds
    zms,        \* what ZMS holds for each server, as a set of facts
    publicKey,  \* whose public key is registered for its service
    prepared,   \* what is set up for the projects themselves
    op,         \* the requests
    failures,   \* how many calls have failed
    raced,      \* servers of which two creations overlapped
    contended   \* servers a deletion of which overlapped with another request

vars == <<objects, deployed, bootstrap, zms, publicKey, prepared, op, failures,
          raced, contended>>

None == "none"
Gateway == "gateway"
Service == "service"

\* What configurationFromDeployment tells: who manages access, whether there is
\* a managed identity and a secret variable, whether the scope is the server's
\* own, and which audience each tool requires.
NoDeployment == [access |-> "server", identity |-> FALSE, env |-> FALSE,
                 scoped |-> FALSE, tools |-> [t \in Tools |-> None]]

----------------------------------------------------------------------------
(* ZMS: roles, their members, and the assertions of two policies; and in   *)
(* the domain of an audience the helpers of its roles.                     *)

Role(r) == <<"role", r>>
Member(r, m) == <<"member", r, m>>
Jag == <<"jag">>
Source(a) == <<"source", a>>
Helper(a) == <<"helper", a>>

Roles == {"accessor", "exchanger", "source"}
Facts == {Role(r) : r \in Roles} \cup {Jag}
         \cup {Source(a) : a \in Audiences} \cup {Helper(a) : a \in Audiences}
         \cup {Member("accessor", u) : u \in Users}
         \cup {Member("exchanger", Gateway), Member("source", Service)}

\* The entities that a deletion removes, in its order, and the facts in each.
JagPolicy == {Jag}
SourcePolicy == {Source(a) : a \in Audiences}
RoleFacts(r) == {f \in Facts : f = Role(r) \/ (f[1] = "member" /\ f[2] = r)}
EntitiesWithoutSources == << JagPolicy, RoleFacts("exchanger"), RoleFacts("source"),
                             RoleFacts("accessor") >>
Entities == << JagPolicy, SourcePolicy, RoleFacts("exchanger"), RoleFacts("source"),
               RoleFacts("accessor") >>

\* A member can be put into a role only if the role is there.
RoleNeeded(fs) == {Role(f[2]) : f \in {g \in fs : g[1] = "member"}}

\* mcp_hub_managed_access, the template that ZMS applies to the domain.
TemplateFacts ==
    {Role(r) : r \in Roles}
    \cup {Member("exchanger", Gateway), Member("source", Service), Jag}

\* The calls of ensureMcpManagedAccess, ensureMcpSourceExchangeAccess and
\* ensureMcpManagedAccessorMember: each looks for some facts, puts them if
\* they are not all there, and looks again.
ManagedAccess ==
    << {Role("accessor")}, {Role("exchanger")}, {Member("exchanger", Gateway)},
       {Jag}, {Role("source")}, {Member("source", Service)} >>
SourceAccess(auds) ==
    IF auds = {} THEN << >>
    ELSE << {Role("source")}, {Member("source", Service)},
            {Source(a) : a \in auds} >>
AccessorMember(u) == << {Role("accessor")}, {Member("accessor", u)} >>

\* The helpers' template is applied without looking, then verified.  Nothing
\* takes a helper away: to look first makes no difference.
HelperAccess(auds) ==
    IF auds \cap Helped = {} THEN << >> ELSE << {Helper(a) : a \in auds \cap Helped} >>

\* signedInUserPermissionAudiences: the audiences that the tools require.
AudiencesOf(tools) == {tools[t] : t \in Tools} \ {None}

----------------------------------------------------------------------------
(* Requests.                                                               *)

NoTools == [t \in Tools |-> None]
Idle == [pc |-> "idle", kind |-> None, server |-> <<None, None>>,
         access |-> "hub", env |-> "none", tool |-> None, tools |-> NoTools, user |-> None,
         seen |-> NoDeployment, todo |-> << >>, sources |-> {}, found |-> FALSE,
         error |-> FALSE]

Running(o) == op[o].pc \notin {"idle", "done", "failed", "conflict"}
At(o, pc) == op[o].pc = pc
Has(s, d) == d \in objects[s]

\* A request that ends keeps only which server it was about.
Ended(o, pc) == [op EXCEPT ![o] = [Idle EXCEPT !.pc = pc, !.server = op[o].server]]
Final == {"done", "failed", "conflict"}
Moved(o, pc) == IF pc \in Final THEN Ended(o, pc) ELSE [op EXCEPT ![o].pc = pc]
Goto(o, pc) == op' = Moved(o, pc)
Other(o) == UNCHANGED <<objects, deployed, bootstrap, zms, publicKey, prepared,
                        failures, raced, contended>>

Init ==
    /\ \E legacy \in SUBSET Servers :
          /\ Cardinality(legacy) <= 1
          /\ objects = [s \in Servers |->
                          IF s \in legacy THEN {"deployment", "service"} ELSE {}]
          /\ deployed = [s \in Servers |->
                          IF s \in legacy
                          THEN [NoDeployment EXCEPT !.access = "hub"]
                          ELSE NoDeployment]
    /\ bootstrap = [s \in Servers |-> None]
    /\ publicKey = [s \in Servers |-> None]
    /\ zms = [s \in Servers |-> {}]
    /\ op = [o \in Ops |-> Idle]
    /\ prepared = {}
    /\ failures = 0 /\ raced = {} /\ contended = {}

\* What validateMcpRegistration lets pass: tools can require a permission only
\* where access is managed.
ValidRegistration(access, env, tools) ==
    /\ env \in {"none", "new"}
    /\ access = "server" => tools = NoTools

\* validateMcpUpdate also takes a secret variable without a value, if the
\* Deployment has that variable: its secret is kept.
ValidUpdate(access, env, tools, d) ==
    \/ ValidRegistration(access, env, tools)
    \/ env = "keep" /\ d.env /\ ValidRegistration(access, "new", tools)

\* A request arrives, and its route has checked the session and the reference.
Begins(o, request) ==
    LET s == request.server
        peers == {p \in Ops : Running(p) /\ op[p].server = s} IN
    /\ At(o, "idle")
    /\ Cardinality({p \in Ops : Running(p)}) < MaxRunning
    /\ op' = [op EXCEPT ![o] = request]
    /\ raced' = IF request.kind = "create" /\ \E p \in peers : op[p].kind = "create"
                THEN raced \cup {s} ELSE raced
    /\ contended' = IF \E p \in peers : "delete" \in {request.kind, op[p].kind}
                    THEN contended \cup {s} ELSE contended
    /\ UNCHANGED <<objects, deployed, bootstrap, zms, publicKey, prepared, failures>>

\* POST /api/mcp-servers
PostServer(o) ==
    \E s \in Servers, a \in {"hub", "server"}, e \in {"none", "new"},
       ts \in [Tools -> {None} \cup Audiences] :
       /\ ValidRegistration(a, e, ts)
       /\ Begins(o, [Idle EXCEPT !.pc = "routes", !.kind = "create", !.server = s,
                                 !.access = a, !.env = e, !.tools = ts])

\* PUT /api/mcp-servers/[mcpKeyName]; the input is checked once the Deployment
\* is read.
PutServer(o) ==
    \E s \in Servers, a \in {"hub", "server"}, e \in {"none", "new", "keep"},
       ts \in [Tools -> {None} \cup Audiences] :
       Begins(o, [Idle EXCEPT !.pc = "read", !.kind = "update", !.server = s,
                              !.access = a, !.env = e, !.tools = ts])

\* DELETE /api/mcp-servers/[mcpKeyName]
DeleteServer(o) ==
    \E s \in Servers :
       Begins(o, [Idle EXCEPT !.pc = "read", !.kind = "delete", !.server = s])

\* PUT .../permissions: what one tool requires, or that it requires nothing.
PutPermission(o) ==
    \E s \in Servers, t \in Tools, a \in {None} \cup Audiences :
       Begins(o, [Idle EXCEPT !.pc = "read", !.kind = "tool", !.server = s,
                              !.tool = t, !.tools = [NoTools EXCEPT ![t] = a]])

\* POST .../access, for the signed-in user
PostAccess(o) ==
    \E s \in Servers, u \in Users :
       Begins(o, [Idle EXCEPT !.pc = "read", !.kind = "access", !.server = s, !.user = u])

\* A call fails: ZMS or the API server answers with an error, or not in time.
\* What the call before it did remains.
CallFails(o) ==
    /\ Running(o)
    /\ failures < MaxFailures
    /\ failures' = failures + 1
    /\ Goto(o, "failed")
    /\ UNCHANGED <<objects, deployed, bootstrap, zms, publicKey, prepared, raced,
                   contended>>

----------------------------------------------------------------------------
(* createMcpResources, up to the dry run.                                  *)

\* A route id is taken in whatever project its Deployment is.
RouteTaken(s) ==
    \E t \in Servers : t[2] = s[2] /\ Has(t, "deployment")

ListRoutes(o) ==
    /\ At(o, "routes")
    /\ Goto(o, IF RouteTaken(op[o].server) THEN "conflict" ELSE "collision")
    /\ Other(o)

FindCollision(o) ==
    /\ At(o, "collision")
    /\ Goto(o, IF objects[op[o].server] \cap {"deployment", "service"} # {}
               THEN "conflict" ELSE "dryrun")
    /\ Other(o)

ManifestDeploymentFirst(o) ==
    <<"deployment">>
    \o (IF op[o].env = "new" THEN <<"env">> ELSE << >>)
    \o (IF op[o].access = "hub" THEN <<"identity">> ELSE << >>)
    \o <<"service">>

\* buildMcpKubernetesResources: the documents, in the order of the manifest.
Manifest(o) ==
    (IF op[o].env = "new" THEN <<"env">> ELSE << >>)
    \o (IF op[o].access = "hub" THEN <<"identity">> ELSE << >>)
    \o <<"deployment", "service">>

ProvisioningWithoutMember(o, auds) ==
    ManagedAccess \o HelperAccess(auds) \o SourceAccess(auds)

\* The calls to ZMS that a request for managed access makes after the template.
Provisioning(o, auds) ==
    ManagedAccess \o HelperAccess(auds)
    \o (IF op[o].kind = "access" THEN AccessorMember(op[o].user) ELSE << >>)
    \o SourceAccess(auds)

Elements(q) == {q[i] : i \in DOMAIN q}

DryRunLeftOut(o) ==
    /\ At(o, "dryrun")
    /\ op' = IF op[o].access = "hub"
             THEN [op EXCEPT ![o].pc = "template",
                             ![o].todo = Provisioning(o, AudiencesOf(op[o].tools))]
             ELSE [op EXCEPT ![o].pc = "create", ![o].todo = Manifest(o)]
    /\ Other(o)

\* A server-side dry run refuses the manifest if an object of it is there.
DryRunCreate(o) ==
    /\ At(o, "dryrun")
    /\ op' = IF Elements(Manifest(o)) \cap objects[op[o].server] # {}
             THEN Ended(o, "conflict")
             ELSE IF op[o].access = "hub"
             THEN [op EXCEPT ![o].pc = "template", ![o].todo = Provisioning(o, AudiencesOf(op[o].tools))]
             ELSE [op EXCEPT ![o].pc = "create", ![o].todo = Manifest(o)]
    /\ Other(o)

----------------------------------------------------------------------------
(* Provisioning in ZMS.                                                    *)

ApplyTemplate(o) ==
    /\ At(o, "template")
    /\ zms' = [zms EXCEPT ![op[o].server] = @ \cup TemplateFacts]
    /\ Goto(o, "check")
    /\ UNCHANGED <<objects, deployed, bootstrap, publicKey, prepared, failures, raced,
                   contended>>

\* Where a request goes when it has provisioned everything.
AfterProvisioning(o) ==
    CASE op[o].kind = "create" -> "checkkey"
      [] op[o].kind = "update" -> "trust"
      [] op[o].kind = "tool"   -> "patchtool"
      [] op[o].kind = "access" -> "reconcile"

NextTodo(o) ==
    [op EXCEPT ![o].todo = Tail(@),
               ![o].pc = IF Len(op[o].todo) = 1 THEN AfterProvisioning(o) ELSE "check"]

\* The first GET of an ensure...: nothing to do, or remember what the policy
\* holds and put.
CheckFacts(o) ==
    /\ At(o, "check")
    /\ op' = IF Head(op[o].todo) \subseteq zms[op[o].server]
             THEN NextTodo(o)
             ELSE [op EXCEPT ![o].pc = "put",
                             ![o].sources = zms[op[o].server] \cap SourcePolicy]
    /\ Other(o)

\* A policy is written as a whole, with the assertions that were read.
Written(o) ==
    LET fs == Head(op[o].todo) IN
    IF fs \subseteq SourcePolicy
    THEN (zms[op[o].server] \ SourcePolicy) \cup op[o].sources \cup fs
    ELSE zms[op[o].server] \cup fs

PutFacts(o) ==
    /\ At(o, "put")
    /\ IF RoleNeeded(Head(op[o].todo)) \subseteq zms[op[o].server]
       THEN /\ zms' = [zms EXCEPT ![op[o].server] = Written(o)]
            /\ Goto(o, "verify")
       ELSE Goto(o, "failed") /\ UNCHANGED zms
    /\ UNCHANGED <<objects, deployed, bootstrap, publicKey, prepared, failures, raced,
                   contended>>

VerifyFacts(o) ==
    /\ At(o, "verify")
    /\ op' = IF Head(op[o].todo) \subseteq zms[op[o].server]
             THEN NextTodo(o)
             ELSE Ended(o, "failed")
    /\ Other(o)

\* registerMcpServicePublicKey: a generated key is never there already.
RegisterKey(o) ==
    /\ At(o, "checkkey")
    /\ publicKey' = [publicKey EXCEPT ![op[o].server] = o]
    /\ Goto(o, "verifykey")
    /\ UNCHANGED <<objects, deployed, bootstrap, zms, prepared, failures, raced,
                   contended>>

VerifyKey(o) ==
    /\ At(o, "verifykey")
    /\ Goto(o, IF publicKey[op[o].server] = o THEN "provider" ELSE "failed")
    /\ Other(o)

\* ensureMcpServiceCertificateProvider: ZTS may issue to the project's services.
EnableProvider(o) ==
    /\ At(o, "provider")
    /\ prepared' = prepared \cup {<<op[o].server[1], "provider">>}
    /\ Goto(o, "trust")
    /\ UNCHANGED <<objects, deployed, bootstrap, zms, publicKey, failures, raced,
                   contended>>

\* ensureMcpRuntimeProxyTrust: the ConfigMap with the CA.
ApplyTrust(o) ==
    /\ At(o, "trust")
    /\ prepared' = prepared \cup {<<op[o].server[1], "ca">>}
    /\ op' = IF op[o].kind = "update" THEN Moved(o, "reread")
             ELSE [op EXCEPT ![o].pc = "create", ![o].todo = Manifest(o)]
    /\ UNCHANGED <<objects, deployed, bootstrap, zms, publicKey, failures, raced,
                   contended>>

----------------------------------------------------------------------------
(* kubectl create: one document after the other, also after an error.      *)

\* The Deployment of that manifest.  Its key id and the mounts of the identity
\* come and go with the identity.
Deployed(o, identity) ==
    [access |-> op[o].access, identity |-> identity, env |-> op[o].env # "none",
     scoped |-> op[o].access = "hub", tools |-> op[o].tools]

CreateDocument(o) ==
    LET s == op[o].server
        d == Head(op[o].todo)
        taken == Has(s, d)
        error == op[o].error \/ taken IN
    /\ At(o, "create")
    /\ objects' = [objects EXCEPT ![s] = @ \cup {d}]
    /\ bootstrap' = IF d = "identity" /\ ~taken
                    THEN [bootstrap EXCEPT ![s] = o] ELSE bootstrap
    /\ deployed' = IF d = "deployment" /\ ~taken
                   THEN [deployed EXCEPT ![s] = Deployed(o, op[o].access = "hub")]
                   ELSE deployed
    /\ op' = IF Len(op[o].todo) > 1
             THEN [op EXCEPT ![o].todo = Tail(@), ![o].error = error]
             ELSE Ended(o, IF error THEN "conflict" ELSE "done")
    /\ UNCHANGED <<zms, publicKey, prepared, failures, raced, contended>>

----------------------------------------------------------------------------
(* The other operations first read the Deployment.                         *)

\* getMcpServerConfiguration, for a request of this kind
Reads(o, kind) ==
    At(o, "read") /\ op[o].kind = kind /\ Has(op[o].server, "deployment")

NotFound(o) ==
    /\ At(o, "read") /\ ~Has(op[o].server, "deployment")
    /\ Goto(o, "failed")
    /\ Other(o)

ReadForUpdate(o) ==
    /\ Reads(o, "update")
    /\ op' = IF ~ValidUpdate(op[o].access, op[o].env, op[o].tools, deployed[op[o].server])
             THEN Ended(o, "failed")
             ELSE [op EXCEPT ![o].pc = IF op[o].access = "hub" THEN "template" ELSE "reread",
                             ![o].todo = Provisioning(o, AudiencesOf(op[o].tools))]
    /\ Other(o)

\* The preset's requirements and the Deployment's are taken together.
ReadForAccess(o) ==
    LET d == deployed[op[o].server] IN
    /\ Reads(o, "access")
    /\ op' = IF d.access # "hub" THEN Ended(o, "failed")
             ELSE [op EXCEPT ![o].pc = "template",
                             ![o].todo = Provisioning(o, Preset \cup AudiencesOf(d.tools))]
    /\ Other(o)

ReadForDelete(o) ==
    LET d == deployed[op[o].server] IN
    /\ Reads(o, "delete")
    /\ op' = [op EXCEPT ![o].access = d.access, ![o].todo = Entities,
                        ![o].pc = IF d.access = "hub" THEN "find" ELSE "redelete"]
    /\ Other(o)

\* updateMcpToolPermissions looks after ZMS first, if access is managed and the
\* tool requires something.
ReadForTool(o) ==
    LET d == deployed[op[o].server]
        auds == AudiencesOf(op[o].tools) IN
    /\ Reads(o, "tool")
    /\ op' = IF auds \cap Helped # {} /\ d.access # "hub" THEN Ended(o, "failed")
             ELSE [op EXCEPT ![o].seen = d, ![o].todo = HelperAccess(auds) \o SourceAccess(auds),
                             ![o].pc = IF auds # {} /\ d.access = "hub" THEN "check"
                                       ELSE "patchtool"]
    /\ Other(o)

(* updateMcpResources *)

\* It reads the Deployment again: only a server that has a managed identity
\* keeps one, and a variable keeps its secret only if there is one.
Reread(o) ==
    LET s == op[o].server IN
    /\ At(o, "reread")
    /\ op' = IF ~Has(s, "deployment") \/ (op[o].env = "keep" /\ ~deployed[s].env)
             THEN Ended(o, "failed")
             ELSE [op EXCEPT ![o].seen = deployed[s],
                             ![o].pc = IF op[o].env = "new" THEN "secret" ELSE "dryupdate"]
    /\ Other(o)

\* prepareSecretOperation: patch the Secret if it is there, else create it.
FindSecret(o) ==
    /\ At(o, "secret")
    /\ op' = [op EXCEPT ![o].found = Has(op[o].server, "env"), ![o].pc = "dryupdate"]
    /\ Other(o)

SecretFits(o) == op[o].env = "new" => (op[o].found <=> Has(op[o].server, "env"))

DryRunUpdate(o) ==
    /\ At(o, "dryupdate")
    /\ Goto(o, IF {"deployment", "service"} \subseteq objects[op[o].server] /\ SecretFits(o)
               THEN IF op[o].env = "new" THEN "applysecret" ELSE "patch" ELSE "failed")
    /\ Other(o)

ApplySecret(o) ==
    LET s == op[o].server IN
    /\ At(o, "applysecret")
    /\ IF SecretFits(o)
       THEN objects' = [objects EXCEPT ![s] = @ \cup {"env"}] /\ Goto(o, "patch")
       ELSE Goto(o, "failed") /\ UNCHANGED objects
    /\ UNCHANGED <<deployed, bootstrap, zms, publicKey, prepared, failures, raced,
                   contended>>

\* The patches carry no resource version: they fall on whatever is there now.
PatchDeployment(o) ==
    LET s == op[o].server
        identity == op[o].access = "hub" /\ op[o].seen.identity IN
    /\ At(o, "patch")
    /\ IF Has(s, "deployment")
       THEN /\ deployed' = [deployed EXCEPT ![s] = Deployed(o, identity)]
            /\ Goto(o, "patchservice")
       ELSE Goto(o, "failed") /\ UNCHANGED deployed
    /\ UNCHANGED <<objects, bootstrap, zms, publicKey, prepared, failures, raced,
                   contended>>

PatchService(o) ==
    /\ At(o, "patchservice")
    /\ Goto(o, IF Has(op[o].server, "service") THEN "done" ELSE "failed")
    /\ Other(o)

(* updateMcpToolPermissions and reconcileMcpManagedAccessConfiguration *)

\* The annotation is written as a whole: the tools as read, with one replaced.
PatchTool(o) ==
    LET s == op[o].server IN
    /\ At(o, "patchtool")
    /\ IF Has(s, "deployment")
       THEN /\ deployed' = [deployed EXCEPT ![s].tools =
                  [op[o].seen.tools EXCEPT ![op[o].tool] = op[o].tools[op[o].tool]]]
            /\ Goto(o, "done")
       ELSE Goto(o, "failed") /\ UNCHANGED deployed
    /\ UNCHANGED <<objects, bootstrap, zms, publicKey, prepared, failures, raced,
                   contended>>

\* The container that the patch names has to be there: the Deployment has it
\* while its access is managed.
Reconcile(o) ==
    LET s == op[o].server IN
    /\ At(o, "reconcile")
    /\ IF Has(s, "deployment") /\ deployed[s].access = "hub"
       THEN /\ deployed' = [deployed EXCEPT ![s].scoped = TRUE]
            /\ Goto(o, "done")
       ELSE Goto(o, "failed") /\ UNCHANGED deployed
    /\ UNCHANGED <<objects, bootstrap, zms, publicKey, prepared, failures, raced,
                   contended>>

(* deleteMcpManagedAccess and deleteMcpResources *)

NextEntity(o) ==
    [op EXCEPT ![o].todo = Tail(@),
               ![o].pc = IF Len(op[o].todo) = 1 THEN "redelete" ELSE "find"]

FindEntity(o) ==
    /\ At(o, "find")
    /\ op' = IF Head(op[o].todo) \cap zms[op[o].server] = {} THEN NextEntity(o)
             ELSE [op EXCEPT ![o].pc = "remove"]
    /\ Other(o)

RemoveEntity(o) ==
    /\ At(o, "remove")
    /\ zms' = [zms EXCEPT ![op[o].server] = @ \ Head(op[o].todo)]
    /\ Goto(o, "gone")
    /\ UNCHANGED <<objects, deployed, bootstrap, publicKey, prepared, failures, raced,
                   contended>>

VerifyGone(o) ==
    /\ At(o, "gone")
    /\ op' = IF Head(op[o].todo) \cap zms[op[o].server] = {} THEN NextEntity(o)
             ELSE Ended(o, "failed")
    /\ Other(o)

\* The annotation of the Deployment says whether the objects of the managed
\* identity are deleted too.
PlanDeletion(o) ==
    LET s == op[o].server IN
    /\ At(o, "redelete")
    /\ op' = IF ~Has(s, "deployment") THEN Ended(o, "failed")
             ELSE [op EXCEPT ![o].pc = "unload",
                     ![o].todo = <<"deployment", "service", "env">>
                        \o (IF deployed[s].identity THEN <<"identity">> ELSE << >>)]
    /\ Other(o)

\* kubectl delete, in the order of its arguments; what is gone is ignored.
DeleteDocument(o) ==
    LET s == op[o].server
        d == Head(op[o].todo) IN
    /\ At(o, "unload")
    /\ objects' = [objects EXCEPT ![s] = @ \ {d}]
    /\ deployed' = IF d = "deployment" THEN [deployed EXCEPT ![s] = NoDeployment] ELSE deployed
    /\ bootstrap' = IF d = "identity" THEN [bootstrap EXCEPT ![s] = None] ELSE bootstrap
    /\ op' = IF Len(op[o].todo) > 1 THEN [op EXCEPT ![o].todo = Tail(@)]
             ELSE Ended(o, "done")
    /\ UNCHANGED <<zms, publicKey, prepared, failures, raced, contended>>

Next ==
    \E o \in Ops :
       \/ PostServer(o) \/ PutServer(o) \/ DeleteServer(o) \/ PutPermission(o)
       \/ PostAccess(o) \/ CallFails(o)
       \/ ListRoutes(o) \/ FindCollision(o) \/ DryRunCreate(o)
       \/ ApplyTemplate(o) \/ CheckFacts(o) \/ PutFacts(o) \/ VerifyFacts(o)
       \/ RegisterKey(o) \/ VerifyKey(o) \/ EnableProvider(o) \/ ApplyTrust(o)
       \/ CreateDocument(o)
       \/ NotFound(o) \/ ReadForUpdate(o) \/ ReadForAccess(o) \/ ReadForDelete(o)
       \/ ReadForTool(o) \/ Reread(o) \/ FindSecret(o) \/ DryRunUpdate(o) \/ ApplySecret(o)
       \/ PatchDeployment(o) \/ PatchService(o) \/ PatchTool(o) \/ Reconcile(o)
       \/ FindEntity(o) \/ RemoveEntity(o) \/ VerifyGone(o)
       \/ PlanDeletion(o) \/ DeleteDocument(o)

----------------------------------------------------------------------------
(* Properties.                                                             *)

\* A Deployment never names a Secret or a service account that is not there,
\* through any overlap of creations, updates and edits, each of them broken off
\* anywhere (createMcpResources creates in the order of the manifest,
\* updateMcpResources writes the Secret first, deleteMcpResources starts with
\* the Deployment).  Of a server whose deletion overlapped with another request
\* nothing is said: an update may then patch what the deletion unloads.
ReferencesResolve ==
    \A s \in Servers \ contended : Has(s, "deployment") =>
       /\ deployed[s].env => Has(s, "env")
       /\ deployed[s].identity => Has(s, "identity")

\* A server that runs with a managed identity can get its certificates: ZMS has
\* the public key of the private key in its bootstrap Secret, and its project
\* has the provider and the CA (beforeCreate comes before the objects).  Two
\* creations that overlap may leave the key of one and the Secret of the other;
\* and an update that began before a deletion may give the identity that it saw
\* to the server created since.
KeyRegistered ==
    \A s \in Servers \ (raced \cup contended) :
       Has(s, "deployment") /\ deployed[s].identity
          => /\ publicKey[s] = bootstrap[s]
             /\ {s[1]} \X {"provider", "ca"} \subseteq prepared

Succeeds(o, k) == op[o].kind = k /\ op[o].pc \notin Final /\ op'[o].pc = "done"

Provides(o) ==
    \/ Succeeds(o, "create") /\ op[o].access = "hub"
    \/ Succeeds(o, "access")

\* A creation or a request for access that succeeds has left in ZMS every role,
\* member and policy that its user needs, whatever was there before and
\* whatever other requests did meanwhile, deletions aside: the several calls of
\* ensureMcpManagedAccess and the others add up (README.md of the Hub: "creates
\* or repairs").
AccessProvided ==
    [][\A o \in Ops : op[o].server \notin contended /\ Provides(o) =>
         /\ TemplateFacts \subseteq zms[op[o].server]
         /\ op[o].kind = "access" =>
              /\ Member("accessor", op[o].user) \in zms[op[o].server]
              /\ {Helper(a) : a \in Preset \cap Helped} \subseteq zms[op[o].server]]_vars

\* A deletion that succeeds, of a server that nothing else was being done to,
\* leaves no role, member or policy of the server and none of its Kubernetes
\* objects but those of an identity that its Deployment no longer named.  The
\* helpers are in the domains of others and stay (README.md: "removes only that
\* server's" roles and policies).
DeletionComplete ==
    [][\A o \in Ops : op[o].server \notin contended /\ Succeeds(o, "delete") /\ op[o].access = "hub" =>
         /\ zms'[op[o].server] \subseteq {Helper(a) : a \in Audiences}
         /\ objects'[op[o].server] \subseteq {"identity"}]_vars

\* A creation that is refused because the server exists has not replaced the
\* registered key or the Secret of that server, unless two creations ran at
\* once: the refusal comes from the look-ups and the dry run, before anything
\* is written.
RefusalIsClean ==
    \A o \in Ops : op[o].pc = "conflict" /\ op[o].server \notin raced \cup contended
       => publicKey[op[o].server] # o /\ bootstrap[op[o].server] # o

Spec == Init /\ [][Next]_vars

=============================================================================
