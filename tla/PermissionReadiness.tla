------------------------- MODULE PermissionReadiness -------------------------
(***************************************************************************)
(* The page where a user connects a client to a server whose access the    *)
(* Hub manages.  For each load of the page the Hub works out which         *)
(* memberships and policies each tool needs, looks them up in Athenz, one  *)
(* request at a time and in no order, and asks the server for its tools.   *)
(* The page shows what was found, and lets the user ask for access; while  *)
(* it does, administrators change roles and policies.  How the grants are  *)
(* made is in HubRegistration, the editors are in PermissionEditor.        *)
(***************************************************************************)
EXTENDS PermissionSettings

CONSTANTS
    PageStarts,  \* settings: a preset entry and an override, each may be None
    Scope,       \* the server's own access roles
    Audience,    \* its access audience
    PolicyNames, \* names of Athenz policies: a domain and a name
    MaxEvents,   \* model bound: changes by administrators and requests that fail
    MaxLoads     \* model bound: loads of the page

VARIABLES
    start,     \* the settings of this server
    members,   \* Athenz: who is in which role
    policies,  \* Athenz: the assertions of each policy
    load,      \* the load of the page that the Hub works on
    page,      \* what the browser shows
    request,   \* the user's request for access, as the Hub works on it
    history,   \* (history) what was true in Athenz while the load ran
    since,     \* (history) managed access that was there since the page was asked for
    events, loads

pageVars == <<start, members, policies, load, page, request, history, since,
          events, loads>>

----------------------------------------------------------------------------
(* What the server's tools need.                                           *)

StoredSettings(s) == IF s.stored = None THEN None ELSE Parsed(s.stored)
SettingsOf(s) == Merged(PresetEntry(s.preset), StoredSettings(s))
Readable(s) ==
    /\ PresetEntryValid(s.preset)
    /\ s.stored # None => SettingsValid(s.stored)
    /\ SettingsOf(s) # None =>
          \A t \in DOMAIN SettingsOf(s).tools : Resolvable(SettingsOf(s).tools[t])
DefinitionOf ==
    [s \in PageStarts |-> IF Readable(s) THEN Definition(SettingsOf(s), Scope, Audience) ELSE << >>]
Groups == DefinitionOf[start]
DefaultOpen == SettingsOf(start) # None /\ SettingsOf(start).default = "none"

Memberships(s) ==
    UNION {{Identity(DefinitionOf[s][g].requirements[i]) :
              i \in DOMAIN DefinitionOf[s][g].requirements} : g \in DOMAIN DefinitionOf[s]}
Assertions(s) ==
    UNION {{PolicyKey(DefinitionOf[s][g].policies[i]) :
              i \in DOMAIN DefinitionOf[s][g].policies} : g \in DOMAIN DefinitionOf[s]}
RoleOfKey(k) == k[3]
DomainOf(k) == RoleOfKey(k).domain

\* The principals and the domains to look up, each once.
Principals == {f[1] : f \in Memberships(start)}
Domains == {DomainOf(k) : k \in Assertions(start)}

----------------------------------------------------------------------------
(* Athenz.                                                                 *)

Names(d) == {n \in PolicyNames : n[1] = d}
HomeOf(k) == CHOOSE n \in Names(DomainOf(k)) : TRUE
HeldKeys == UNION {policies[n] : n \in PolicyNames}
Placed(ps) == UNION {{<<n, k>> : k \in ps[n]} : n \in PolicyNames}

\* Each domain has policies: to grant access is to make one where there is none.
ASSUME ReadinessAssumption ==
    /\ Scope # << >> /\ IsSequence(Scope) /\ \A r \in ToSet(Scope) : IsDirectRole(r)
    /\ Audience # None /\ Service # SignedIn
    /\ \A s \in PageStarts :
          /\ SettingsFormed(s.preset) /\ SettingsFormed(s.stored)
          /\ \A k \in Assertions(s) : Names(DomainOf(k)) # {}
    /\ MaxEvents \in Nat /\ MaxLoads \in Nat \ {0}

\* The facts that let the server itself be used.
ManagedMembers == {Identity([member |-> ResolvedMember(r.configured), role |-> r.role]) :
                     r \in ToSet(ManagedRows(Scope))}
ManagedKeys == {k \in Assertions(start) : RoleOfKey(k) \in {HelperRole(r, "jag") : r \in ToSet(Scope)}}
ManagedFacts(ms, ks) == (ms \cap ManagedMembers) \cup (ks \cap ManagedKeys)

NoHistory == [held |-> {}, gone |-> {}, keys |-> {}, kept |-> {}]
HistoryFrom(ms, ps) ==
    [held |-> ms, gone |-> Memberships(start) \ ms,
     keys |-> UNION {ps[n] : n \in PolicyNames}, kept |-> Placed(ps)]
AthenzBecomes(ms, ps) ==
    LET now == HistoryFrom(ms, ps) IN
    /\ members' = ms /\ policies' = ps
    /\ history' = IF load.pc = "none" THEN history
                  ELSE [held |-> history.held \cup now.held, gone |-> history.gone \cup now.gone,
                        keys |-> history.keys \cup now.keys, kept |-> history.kept \cap now.kept]
    /\ since' = since \cup ManagedFacts(ms, now.keys)

Disturbed == events < MaxEvents /\ events' = events + 1

\* An administrator adds or removes a member, or an assertion of a policy;
\* moving an assertion to another policy is two changes.
MembershipChanges ==
    /\ Disturbed
    /\ \E f \in Memberships(start) :
          AthenzBecomes(IF f \in members THEN members \ {f} ELSE members \cup {f}, policies)
    /\ UNCHANGED <<start, load, page, request, loads>>
PolicyChanges ==
    /\ Disturbed
    /\ \E k \in Assertions(start) : \E n \in Names(DomainOf(k)) :
          AthenzBecomes(members, [policies EXCEPT ![n] = IF k \in @ THEN @ \ {k} ELSE @ \cup {k}])
    /\ UNCHANGED <<start, load, page, request, loads>>

----------------------------------------------------------------------------
(* A load of the page.                                                     *)

NoAnswer == [error |-> FALSE, statuses |-> << >>]
NoLoad == [pc |-> "none", roles |-> << >>, keys |-> << >>, unread |-> {},
           noRoles |-> {}, noPolicies |-> {}, listing |-> "none", session |-> FALSE,
           tools |-> {}, answer |-> NoAnswer]
NewLoad == [NoLoad EXCEPT !.pc = "definition", !.listing = "initialize"]

Unmounted == [mounted |-> FALSE, readiness |-> NoAnswer, tools |-> {}, state |-> "idle",
              accessApproved |-> FALSE]

\* When the page is asked for there is nothing, or everything is set up.
PageInit ==
    /\ start \in PageStarts
    /\ members \in {{}, Memberships(start)}
    /\ policies = [n \in PolicyNames |->
                     IF members = {} THEN {} ELSE {k \in Assertions(start) : HomeOf(k) = n}]
    /\ load = NewLoad
    /\ page = Unmounted
    /\ request = << >>
    /\ history = HistoryFrom(members, policies)
    /\ since = ManagedFacts(members, HeldKeys)
    /\ events = 0 /\ loads = 1

Loading(next) ==
    /\ load' = next
    /\ UNCHANGED <<start, members, policies, page, request, history, since, loads>>
Succeeds == UNCHANGED events
Fails == Disturbed

\* Every status of every group is the same.
AllStatuses(status) ==
    [g \in DOMAIN Groups |->
        [requirements |-> [i \in DOMAIN Groups[g].requirements |-> status],
         policies |-> [i \in DOMAIN Groups[g].policies |-> status]]]
Answered(error, statuses) ==
    [load EXCEPT !.pc = "answered", !.roles = << >>, !.keys = << >>, !.unread = {},
                 !.noRoles = {}, !.noPolicies = {}, !.answer = [error |-> error, statuses |-> statuses]]

\* fetchPermissionDefinition: the preset document and the settings.  The tools
\* are listed at the same time; the two share nothing, and are taken in order.
DefinitionRead ==
    /\ load.pc = "definition" /\ load.listing = "done"
    /\ Succeeds
    /\ Loading(IF Readable(start) THEN [load EXCEPT !.pc = "credentials"]
               ELSE Answered(TRUE, << >>))
DefinitionFails ==
    /\ load.pc = "definition" /\ load.listing = "done"
    /\ Fails
    /\ Loading(Answered(TRUE, << >>))

CredentialsRead ==
    /\ load.pc = "credentials"
    /\ Succeeds
    /\ Loading([load EXCEPT !.pc = "looking"])
CredentialsMissing ==
    /\ load.pc = "credentials"
    /\ Fails
    /\ Loading(Answered(FALSE, AllStatuses("unavailable")))

\* roleLookups and policyLookups: what was asked of x is answered.
Found(answers, x, answer) ==
    [y \in DOMAIN answers \cup {x} |-> IF y = x THEN answer ELSE answers[y]]

\* fetchPrincipalRoles
RolesFound(m) ==
    /\ load.pc = "looking" /\ m \in Principals \ (DOMAIN load.roles \cup load.noRoles)
    /\ Succeeds
    /\ Loading([load EXCEPT !.roles = Found(@, m, {f[2] : f \in {x \in members : x[1] = m}})])
RolesFail(m) ==
    /\ load.pc = "looking" /\ m \in Principals \ (DOMAIN load.roles \cup load.noRoles)
    /\ Fails
    /\ Loading([load EXCEPT !.noRoles = @ \cup {m}])

\* fetchDomainPolicyAssertions: the list, which may hold assertions already,
\* and then each policy that it names.  A policy that is gone holds none.
PoliciesListed(d) ==
    LET there == {n \in Names(d) : policies[n] # {}} IN
    /\ load.pc = "looking" /\ d \in Domains \ (DOMAIN load.keys \cup load.noPolicies)
    /\ Succeeds
    /\ \E inline \in BOOLEAN :
          Loading([load EXCEPT
              !.keys = Found(@, d, IF inline THEN UNION {policies[n] : n \in there} ELSE {}),
              !.unread = @ \cup there])
PoliciesFail(d) ==
    /\ load.pc = "looking" /\ d \in Domains \ (DOMAIN load.keys \cup load.noPolicies)
    /\ Fails
    /\ Loading([load EXCEPT !.noPolicies = @ \cup {d}])
PolicyRead(n) ==
    /\ load.pc = "looking" /\ n \in load.unread
    /\ Succeeds
    /\ Loading([load EXCEPT !.keys[n[1]] = @ \cup policies[n], !.unread = @ \ {n}])
WithoutPolicyIgnored(n) == [load EXCEPT !.unread = @ \ {n}]
WithoutPolicy(n) ==
    [load EXCEPT !.unread = {x \in @ : x[1] # n[1]}, !.noPolicies = @ \cup {n[1]}]
PolicyFails(n) ==
    /\ load.pc = "looking" /\ n \in load.unread
    /\ Fails
    /\ Loading(WithoutPolicy(n))

MembershipStatus(row) ==
    IF row.member \in load.noRoles THEN "unavailable"
    ELSE IF row.role \in load.roles[row.member] THEN "ready" ELSE "missing"
PolicyStatus(p) ==
    IF p.role.domain \in load.noPolicies THEN "unavailable"
    ELSE IF PolicyKey(p) \in load.keys[p.role.domain] THEN "ready" ELSE "missing"
LookedUp ==
    /\ load.pc = "looking" /\ load.unread = {}
    /\ Principals \subseteq DOMAIN load.roles \cup load.noRoles
    /\ Domains \subseteq DOMAIN load.keys \cup load.noPolicies
    /\ Succeeds
    /\ Loading(Answered(FALSE,
          [g \in DOMAIN Groups |->
             [requirements |-> [i \in DOMAIN Groups[g].requirements |->
                                  MembershipStatus(Groups[g].requirements[i])],
              policies |-> [i \in DOMAIN Groups[g].policies |->
                              PolicyStatus(Groups[g].policies[i])]]]))

----------------------------------------------------------------------------
(* listLiveMcpTools: initialize, the notification, tools/list, and the end  *)
(* of the session that initialize may have opened.                          *)

Listing(step) == load.listing = step /\ step # "done"
Initialized ==
    /\ Listing("initialize")
    /\ Succeeds
    /\ \E session \in BOOLEAN :
          Loading([load EXCEPT !.listing = "notify", !.session = session])
AfterListing == IF load.session THEN "close" ELSE "done"
Notified ==
    /\ Listing("notify")
    /\ Succeeds
    /\ Loading([load EXCEPT !.listing = "list"])
ToolsListed ==
    /\ Listing("list")
    /\ Succeeds
    /\ Loading([load EXCEPT !.listing = AfterListing, !.tools = Tools])
SessionClosed ==
    /\ Listing("close")
    /\ Succeeds
    /\ Loading([load EXCEPT !.listing = "done", !.session = FALSE])
ServerFails ==
    /\ \E step \in {"initialize", "notify", "list", "close"} : Listing(step)
    /\ Fails
    /\ Loading([load EXCEPT !.listing = IF @ = "close" THEN "done" ELSE AfterListing])

LoadStep ==
    \/ DefinitionRead \/ DefinitionFails \/ CredentialsRead \/ CredentialsMissing
    \/ \E m \in Principals : RolesFound(m) \/ RolesFail(m)
    \/ \E d \in Domains : PoliciesListed(d) \/ PoliciesFail(d)
    \/ \E n \in PolicyNames : PolicyRead(n) \/ PolicyFails(n)
    \/ LookedUp
    \/ Initialized \/ Notified \/ ToolsListed \/ SessionClosed \/ ServerFails

----------------------------------------------------------------------------
(* The page.                                                               *)

\* What a readiness says of the server's own access (managedAccessStatus).
ManagedStatuses(readiness) ==
    UNION {{readiness.statuses[g].requirements[i] :
              i \in {k \in DOMAIN Groups[g].requirements :
                       Groups[g].requirements[k].source = "managed"}}
           \cup {readiness.statuses[g].policies[i] :
              i \in {k \in DOMAIN Groups[g].policies : Groups[g].policies[k].source = "managed"}}
           : g \in DOMAIN readiness.statuses}
ManagedReadyIfKnown(readiness) ==
    ~readiness.error /\ ManagedStatuses(readiness) # {} /\ "missing" \notin ManagedStatuses(readiness)
ManagedReady(readiness) ==
    ~readiness.error /\ ManagedStatuses(readiness) = {"ready"}
Approved == page.mounted /\ (ManagedReady(page.readiness) \/ page.state = "approved")

\* The page comes with the first answer and is updated by the others; which of
\* its steps are visible is decided once, and again when access is granted.
Delivered ==
    /\ load.pc = "answered"
    /\ page' = [page EXCEPT !.mounted = TRUE, !.readiness = load.answer, !.tools = load.tools,
                            !.accessApproved = IF page.mounted THEN @ ELSE ManagedReady(load.answer)]
    /\ load' = NoLoad
    /\ history' = NoHistory
    /\ UNCHANGED <<start, members, policies, request, since, events, loads>>

\* A new load replaces one that is running.
LoadAgain ==
    /\ loads' = loads + 1
    /\ load' = NewLoad
    /\ history' = HistoryFrom(members, policies)

\* Rows of the page: the group of a tool, or that of the tools not listed.
RowGroup(t) ==
    IF page.readiness.error THEN None
    ELSE IF t \in DOMAIN page.readiness.statuses THEN t
    ELSE IF DefaultOpen /\ SharedGroup \in DOMAIN page.readiness.statuses THEN SharedGroup
    ELSE None
HasSource(g, sources) ==
    \/ \E i \in DOMAIN Groups[g].requirements : Groups[g].requirements[i].source \in sources
    \/ "helper" \in sources /\ \E i \in DOMAIN Groups[g].policies : Groups[g].policies[i].source = "helper"
SimpleStep ==
    /\ ~page.readiness.error /\ DefaultOpen
    /\ \E g \in DOMAIN page.readiness.statuses : HasSource(g, {"managed"})
    /\ \A g \in DOMAIN page.readiness.statuses : ~HasSource(g, {"tool", "helper"})
Refresh ==
    /\ page.accessApproved /\ ~SimpleStep /\ load.pc = "none" /\ loads < MaxLoads
    /\ LoadAgain
    /\ UNCHANGED <<start, members, policies, page, request, since, events>>

\* requestAccess, and POST /api/mcp-servers/[mcpKeyName]/access: the managed
\* roles and their policy, the helpers of the tools, the user's own membership,
\* the source policies.  Each is granted if it is not there.
SourceKeys == {k \in Assertions(start) : RoleOfKey(k).use = "source"}
HelperFacts == Memberships(start) \ ManagedMembers
UserMemberships == {f \in ManagedMembers : f[1] = User}
Grants ==
    << [members |-> ManagedMembers \ UserMemberships, keys |-> ManagedKeys],
       [members |-> {f \in HelperFacts : f[1] # User},
        keys |-> Assertions(start) \ (ManagedKeys \cup SourceKeys)],
       [members |-> UserMemberships, keys |-> {}],
       [members |-> {}, keys |-> SourceKeys] >>

RequestAccess ==
    /\ page.mounted /\ ~Approved /\ page.state # "requesting" /\ loads < MaxLoads
    /\ page' = [page EXCEPT !.state = "requesting"]
    /\ request' = IF Readable(start) THEN Grants ELSE << >>
    /\ UNCHANGED <<start, members, policies, load, history, since, events, loads>>
Granted ==
    /\ request # << >>
    /\ LET g == Head(request) IN
       AthenzBecomes(members \cup g.members,
                     [n \in PolicyNames |->
                        policies[n] \cup {k \in g.keys \ HeldKeys : HomeOf(k) = n}])
    /\ request' = Tail(request)
    /\ UNCHANGED <<start, load, page, events, loads>>
RequestApproved ==
    /\ page.state = "requesting" /\ request = << >> /\ Readable(start)
    /\ page' = [page EXCEPT !.state = "approved", !.accessApproved = TRUE]
    /\ IF loads < MaxLoads THEN LoadAgain ELSE UNCHANGED <<load, history, loads>>
    /\ UNCHANGED <<start, members, policies, request, since, events>>
RequestFails ==
    /\ page.state = "requesting"
    /\ IF Readable(start) THEN Fails ELSE Succeeds
    /\ page' = [page EXCEPT !.state = "error"]
    /\ request' = << >>
    /\ UNCHANGED <<start, members, policies, load, history, since, loads>>

PageNext ==
    \/ MembershipChanges \/ PolicyChanges
    \/ LoadStep \/ Delivered \/ Refresh
    \/ RequestAccess \/ Granted \/ RequestApproved \/ RequestFails

PageSpec == PageInit /\ [][PageNext]_pageVars

----------------------------------------------------------------------------
(* Properties.                                                             *)

\* A status is what Athenz said while the page was loaded, although the
\* lookups are many and nothing holds Athenz still: what is ready was there at
\* some moment, a membership that is missing was absent at some moment, and of
\* a policy that is missing no assertion stayed in its place all the time.
StatusesWereTrue ==
    load.pc = "answered" =>
       \A g \in DOMAIN load.answer.statuses :
          LET s == load.answer.statuses[g] IN
          /\ \A i \in DOMAIN s.requirements :
                LET f == Identity(Groups[g].requirements[i]) IN
                /\ s.requirements[i] = "ready" => f \in history.held
                /\ s.requirements[i] = "missing" => f \in history.gone
          /\ \A i \in DOMAIN s.policies :
                LET k == PolicyKey(Groups[g].policies[i]) IN
                /\ s.policies[i] = "ready" => k \in history.keys
                /\ s.policies[i] = "missing" => \A n \in PolicyNames : <<n, k>> \notin history.kept

\* A tool requires the server's own access role: mergeRequirements then keeps its
\* row and drops the managed one.
Custom(x) == x.source # "managed"
OwnRoleRequired ==
    \E g \in DOMAIN Groups : \E row \in ToSet(Groups[g].requirements) :
       Custom(row) /\ Identity(row) \in ManagedMembers

\* The helpers of a tool set a policy that the server's own access needs, which is
\* then not expected a second time.
OwnPolicySet ==
    \E g \in DOMAIN Groups : \E p \in ToSet(Groups[g].policies) :
       Custom(p) /\ PolicyKey(p) \in ManagedKeys

\* "MCP Hub verified your membership and this server's managed token-exchange
\* setup" is shown only if each of these has been there since the page was
\* asked for: unless a tool requires the server's own access role or sets its
\* policies, which are then not managed ones and are not looked at.
ApprovedWasVerified ==
    Approved /\ ~OwnRoleRequired /\ ~OwnPolicySet =>
       ManagedMembers \cup ManagedKeys \subseteq since

\* No status of a tool is counted and not shown: its row is ready just when
\* every row of the tables in its dialog is, and no request is needed just when
\* every row of the table of its own permissions is.  Where a tool requires the
\* server's own access role, a policy and the only row of its role may belong to
\* two tables, and then no table shows it.
StatusesOf(g) ==
    ToSet(page.readiness.statuses[g].requirements) \cup ToSet(page.readiness.statuses[g].policies)
GroupStatus(g) ==
    IF "unavailable" \in StatusesOf(g) THEN "unavailable"
    ELSE IF "missing" \in StatusesOf(g) THEN "missing" ELSE "ready"
RequestStatus(g) ==
    LET s == page.readiness.statuses[g]
        checks == {s.requirements[i] : i \in {k \in DOMAIN s.requirements :
                                                Custom(Groups[g].requirements[k])}}
                  \cup {s.policies[i] : i \in {k \in DOMAIN s.policies : Custom(Groups[g].policies[k])}}
    IN IF checks = {} THEN "not-required"
       ELSE IF "unavailable" \in checks THEN "unavailable"
       ELSE IF "missing" \in checks THEN "missing" ELSE "ready"
\* The row of a requirement, with the policies of its role in the same table.
RowStatus(g, i) ==
    LET s == page.readiness.statuses[g]
        all == {s.requirements[i]} \cup
               {s.policies[k] : k \in {x \in DOMAIN s.policies :
                   /\ Groups[g].policies[x].role = Groups[g].requirements[i].role
                   /\ Custom(Groups[g].policies[x]) <=> Custom(Groups[g].requirements[i])}}
    IN IF "missing" \in all THEN "missing"
       ELSE IF "unavailable" \in all THEN "unavailable" ELSE "ready"
RowStatuses(g, rows) ==
    {RowStatus(g, i) : i \in {k \in DOMAIN Groups[g].requirements :
                                Custom(Groups[g].requirements[k]) \in rows}}
NothingHidden ==
    ~OwnRoleRequired => \A t \in page.tools :
       LET g == RowGroup(t) IN
       g # None =>
          /\ GroupStatus(g) = "ready" <=> RowStatuses(g, BOOLEAN) \subseteq {"ready"}
          /\ RequestStatus(g) \in {"ready", "not-required"}
                <=> RowStatuses(g, {TRUE}) \subseteq {"ready"}

=============================================================================
