------------------------- MODULE PermissionSettings -------------------------
(***************************************************************************)
(* The permission settings of a Hub MCP server: what a tool requires, how  *)
(* the settings are validated, resolved for the signed-in user into the    *)
(* list of memberships and policies that a page shows and checks, and how  *)
(* they become the draft that an editor shows, and a draft settings again. *)
(* A text field is a member of a small set; "" is a field left empty.      *)
(***************************************************************************)
EXTENDS Naturals, Sequences, FiniteSets, SequencesExt

CONSTANTS
    None,     \* a field that is absent
    Service,  \* the IAM service account of the MCP server, or None
    User,     \* the Athenz principal of the signed-in user
    Tools     \* names of the tools that servers list

SignedIn == "<signed_in_user>"
Gateway == "mcp-hub.mcp-gateway"
TemplateMember == "mcp-hub.template-mcp-iam-account"
Placeholder == "<group>"   \* any other name in angle brackets

\* An Athenz role.  Three names are made from that of a direct role by a
\* suffix: -jag-exchanger, -exchanger and -source-exchanger.
Uses == {"direct", "jag", "target", "source"}
Role(d, n, u) == [domain |-> d, name |-> n, use |-> u]
HelperRole(r, u) == [r EXCEPT !.use = u]
RoleValid(r) == r.domain # "" /\ r.name # ""
MemberValid(m) == m \notin {"", Placeholder, None}

\* types/permissions.ts
Policy(e, a, r) == [effect |-> e, action |-> a, resource |-> r]
Helper(m, r, ps) == [member |-> m, role |-> r, policies |-> ps, policy |-> None]
Requirement(m, r, inc, hs) == [member |-> m, role |-> r, include |-> inc, helpers |-> hs]

\* The form of what is in a document.  A role that a tool requires is a direct
\* one: any other name would be one that its suffix makes from another.
IsSequence(s) == s \in Seq(ToSet(s))
IsDirectRole(r) == r = Role(r.domain, r.name, "direct")
HelpersFormed(hs) ==
    /\ IsSequence(hs)
    /\ \A h \in ToSet(hs) :
          /\ h = [member |-> h.member, role |-> h.role, policies |-> h.policies,
                  policy |-> h.policy]
          /\ h.policies # None => IsSequence(h.policies)
RequirementsFormed(rs) ==
    /\ IsSequence(rs)
    /\ \A q \in ToSet(rs) :
          /\ q = Requirement(q.member, q.role, q.include, q.helpers) /\ IsDirectRole(q.role)
          /\ q.helpers # None => HelpersFormed(q.helpers)
SettingsFormed(s) ==
    s # None =>
       /\ s = [default |-> s.default, tools |-> s.tools] /\ IsFiniteSet(DOMAIN s.tools)
       /\ \A t \in DOMAIN s.tools :
             LET tool == s.tools[t] IN
             /\ tool = [requirements |-> tool.requirements, include |-> tool.include,
                        helpers |-> tool.helpers]
             /\ RequirementsFormed(tool.requirements)
             /\ tool.helpers # None => HelpersFormed(tool.helpers)

\* The elements of a sequence at a set of indices, in their order.
Selected(s, indices) ==
    FlattenSeq([i \in DOMAIN s |-> IF i \in indices THEN <<s[i]>> ELSE << >>])

----------------------------------------------------------------------------
(* Validation.                                                             *)

Distinct(s, F(_)) == \A i, j \in DOMAIN s : F(s[i]) = F(s[j]) => i = j
Identity(x) == <<x.member, x.role>>

PolicyIdentity(p) == <<p.effect, p.action, p.resource>>
PolicyValid(p) == p.action # "" /\ p.resource # << >>
PoliciesValid(ps) == (\A i \in DOMAIN ps : PolicyValid(ps[i])) /\ Distinct(ps, PolicyIdentity)

\* A helper is a static service, with its policies, or one policy in the
\* legacy form, or neither.
HelpersValid(hs) ==
    /\ \A i \in DOMAIN hs :
          LET h == hs[i] IN
          /\ MemberValid(h.member) /\ h.member # SignedIn
          /\ RoleValid(h.role)
          /\ h.policy = None \/ h.policies = None
          /\ h.policies # None => PoliciesValid(h.policies)
          /\ h.policy # None => PolicyValid(h.policy)
    /\ Distinct(hs, Identity)
ParsedHelper(h) ==
    IF h.policy = None THEN h ELSE Helper(h.member, h.role, <<h.policy>>)

RequirementsValid(rs) ==
    /\ \A i \in DOMAIN rs :
          LET r == rs[i] IN
          /\ MemberValid(r.member) /\ RoleValid(r.role)
          /\ r.include \in {None} \cup BOOLEAN
          /\ (r.include # None \/ r.helpers # None) => r.member = SignedIn
          /\ r.helpers # None => r.include = TRUE /\ HelpersValid(r.helpers)
    /\ Distinct(rs, Identity)
ParsedRequirements(rs) ==
    [i \in DOMAIN rs |->
        IF rs[i].helpers = None THEN rs[i]
        ELSE [rs[i] EXCEPT !.helpers = [k \in DOMAIN @ |-> ParsedHelper(@[k])]]]

\* A tool of a settings document.  The legacy form has the fields of the
\* helpers on the tool and not on its requirements.
Tool(rs) == [requirements |-> rs, include |-> None, helpers |-> None]
Legacy(t) == t.include # None \/ t.helpers # None
SignedInRows(rs) == {i \in DOMAIN rs : rs[i].member = SignedIn}
ToolValid(t) ==
    /\ RequirementsValid(t.requirements)
    /\ t.include \in {None} \cup BOOLEAN
    /\ t.helpers # None => t.include = TRUE /\ HelpersValid(t.helpers)
    /\ Legacy(t) =>
          /\ \A i \in DOMAIN t.requirements :
                t.requirements[i].include = None /\ t.requirements[i].helpers = None
          /\ t.include = TRUE => SignedInRows(t.requirements) # {}
          /\ t.helpers # None => Cardinality(SignedInRows(t.requirements)) = 1
ParsedTool(t) ==
    LET rs == ParsedRequirements(t.requirements) IN
    IF ~Legacy(t) THEN rs
    ELSE [i \in DOMAIN rs |->
            IF rs[i].member # SignedIn THEN rs[i]
            ELSE [rs[i] EXCEPT !.include = t.include,
                               !.helpers = IF t.helpers = None THEN None
                                           ELSE [k \in DOMAIN t.helpers |->
                                                   ParsedHelper(t.helpers[k])]]]

\* parseToolPermissionSettings; parsed settings map a tool to its requirements.
SettingsValid(s) ==
    /\ s.default \in {None, "none", "not-defined"}
    /\ \A t \in DOMAIN s.tools : t # "" /\ ToolValid(s.tools[t])
    /\ DOMAIN s.tools # {} \/ s.default # None
Parsed(s) == [default |-> s.default,
              tools |-> [t \in DOMAIN s.tools |-> ParsedTool(s.tools[t])]]

\* The preset document has an entry for the server or not.
PresetEntryValid(entry) == entry # None => SettingsValid(entry)
PresetEntry(entry) == IF entry = None THEN None ELSE Parsed(entry)

\* mergeToolPermissionSettings
Merged(base, over) ==
    IF base = None THEN over
    ELSE IF over = None THEN base
    ELSE [default |-> IF over.default = None THEN base.default ELSE over.default,
          tools |-> [t \in DOMAIN base.tools \cup DOMAIN over.tools |->
                        IF t \in DOMAIN over.tools THEN over.tools[t] ELSE base.tools[t]]]

----------------------------------------------------------------------------
(* Resolution: the rows that the page of a server shows and checks.        *)

\* exchangeHelperRequirements, for one required role
GeneratedHelperRows(r) ==
    << Helper(Gateway, HelperRole(r, "jag"), None),
       Helper(Service, HelperRole(r, "target"), None) >>

\* resolveConfiguredRequirement; "index" is that of the tool's requirement.
ResolvedMember(m) == IF m = SignedIn THEN User ELSE m
Row(m, r, src, i) ==
    [configured |-> m, member |-> ResolvedMember(m), role |-> r, source |-> src, index |-> i,
     include |-> None, customized |-> FALSE, policies |-> None]
DirectRow(q, i) ==
    [Row(q.member, q.role, "tool", i) EXCEPT !.include = q.include,
                                            !.customized = q.helpers # None]
HelperRow(h, i) == [Row(h.member, h.role, "helper", i) EXCEPT !.policies = h.policies]

RowsOf(q, i) ==
    IF q.include # TRUE THEN <<DirectRow(q, i)>>
    ELSE LET hs == IF q.helpers = None THEN GeneratedHelperRows(q.role) ELSE q.helpers
         IN <<DirectRow(q, i)>> \o [k \in DOMAIN hs |-> HelperRow(hs[k], i)]

PolicyRow(p, r, src, i) ==
    [effect |-> p.effect, action |-> p.action, resource |-> p.resource, role |-> r,
     source |-> src, index |-> i]
ConfiguredPolicyRows(row) ==
    IF row.source # "helper" \/ row.policies = None THEN << >>
    ELSE [k \in DOMAIN row.policies |->
            PolicyRow(row.policies[k], row.role, "helper", row.index)]

\* The generated helpers need a service principal: without one the settings
\* cannot be resolved, and the page shows a configuration error.
Resolvable(rs) ==
    \A i \in DOMAIN rs : rs[i].include = TRUE /\ rs[i].helpers = None => MemberValid(Service)

\* permissionPresetFromToolSettings, for one tool
Group(rs) ==
    LET rows == FlattenSeq([i \in DOMAIN rs |-> RowsOf(rs[i], i)])
    IN [requirements |-> rows,
        policies |-> FlattenSeq([k \in DOMAIN rows |-> ConfiguredPolicyRows(rows[k])])]

\* withManagedAccessRequirements: rows for the server's own access roles,
\* but for those that the tool's rows already hold.
ManagedRows(scope) ==
    FlattenSeq([k \in DOMAIN scope |->
        << Row(SignedIn, scope[k], "managed", None),
           Row(Gateway, HelperRole(scope[k], "jag"), "managed", None) >>
        \o IF Service = None THEN << >>
           ELSE << Row(Service, HelperRole(scope[k], "source"), "managed", None) >>])
MergedRows(rows, added) ==
    rows \o Selected(added, {k \in DOMAIN added :
                               \A i \in DOMAIN rows : Identity(rows[i]) # Identity(added[k])})
SharedGroup == "tools that are not listed"
WithManagedAccess(groups, default, scope) ==
    IF scope = << >> THEN groups
    ELSE LET shared == DOMAIN groups = {} \/ default = "none" IN
         [g \in DOMAIN groups \cup (IF shared THEN {SharedGroup} ELSE {}) |->
             IF g \in DOMAIN groups
             THEN [groups[g] EXCEPT !.requirements = MergedRows(@, ManagedRows(scope))]
             ELSE [requirements |-> ManagedRows(scope), policies |-> << >>]]

\* exchangePolicyRules: the rules that let tokens of the audience be exchanged
\* into the target role.
ExchangeRules(target, audience, sourceRole) ==
    << [role |-> HelperRole(target, "jag"),
        rule |-> Policy("ALLOW", "zts.jag_exchange", <<target.domain, target.name>>)] >>
    \o (IF sourceRole = None THEN << >>
        ELSE << [role |-> sourceRole,
                 rule |-> Policy("ALLOW", "zts.token_source_exchange",
                                 <<audience, target.domain>>)] >>)
    \o << [role |-> HelperRole(target, "target"),
           rule |-> Policy("ALLOW", "zts.token_target_exchange",
                           <<target.domain, audience, target.name>>)] >>

\* withExpectedExchangePolicies: the rules that the group's signed-in rows
\* need, without those of roles whose policies are customized and without
\* those that are there already.
ExpectedOf(row, audience, sourceRole) ==
    LET rules == ExchangeRules(row.role, audience,
                               IF row.source = "tool" THEN sourceRole ELSE None)
        rowFor(k) ==
            PolicyRow(rules[k].rule, rules[k].role,
                      IF row.source = "tool" /\ rules[k].rule.action # "zts.token_source_exchange"
                      THEN "helper" ELSE "managed",
                      row.index)
    IN IF row.configured # SignedIn THEN << >>
       ELSE IF row.source = "tool" THEN [k \in DOMAIN rules |-> rowFor(k)]
       ELSE << rowFor(1) >>
PolicyKey(p) == <<p.effect, p.action, p.role, p.resource>>
CustomizedRoles(g) ==
    {<<g.policies[i].index, g.policies[i].role>> : i \in DOMAIN g.policies}
    \cup {<<g.requirements[i].index, g.requirements[i].role>> : i \in
            {k \in DOMAIN g.requirements :
                g.requirements[k].source = "helper" /\ g.requirements[k].policies # None}}
SourceRoleOf(g) ==
    LET sources == {i \in DOMAIN g.requirements :
                       g.requirements[i].source = "managed" /\ g.requirements[i].role.use = "source"}
    IN IF sources = {} THEN None
       ELSE g.requirements[CHOOSE i \in sources : \A j \in sources : i <= j].role
UnlistedKept(p, roles) == FALSE
Unlisted(p, roles) == p.role \notin roles
Adopted(expected, g) ==
    LET present == {PolicyKey(p) : p \in ToSet(g.policies)}
        applies(k) ==
            /\ ~Unlisted(expected[k], {row.role : row \in ToSet(g.requirements)})
            /\ expected[k].source = "helper" =>
                  <<expected[k].index, expected[k].role>> \notin CustomizedRoles(g)
        first(k) == \A j \in 1 .. k - 1 :
                        applies(j) => PolicyKey(expected[j]) # PolicyKey(expected[k])
    IN Selected(expected, {k \in DOMAIN expected :
                              applies(k) /\ PolicyKey(expected[k]) \notin present /\ first(k)})
WithExpectedPolicies(g, audience) ==
    IF audience = None THEN g
    ELSE [g EXCEPT !.policies = @ \o Adopted(
             FlattenSeq([i \in DOMAIN g.requirements |->
                            ExpectedOf(g.requirements[i], audience, SourceRoleOf(g))]), g)]

\* fetchPermissionDefinition without its reads: the groups of a server.
Definition(settings, scope, audience) ==
    LET groups == IF settings = None THEN << >>
                  ELSE [t \in DOMAIN settings.tools |-> Group(settings.tools[t])]
        default == IF settings = None THEN None ELSE settings.default
        all == WithManagedAccess(groups, default, scope)
    IN [g \in DOMAIN all |-> WithExpectedPolicies(all[g], audience)]

\* toolAccessScopesFromSettings: the roles the Gateway asks for, for each tool
\* that is listed.  With no role at all the settings are refused.
ToolScopes(settings, scope) ==
    [t \in DOMAIN settings.tools |->
        ToSet(scope) \cup {settings.tools[t][i].role : i \in SignedInRows(settings.tools[t])}]

----------------------------------------------------------------------------
(* Drafts: what an editor holds of a requirement.  The role is two fields, *)
(* its domain (the audience) and its name.                                 *)

EditableRole(r) == [audience |-> r.domain, name |-> r.name]
ConfiguredRole(audience, name) == Role(audience, name, "direct")
NoRole == Role("", "", "direct")

HelperMemberType(m) ==
    IF m = Gateway THEN "gateway"
    ELSE IF m # "" /\ m \in {Service, TemplateMember} THEN "mcp-service"
    ELSE "custom"
HelperMember(type) ==
    CASE type = "gateway" -> Gateway
      [] type = "mcp-service" -> IF Service = None THEN "" ELSE Service
      [] type = "custom" -> ""

DraftHelper(m, r, ps) ==
    [member |-> m, type |-> HelperMemberType(m), role |-> r, policies |-> ps]
DraftRow(m, r, customized, hs) ==
    [audience |-> EditableRole(r).audience, name |-> EditableRole(r).name, member |-> m,
     type |-> IF m = SignedIn THEN "signed-in-user" ELSE "service",
     customized |-> customized, helpers |-> hs]

EmptyPolicy == Policy("ALLOW", "", << >>)
EmptyHelper == DraftHelper("", NoRole, << EmptyPolicy >>)
EmptyRow == DraftRow(SignedIn, NoRole, FALSE, << >>)

\* editableRequirementsFromConfigured: the draft of the registration wizard.
HelperPolicies(h) ==
    IF h.policies # None THEN h.policies ELSE IF h.policy = None THEN << >> ELSE <<h.policy>>
WizardRows(rs) ==
    [i \in DOMAIN rs |->
        LET hs == IF rs[i].helpers = None THEN << >> ELSE rs[i].helpers IN
        DraftRow(rs[i].member, rs[i].role, rs[i].helpers # None \/ rs[i].include = FALSE,
                 [k \in DOMAIN hs |-> DraftHelper(hs[k].member, hs[k].role, HelperPolicies(hs[k]))])]

\* editableRequirements: the draft of a server's permission dialog, made from
\* the rows that the page was given.
RowsFrom(g, src) ==
    Selected(g.requirements, {i \in DOMAIN g.requirements : g.requirements[i].source = src})
DialogHelper(row, policies) ==
    LET checked == Selected(policies, {k \in DOMAIN policies :
                                         /\ policies[k].source = "helper"
                                         /\ policies[k].index = row.index
                                         /\ policies[k].role = row.role})
        shown == IF checked # << >> THEN checked
                 ELSE IF row.policies = None THEN << >> ELSE row.policies
    IN DraftHelper(row.member, row.role,
                   [k \in DOMAIN shown |->
                      Policy(shown[k].effect, shown[k].action, shown[k].resource)])
DialogRowsGenerated(g) ==
    [i \in DOMAIN RowsFrom(g, "tool") |->
        DraftRow(RowsFrom(g, "tool")[i].configured, RowsFrom(g, "tool")[i].role, FALSE, << >>)]
DialogRows(g) ==
    LET rows == RowsFrom(g, "tool")
        helpers == RowsFrom(g, "helper") IN
    [i \in DOMAIN rows |->
        LET hs == Selected(helpers, {k \in DOMAIN helpers : helpers[k].index = rows[i].index}) IN
        DraftRow(rows[i].configured, rows[i].role,
                 rows[i].customized \/ rows[i].include = FALSE,
                 [k \in DOMAIN hs |-> DialogHelper(hs[k], g.policies)])]

\* generatedExchangeHelperDraftsForRequirement: nothing without a service, an
\* audience and a valid role.
GeneratedDraft(row, audience) ==
    LET target == ConfiguredRole(row.audience, row.name)
        rules == ExchangeRules(target, audience, None)
        hs == GeneratedHelperRows(target)
        policiesOf(r) == LET mine == Selected(rules, {k \in DOMAIN rules : rules[k].role = r})
                         IN [k \in DOMAIN mine |-> mine[k].rule]
    IN IF Service = None \/ audience = None \/ ~RoleValid(target) THEN << >>
       ELSE [k \in DOMAIN hs |-> DraftHelper(hs[k].member, hs[k].role, policiesOf(hs[k].role))]

\* exchangeHelperDraftsForRequirement: the helpers that the editor displays,
\* which are those it changes.
DisplayedHelpers(row, audience) ==
    IF ~row.customized THEN GeneratedDraft(row, audience)
    ELSE [k \in DOMAIN row.helpers |->
            IF row.helpers[k].type = "mcp-service" /\ Service # None
            THEN [row.helpers[k] EXCEPT !.member = Service] ELSE row.helpers[k]]

\* configuredRequirementsFromDraft
ConfiguredHelperWithoutPolicies(h) == Helper(h.member, h.role, << >>)
ConfiguredHelper(h) ==
    Helper(IF h.type = "mcp-service" /\ Service # None THEN Service ELSE h.member,
           h.role, h.policies)
ConfiguredRows(rows, helpersIncluded) ==
    [i \in DOMAIN rows |->
        LET row == rows[i]
            managed == row.type = "signed-in-user" /\ helpersIncluded
        IN Requirement(IF row.type = "signed-in-user" THEN SignedIn ELSE row.member,
                       ConfiguredRole(row.audience, row.name),
                       IF managed THEN TRUE ELSE None,
                       IF managed /\ row.customized
                       THEN [k \in DOMAIN row.helpers |-> ConfiguredHelper(row.helpers[k])]
                       ELSE None)]

\* validateToolPermissionDraft: the settings of the wizard's tools, a sequence
\* of [tool, rows], or None where they are refused.
WizardComplete(tools) ==
    /\ \A i \in DOMAIN tools :
          /\ tools[i].tool # ""
          /\ \A k \in DOMAIN tools[i].rows :
                tools[i].rows[k].audience # "" /\ tools[i].rows[k].name # ""
    /\ Distinct(tools, LAMBDA t : t.tool)
WizardSettings(tools, helpersIncluded, default) ==
    [default |-> default,
     tools |-> [t \in {tools[i].tool : i \in DOMAIN tools} |->
                  Tool(ConfiguredRows(tools[CHOOSE i \in DOMAIN tools : tools[i].tool = t].rows,
                                      helpersIncluded))]]
WizardValid(tools, helpersIncluded, default) ==
    /\ WizardComplete(tools)
    /\ \/ tools = << >> /\ default = None
       \/ SettingsValid(WizardSettings(tools, helpersIncluded, default))

\* toolPermissionDraftFromSettings and toolPermissionDefaultFromSettings
WizardDraft(settings) ==
    IF settings = None THEN << >>
    ELSE LET names == SetToSeq(DOMAIN settings.tools) IN
         [i \in DOMAIN names |-> [tool |-> names[i], rows |-> WizardRows(settings.tools[names[i]])]]
WizardDefault(settings) ==
    IF settings = None \/ settings.default = None THEN "not-defined" ELSE settings.default

=============================================================================
