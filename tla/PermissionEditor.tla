-------------------------- MODULE PermissionEditor --------------------------
(***************************************************************************)
(* The Hub's editors of tool permissions.  On the page of an MCP server a  *)
(* dialog edits what one tool requires; the registration wizard edits all  *)
(* the tools of the server; both work on drafts, look roles up in Athenz   *)
(* while the user goes on, and save through requests that read and write   *)
(* in steps of their own.  What a save does in Athenz is in HubRegistration.*)
(***************************************************************************)
EXTENDS PermissionSettings

CONSTANTS
    Edited,         \* the tool of the dialog
    EditorStarts,   \* what the preset document and the Deployment may start with
    Audiences,      \* Athenz domains with roles that a user may name
    RoleNames,      \* names of their roles
    EditorScope,    \* the access roles of the server
    EditorAudience, \* the domain of its access scope
    TypedHelper,    \* a helper that the user may type in
    MaxHelpers,     \* model bound: helpers of a requirement that the user edits
    MaxRows,        \* model bound: requirements of a draft
    MaxEdits,       \* model bound: edits by the user
    MaxLookups,     \* model bound: lookups of roles that end
    MaxSaves,       \* model bound: saves that are asked for
    Volatile,       \* roles that administrators make and remove
    MaxRoleChanges  \* model bound: roles made or removed by others

ASSUME EditorAssumption ==
    /\ Edited \in Tools /\ "" \notin Tools /\ Service \notin {None, "", SignedIn}
    /\ \A s \in EditorStarts : \A settings \in {s.preset, s.stored} :
          PresetEntryValid(settings) /\ SettingsFormed(settings)
    /\ IsSequence(EditorScope) /\ \A r \in ToSet(EditorScope) \cup Volatile : IsDirectRole(r)
    /\ HelpersFormed(<< TypedHelper >>) /\ TypedHelper.policies \notin {None, << >>}
    /\ {MaxHelpers, MaxRows, MaxEdits, MaxLookups, MaxSaves, MaxRoleChanges} \subseteq Nat

VARIABLES
    preset,       \* the entry of the preset document
    stored,       \* the settings in the Deployment's annotation
    roles,        \* the direct roles that Athenz has
    display,      \* what the page shows of the tool, and its loads
    dialog,       \* the dialog
    selects,      \* the role menus of its rows
    wizard,       \* the wizard
    put,          \* the saves on their way: the dialog's, the wizard's
    began,        \* (history) what the dialog showed when editing began
    listed,       \* (history) the roles that a lookup answered
    edits, lookups, saves, roleChanges

editorVars == <<preset, stored, roles, display, dialog, selects, wizard, put, began, listed,
                edits, lookups, saves, roleChanges>>
server == <<preset, stored, roles, put, roleChanges>>
counters == <<edits, lookups, saves>>

Editors == {"dialog", "wizard"}
DirectRoles == {Role(a, n, "direct") : a \in Audiences, n \in RoleNames}

\* What the page is given for the dialog's tool, or None where the tool is not
\* configured; a definition that fails leaves every tool so.
Shown(settings) ==
    LET all == Merged(PresetEntry(preset), settings)
        groups == Definition(all, EditorScope, EditorAudience)
    IN IF all # None /\ \E t \in DOMAIN all.tools : ~Resolvable(all.tools[t]) THEN None
       ELSE IF Edited \in DOMAIN groups THEN groups[Edited]
       ELSE IF all # None /\ all.default = "none" /\ SharedGroup \in DOMAIN groups
            THEN groups[SharedGroup] ELSE None

NoSelect == [audience |-> "", names |-> {}, status |-> "idle",
             lookup |-> <<"", "">>, asked |-> ""]
NoPut == [pc |-> "idle", tools |-> << >>, default |-> None, seen |-> None]
NoWizard == [open |-> FALSE, saving |-> FALSE, default |-> None, tools |-> << >>]

EditorInit ==
    /\ \E s \in EditorStarts : preset = s.preset /\ stored = PresetEntry(s.stored)
    /\ roles = DirectRoles
    /\ display = [group |-> Shown(stored), loading |-> FALSE]
    /\ dialog = [open |-> FALSE, editing |-> FALSE, saving |-> FALSE, rows |-> << >>]
    /\ selects = << >>
    /\ wizard = NoWizard
    /\ put = [e \in Editors |-> NoPut]
    /\ began = [group |-> None, clean |-> FALSE]
    /\ listed = {}
    /\ edits = 0 /\ lookups = 0 /\ saves = 0 /\ roleChanges = 0

----------------------------------------------------------------------------
(* The page.                                                               *)

\* The refresh buttons of the page and of the dialog are disabled meanwhile.
RefreshPage ==
    /\ ~display.loading /\ ~dialog.saving
    /\ edits < MaxEdits /\ edits' = edits + 1
    /\ display' = [display EXCEPT !.loading = TRUE]
    /\ UNCHANGED <<server, dialog, selects, wizard, began, listed, lookups, saves>>

\* fetchPermissionReadiness resolves the settings of the catalogue; a preset
\* document that cannot be read makes it fail.
Load ==
    /\ display.loading
    /\ \E failed \in BOOLEAN :
          display' = [group |-> IF failed THEN None ELSE Shown(stored), loading |-> FALSE]
    /\ UNCHANGED <<server, dialog, selects, wizard, began, listed, counters>>

----------------------------------------------------------------------------
(* The role menus.                                                         *)

\* loadRoles: a lookup replaces the one before it, which is aborted; it is
\* skipped if the roles of the audience are there or on their way.
LoadRoles(s, audience, force) ==
    IF \/ audience = ""
       \/ ~force /\ s.audience = audience /\ s.status \in {"loading", "ready"}
    THEN s
    ELSE [s EXCEPT !.audience = audience, !.status = "loading", !.asked = audience,
                   !.names = IF s.audience = audience THEN @ ELSE {}]

InitialLookupOnce(s, row) ==
    IF row.name = "" \/ s.lookup # <<"", "">> THEN s
    ELSE LoadRoles([s EXCEPT !.lookup = <<row.audience, row.name>>], row.audience, FALSE)

\* A row that has a role looks it up, once for each role.  The menus belong to
\* positions: a row that moves up finds the menu of the row it replaces.
InitialLookup(s, row) ==
    IF row.name = "" \/ row.audience = "" \/ s.lookup = <<row.audience, row.name>> THEN s
    ELSE LoadRoles([s EXCEPT !.lookup = <<row.audience, row.name>>], row.audience, FALSE)
Menus(old, rows) ==
    [i \in DOMAIN rows |-> InitialLookup(IF i \in DOMAIN old THEN old[i] ELSE NoSelect, rows[i])]

MenuState(i) == IF selects[i].audience = dialog.rows[i].audience THEN selects[i] ELSE NoSelect
Options(i) ==
    MenuState(i).names
    \cup IF MenuState(i).status # "ready" THEN {dialog.rows[i].name} \ {""} ELSE {}

OpenMenu(i, force) ==
    /\ i \in DOMAIN selects
    /\ force => MenuState(i).status # "loading"
    /\ selects' = [selects EXCEPT ![i] = LoadRoles(@, dialog.rows[i].audience, force)]
    /\ UNCHANGED <<server, display, dialog, wizard, began, listed, counters>>

\* Rows that the user or an answer has changed.
Draft(rows, clean) ==
    /\ dialog' = [dialog EXCEPT !.rows = rows]
    /\ selects' = Menus(selects, rows)
    /\ began' = [began EXCEPT !.clean = clean]

\* A role that the answer does not have is taken from the row.
SelectableNames(audience) == {r.name : r \in {q \in roles : q.domain = audience}}
RolesAnswered(i) ==
    /\ i \in DOMAIN selects /\ selects[i].asked # ""
    /\ lookups < MaxLookups /\ lookups' = lookups + 1
    /\ LET names == SelectableNames(selects[i].asked)
           gone == dialog.rows[i].name \notin names \cup {""}
           rows == IF gone THEN [dialog.rows EXCEPT ![i].name = ""] ELSE dialog.rows
           menus == [selects EXCEPT ![i].audience = selects[i].asked, ![i].names = names,
                                    ![i].status = "ready", ![i].asked = ""]
       IN /\ dialog' = [dialog EXCEPT !.rows = rows]
          /\ selects' = Menus(menus, rows)
          /\ began' = [began EXCEPT !.clean = @ /\ ~gone]
          /\ listed' = listed \cup {r \in roles : r.domain = selects[i].asked}
    /\ UNCHANGED <<server, display, wizard, edits, saves>>
RolesFailed(i) ==
    /\ i \in DOMAIN selects /\ selects[i].asked # ""
    /\ lookups < MaxLookups /\ lookups' = lookups + 1
    /\ selects' = [selects EXCEPT ![i].audience = selects[i].asked, ![i].names = {},
                                  ![i].status = "error", ![i].asked = ""]
    /\ UNCHANGED <<server, display, dialog, wizard, began, listed, edits, saves>>

----------------------------------------------------------------------------
(* The dialog.                                                             *)

\* openDialog and closing it.  Opening ends the editing that closing left, so
\* the draft may as well go when it closes; a save goes on meanwhile.
NotEditing(d) ==
    /\ dialog' = [d EXCEPT !.editing = FALSE, !.rows = << >>]
    /\ selects' = << >>
    /\ began' = [group |-> None, clean |-> FALSE]
OpenDialog ==
    /\ ~dialog.open /\ ~wizard.open
    /\ NotEditing([dialog EXCEPT !.open = TRUE])
    /\ UNCHANGED <<server, display, wizard, listed, counters>>
CloseDialog ==
    /\ dialog.open
    /\ NotEditing([dialog EXCEPT !.open = FALSE])
    /\ UNCHANGED <<server, display, wizard, listed, counters>>

BeginEditing ==
    /\ dialog.open /\ ~dialog.editing
    /\ LET rows == IF display.group = None THEN << EmptyRow >> ELSE DialogRows(display.group) IN
       /\ dialog' = [dialog EXCEPT !.editing = TRUE, !.rows = rows]
       /\ selects' = Menus(<< >>, rows)
    /\ began' = [group |-> display.group, clean |-> TRUE]
    /\ UNCHANGED <<server, display, wizard, listed, counters>>
CancelEditing ==
    /\ dialog.open /\ dialog.editing /\ ~dialog.saving
    /\ NotEditing(dialog)
    /\ UNCHANGED <<server, display, wizard, listed, counters>>

\* An edit by the user; the fields stay open to edits during a save.
Edit(rows) ==
    /\ dialog.open /\ dialog.editing
    /\ edits < MaxEdits /\ edits' = edits + 1
    /\ Draft(rows, FALSE)
    /\ UNCHANGED <<server, display, wizard, listed, lookups, saves>>
Updated(i, row) == [dialog.rows EXCEPT ![i] = row]
Without(s, i) == RemoveAt(s, i)

\* AdditionalToolAccessField
ChangeAccessMode ==
    \/ dialog.rows # << >> /\ Edit(<< >>)
    \/ dialog.rows = << >> /\ Edit(<< EmptyRow >>)
AddRow == dialog.rows # << >> /\ Len(dialog.rows) < MaxRows /\ Edit(Append(dialog.rows, EmptyRow))
RemoveRow(i) == i \in DOMAIN dialog.rows /\ Edit(Without(dialog.rows, i))
SetAudienceOnly(i) ==
    \E a \in Audiences :
       /\ i \in DOMAIN dialog.rows /\ dialog.rows[i].audience # a
       /\ Edit(Updated(i, [dialog.rows[i] EXCEPT !.audience = a]))
SetAudience(i) ==
    \E a \in Audiences :
       /\ i \in DOMAIN dialog.rows /\ dialog.rows[i].audience # a
       /\ Edit(Updated(i, [dialog.rows[i] EXCEPT !.audience = a, !.name = ""]))
PickRole(i) ==
    /\ i \in DOMAIN dialog.rows /\ i \in DOMAIN selects
    /\ \E n \in Options(i) \ {dialog.rows[i].name} :
          Edit(Updated(i, [dialog.rows[i] EXCEPT !.name = n]))
SetMemberType(i) ==
    /\ i \in DOMAIN dialog.rows
    /\ \E type \in {"signed-in-user", "service"} \ {dialog.rows[i].type} :
          Edit(Updated(i, [dialog.rows[i] EXCEPT
                             !.type = type, !.customized = FALSE, !.helpers = << >>,
                             !.member = IF type = "service" THEN "" ELSE SignedIn]))
SetMember(i) ==
    /\ i \in DOMAIN dialog.rows /\ dialog.rows[i].type = "service"
    /\ dialog.rows[i].member # Gateway
    /\ Edit(Updated(i, [dialog.rows[i] EXCEPT !.member = Gateway]))

\* ExchangeHelperEditor: the first change makes the displayed helpers the
\* requirement's own.
Helpers(i) == DisplayedHelpers(dialog.rows[i], EditorAudience)
HasHelpers(i) == i \in DOMAIN dialog.rows /\ dialog.rows[i].type = "signed-in-user"
Customize(i, hs) ==
    Edit(Updated(i, [dialog.rows[i] EXCEPT !.customized = TRUE, !.helpers = hs]))
UpdateHelper(i, k, h) == Customize(i, [Helpers(i) EXCEPT ![k] = h])
HelperEdits(h) ==
    {[h EXCEPT !.type = type, !.member = HelperMember(type)] :
        type \in {"gateway", "mcp-service", "custom"} \ {h.type}}
    \cup {[h EXCEPT !.role = TypedHelper.role]}
    \cup (IF h.type = "custom" THEN {[h EXCEPT !.member = TypedHelper.member]} ELSE {})
PolicyEdits(ps) ==
    {[ps EXCEPT ![k].effect = IF @ = "ALLOW" THEN "DENY" ELSE "ALLOW"] : k \in DOMAIN ps}
    \cup {[ps EXCEPT ![k] = TypedHelper.policies[1]] : k \in DOMAIN ps}
    \cup {Without(ps, k) : k \in DOMAIN ps}
    \cup {Append(ps, EmptyPolicy)}
EditHelper(i) ==
    /\ HasHelpers(i)
    /\ \E k \in (DOMAIN Helpers(i)) \cap (1 .. MaxHelpers) :
          \/ \E h \in HelperEdits(Helpers(i)[k]) : UpdateHelper(i, k, h)
          \/ \E ps \in PolicyEdits(Helpers(i)[k].policies) :
                UpdateHelper(i, k, [Helpers(i)[k] EXCEPT !.policies = ps])
          \/ Customize(i, Without(Helpers(i), k))
AddHelper(i) == HasHelpers(i) /\ Customize(i, Append(Helpers(i), EmptyHelper))
ResetHelpers(i) ==
    /\ HasHelpers(i)
    /\ Helpers(i) = << >> \/ dialog.rows[i].customized
    /\ GeneratedDraft(dialog.rows[i], EditorAudience) # << >>
    /\ Edit(Updated(i, [dialog.rows[i] EXCEPT
                          !.customized = FALSE,
                          !.helpers = GeneratedDraft(dialog.rows[i], EditorAudience)]))

----------------------------------------------------------------------------
(* The wizard that edits the registered server.                            *)

\* The page reads the server; one requirement of a tool is kept aside while
\* the tool needs none.  The user is on one page at a time.
OpenWizard ==
    /\ ~wizard.open /\ ~dialog.open
    /\ wizard' = [open |-> TRUE, saving |-> FALSE, default |-> WizardDefault(stored),
                  tools |-> [i \in DOMAIN WizardDraft(stored) |->
                               [tool |-> WizardDraft(stored)[i].tool,
                                rows |-> WizardDraft(stored)[i].rows,
                                cached |-> None, touched |-> FALSE]]]
    /\ UNCHANGED <<server, display, dialog, selects, began, listed, counters>>
LeaveWizard ==
    /\ wizard.open /\ ~wizard.saving
    /\ wizard' = NoWizard
    /\ UNCHANGED <<server, display, dialog, selects, began, listed, counters>>

WizardEdit(w) ==
    /\ wizard.open /\ ~wizard.saving
    /\ edits < MaxEdits /\ edits' = edits + 1
    /\ wizard' = w
    /\ UNCHANGED <<server, display, dialog, selects, began, lookups, saves>>
FixedRequirement(row) ==
    [row EXCEPT !.type = "signed-in-user", !.customized = FALSE, !.helpers = << >>,
                !.member = SignedIn]
WithTool(i, row, rows) ==
    [wizard EXCEPT !.tools[i].rows = rows, !.tools[i].cached = row, !.tools[i].touched = TRUE]

AddTool ==
    /\ Len(wizard.tools) < Cardinality(Tools)
    /\ WizardEdit([wizard EXCEPT !.tools =
                     Append(@, [tool |-> "", rows |-> << >>, cached |-> None, touched |-> TRUE])])
    /\ UNCHANGED listed
NameTool(i) ==
    /\ \E t \in Tools \ {wizard.tools[i].tool} :
          WizardEdit([wizard EXCEPT !.tools[i].tool = t, !.tools[i].touched = TRUE])
    /\ UNCHANGED listed
RemoveTool(i) ==
    /\ WizardEdit([wizard EXCEPT !.tools = RemoveAt(@, i)])
    /\ UNCHANGED listed
SetDefault ==
    /\ WizardEdit([wizard EXCEPT !.default = IF @ = "none" THEN "not-defined" ELSE "none"])
    /\ UNCHANGED listed

\* toggleAdditionalPermission
ToggleRequired(i) ==
    LET t == wizard.tools[i]
        known == IF t.cached # None THEN t.cached ELSE EmptyRow
        first == FixedRequirement(IF t.rows = << >> THEN known ELSE t.rows[1]) IN
    /\ IF t.rows = << >> THEN WizardEdit(WithTool(i, first, <<first>>))
       ELSE WizardEdit(WithTool(i, first, << >>))
    /\ UNCHANGED listed

\* updatePrimaryRequirement: the one requirement that the wizard shows takes
\* the place of all.
SetPrimary(i, audience, name) ==
    LET row == FixedRequirement([wizard.tools[i].rows[1] EXCEPT !.audience = audience,
                                                                !.name = name])
    IN wizard.tools[i].rows # << >> /\ WizardEdit(WithTool(i, row, <<row>>))
SetPrimaryAudience(i) ==
    /\ \E a \in Audiences : SetPrimary(i, a, "")
    /\ UNCHANGED listed
\* A role out of its menu, looked up now or before; or none, when the lookup
\* does not have the one it shows.
SetPrimaryRole(i) ==
    LET audience == wizard.tools[i].rows[1].audience IN
    /\ wizard.tools[i].rows # << >>
    /\ listed' = listed \cup {r \in roles : r.domain = audience}
    /\ \/ \E r \in listed' : r.domain = audience /\ SetPrimary(i, audience, r.name)
       \/ /\ wizard.tools[i].rows[1].name \notin SelectableNames(audience)
          /\ SetPrimary(i, audience, "")

----------------------------------------------------------------------------
(* Saving.                                                                 *)

Complete(rows) ==
    \A i \in DOMAIN rows :
       /\ rows[i].audience # "" /\ rows[i].name # ""
       /\ rows[i].type = "service" => rows[i].member # ""
HelpersComplete(rs) ==
    \A i \in DOMAIN rs : rs[i].helpers # None =>
       \A k \in DOMAIN rs[i].helpers :
          LET h == rs[i].helpers[k] IN
          /\ h.member # "" /\ h.role # NoRole
          /\ \A j \in DOMAIN h.policies : PolicyValid(h.policies[j])
Body == ConfiguredRows(dialog.rows, TRUE)
ForEdited(rs) == [t \in {Edited} |-> rs]

\* saveToolPermissions: an incomplete draft is refused in the browser.
SaveDialog ==
    /\ dialog.open /\ dialog.editing /\ ~dialog.saving
    /\ Complete(dialog.rows) /\ HelpersComplete(Body)
    /\ saves < MaxSaves /\ saves' = saves + 1
    /\ dialog' = [dialog EXCEPT !.saving = TRUE]
    /\ put' = [put EXCEPT !["dialog"] = [NoPut EXCEPT !.pc = "asked", !.tools = ForEdited(Body)]]
    /\ UNCHANGED <<preset, stored, roles, display, selects, wizard, began, listed, edits, lookups,
                   roleChanges>>

\* saveMcpServer: refused in the browser while the settings are not valid.
SaveWizard ==
    /\ wizard.open /\ ~wizard.saving
    /\ WizardValid(wizard.tools, TRUE, wizard.default)
    /\ saves < MaxSaves /\ saves' = saves + 1
    /\ wizard' = [wizard EXCEPT !.saving = TRUE]
    /\ LET settings == Parsed(WizardSettings(wizard.tools, TRUE, wizard.default)) IN
       put' = [put EXCEPT !["wizard"] = [NoPut EXCEPT !.pc = "asked", !.tools = settings.tools,
                                                      !.default = settings.default]]
    /\ UNCHANGED <<preset, stored, roles, display, dialog, selects, began, listed, edits, lookups,
                   roleChanges>>

\* PUT /api/mcp-servers/[mcpKeyName]/permissions, and /api/mcp-servers/
\* [mcpKeyName] of the wizard, validate what they are given and read the
\* Deployment.
PutBody(e) == [default |-> put[e].default,
               tools |-> [t \in DOMAIN put[e].tools |-> Tool(put[e].tools[t])]]
Settled(e, pc) == put' = [put EXCEPT ![e] = [NoPut EXCEPT !.pc = pc]]
PutReads(e) ==
    /\ put[e].pc = "asked"
    /\ IF SettingsValid(PutBody(e))
       THEN put' = [put EXCEPT ![e].pc = "write", ![e].seen = stored]
       ELSE Settled(e, "refused")
    /\ UNCHANGED <<preset, stored, roles, display, dialog, selects, wizard, began, listed, counters,
                   roleChanges>>

\* updateMcpToolPermissions puts its tool among those it has read before;
\* updateMcpResources replaces them all.
PutWrites(e) ==
    LET before == IF put[e].seen = None THEN [default |-> None, tools |-> << >>] ELSE put[e].seen
        mine == Parsed(PutBody(e)) IN
    /\ put[e].pc = "write"
    /\ stored' = IF e = "wizard" THEN mine
                 ELSE Merged(before, [default |-> None, tools |-> mine.tools])
    /\ Settled(e, "saved")
    /\ UNCHANGED <<preset, roles, display, dialog, selects, wizard, began, listed, counters, roleChanges>>

\* Athenz or Kubernetes refuse before the write.
PutFails(e) ==
    /\ put[e].pc \in {"asked", "write"}
    /\ Settled(e, "refused")
    /\ UNCHANGED <<preset, stored, roles, display, dialog, selects, wizard, began, listed, counters,
                   roleChanges>>

\* The answer ends whatever editing it finds.
DialogAnswered ==
    /\ put["dialog"].pc \in {"saved", "refused"}
    /\ Settled("dialog", "idle")
    /\ IF put["dialog"].pc = "saved"
       THEN NotEditing([dialog EXCEPT !.saving = FALSE]) /\ display' = [display EXCEPT !.loading = TRUE]
       ELSE /\ dialog' = [dialog EXCEPT !.saving = FALSE]
            /\ UNCHANGED <<selects, began, display>>
    /\ UNCHANGED <<preset, stored, roles, wizard, listed, counters, roleChanges>>
WizardAnswered ==
    /\ put["wizard"].pc \in {"saved", "refused"}
    /\ Settled("wizard", "idle")
    /\ wizard' = IF put["wizard"].pc = "saved" THEN NoWizard ELSE [wizard EXCEPT !.saving = FALSE]
    /\ UNCHANGED <<preset, stored, roles, display, dialog, selects, began, listed, counters, roleChanges>>

\* Administrators of Athenz make and remove roles.
RoleChanges ==
    /\ roleChanges < MaxRoleChanges /\ roleChanges' = roleChanges + 1
    /\ \E r \in Volatile : roles' = IF r \in roles THEN roles \ {r} ELSE roles \cup {r}
    /\ UNCHANGED <<preset, stored, put, display, dialog, selects, wizard, began, listed, counters>>

EditorNext ==
    \/ RefreshPage \/ Load
    \/ OpenDialog \/ CloseDialog \/ BeginEditing \/ CancelEditing \/ ChangeAccessMode \/ AddRow
    \/ \E i \in DOMAIN dialog.rows :
          \/ RemoveRow(i) \/ SetAudience(i) \/ PickRole(i) \/ SetMemberType(i) \/ SetMember(i)
          \/ EditHelper(i) \/ AddHelper(i) \/ ResetHelpers(i)
    \/ \E i \in DOMAIN selects :
          (\E force \in BOOLEAN : OpenMenu(i, force)) \/ RolesAnswered(i) \/ RolesFailed(i)
    \/ OpenWizard \/ LeaveWizard \/ AddTool \/ SetDefault
    \/ \E i \in DOMAIN wizard.tools :
          \/ NameTool(i) \/ RemoveTool(i) \/ ToggleRequired(i) \/ SetPrimaryAudience(i)
          \/ SetPrimaryRole(i)
    \/ SaveDialog \/ SaveWizard \/ DialogAnswered \/ WizardAnswered
    \/ \E e \in Editors : PutReads(e) \/ PutWrites(e) \/ PutFails(e)
    \/ RoleChanges

EditorSpec == EditorInit /\ [][EditorNext]_editorVars

----------------------------------------------------------------------------
(* Properties.                                                             *)

\* The memberships and the policies that a tool needs, as the page has them.
Needed(g) ==
    {<<g.requirements[i].configured, g.requirements[i].role>> :
        i \in {k \in DOMAIN g.requirements : g.requirements[k].source # "managed"}}
Policies(g) ==
    {PolicyKey(g.policies[i]) :
        i \in {k \in DOMAIN g.policies : g.policies[k].source = "helper"}}

\* The same as a draft displays them.
DisplayedMemberships(rows) ==
    {<<rows[i].member, ConfiguredRole(rows[i].audience, rows[i].name)>> : i \in DOMAIN rows}
    \cup UNION {{<<h.member, h.role>> : h \in ToSet(DisplayedHelpers(rows[i], EditorAudience))} :
                   i \in {k \in DOMAIN rows : rows[k].type = "signed-in-user"}}
DisplayedPolicies(rows) ==
    UNION {UNION {{PolicyKey(PolicyRow(p, h.role, "helper", i)) : p \in ToSet(h.policies)} :
                    h \in ToSet(DisplayedHelpers(rows[i], EditorAudience))} :
             i \in {k \in DOMAIN rows : rows[k].type = "signed-in-user"}}

\* What the page will require once a draft's requirements are stored.
Required(rs) == Definition([default |-> None, tools |-> ForEdited(ParsedRequirements(rs))],
                           EditorScope, EditorAudience)[Edited]
CanSave == Complete(dialog.rows) /\ HelpersComplete(Body) /\ RequirementsValid(Body)

\* Helpers whose policies cannot be told apart once stored: two of one role, or
\* one with a role that is made from another requirement's.
HelpersOf(rows) ==
    UNION {{i} \X DOMAIN DisplayedHelpers(rows[i], EditorAudience) :
             i \in {j \in DOMAIN rows : rows[j].type = "signed-in-user"}}
Entangled(rows) ==
    LET roleOf(x) == DisplayedHelpers(rows[x[1]], EditorAudience)[x[2]].role IN
    \E x \in HelpersOf(rows) :
       \/ \E y \in HelpersOf(rows) \ {x} : roleOf(x) = roleOf(y)
       \/ \E i \in (DOMAIN rows) \ {x[1]} :
             <<rows[i].audience, rows[i].name>> = <<roleOf(x).domain, roleOf(x).name>>

\* A row with helpers of its own requires one of the server's own access roles:
\* the rows for that access then stand for helpers that it does not have.
OwnRoleCustomized(rows) ==
    \E i \in DOMAIN rows :
       /\ rows[i].type = "signed-in-user" /\ rows[i].customized
       /\ ConfiguredRole(rows[i].audience, rows[i].name) \in ToSet(EditorScope)

\* A draft shows the memberships and policies that its tool will require: the
\* draft, the requirements made of it, what the server parses and the rows that
\* the page resolves of that agree, whatever was edited before.
ShownIsRequired ==
    dialog.editing /\ CanSave /\ EditorAudience # None
       /\ ~Entangled(dialog.rows) /\ ~OwnRoleCustomized(dialog.rows) =>
       /\ Needed(Required(Body)) = DisplayedMemberships(dialog.rows)
       /\ Policies(Required(Body)) = DisplayedPolicies(dialog.rows)

\* To save a draft that nobody has edited changes nothing of what the tool
\* requires, and is not refused (README.md of the Hub: an edit starts from the
\* current settings).  Of a signed-in user's row that says nothing of helpers
\* the dialog generates them.  A helper that names the template's own account
\* is to a draft the account of the server.
Legacy1(g) == \E i \in DOMAIN g.requirements :
    LET row == g.requirements[i] IN
    row.source = "tool" /\ row.configured = SignedIn /\ row.include = None
NamesTemplate(g) == \E i \in DOMAIN g.requirements :
    g.requirements[i].source = "helper" /\ g.requirements[i].configured = TemplateMember
UnchangedIsNeutral ==
    dialog.editing /\ began.clean /\ began.group # None
       /\ ~Legacy1(began.group) /\ ~NamesTemplate(began.group) /\ ~Entangled(dialog.rows) =>
       /\ CanSave
       /\ Needed(Required(Body)) = Needed(began.group)
       /\ Policies(Required(Body)) = Policies(began.group)

\* A draft names no role but those it began with and those that a lookup in
\* the same domain answered, with its menus' lookups late, refused or replaced.
Began ==
    IF began.group = None THEN {}
    ELSE {ConfiguredRole(row.role.domain, row.role.name) :
             row \in {r \in ToSet(began.group.requirements) : r.source = "tool"}}
RoleFromList ==
    \A i \in DOMAIN dialog.rows : dialog.rows[i].name # "" =>
       ConfiguredRole(dialog.rows[i].audience, dialog.rows[i].name) \in listed \cup Began

\* An answer takes a role from a draft only if Athenz does not have it.  A row
\* that moved up to the menu of a row of the same role does not look it up again:
\* the answer that the menu waits for may be for another domain.
RoleLostOnlyIfGone ==
    [][\A i \in DOMAIN dialog.rows \cap DOMAIN dialog'.rows :
         LET row == dialog.rows[i] IN
         edits' = edits /\ row.audience # "" /\ row.name # "" /\ dialog'.rows[i].name = ""
           => \/ ConfiguredRole(row.audience, row.name) \notin roles
              \/ selects[i].lookup = <<row.audience, row.name>>
                 /\ selects[i].asked # row.audience]_editorVars

=============================================================================
