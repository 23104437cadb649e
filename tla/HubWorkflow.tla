---------------------------- MODULE HubWorkflow ----------------------------
(***************************************************************************)
(* The Hub's Workflow Platform: form templates, applications that answer   *)
(* them, the decisions on the applications, requests for the permission of *)
(* a tool, and the demo tools.  Everything is kept in ConfigMaps, written  *)
(* by kubectl with no lock and no resource version.                        *)
(*                                                                         *)
(* A tab is a browser page with the request it has sent: what the page     *)
(* shows was read when it was opened, and a request is a series of calls   *)
(* to kubectl and to ZMS between which those of other tabs take place.     *)
(***************************************************************************)
EXTENDS FiniteSets, SequencesExt, Naturals

CONSTANTS
    Tabs,           \* open pages of the Hub
    Users,          \* signed-in users
    Learner,        \* the user whose roles the demo tools grant and reset
    Tools,          \* tools that need a role, the demo roles
    TemplateIds,    \* ids of form templates
    MaxApplications,\* model bound: applications submitted; their ids are times
    MaxRequests,    \* model bound: permission requests created
    Texts,          \* labels and options that a user types
    Seed,           \* forms that templates may have at the start
    MaxListed,      \* ConfigMaps in a listing that kubectl.ts still reads
    MaxFields,      \* fields in a form: 30
    MaxOptions,     \* options in a field: 20
    MaxVersion,     \* model bound: versions of a template
    MaxEdits,       \* model bound: edits of drafts
    MaxPages,       \* model bound: pages opened
    MaxFailures     \* model bound: calls that fail

ASSUME WorkflowAssumption ==
    /\ Learner \in Users /\ Tools # {} /\ "" \notin Texts
    /\ MaxListed \in Nat /\ MaxFields \in Nat /\ MaxOptions \in Nat
    /\ MaxVersion \in Nat /\ MaxApplications \in Nat /\ MaxRequests \in Nat
    /\ MaxEdits \in Nat /\ MaxPages \in Nat /\ MaxFailures \in Nat

VARIABLES
    templates,      \* the templates stored, by id
    applications,   \* the applications stored, by id
    requests,       \* the permission requests stored, by id
    members,        \* the role memberships in ZMS
    tab,            \* the pages and their requests
    edits,          \* how many edits were made
    pages,          \* how many pages were opened
    failures,       \* how many calls have failed
    shown,          \* history: the labels on the page of the applicant
    clashed,        \* history: templates deleted, or edited by two at a time
    crossed,        \* history: applications that two decided on at a time
    doubled         \* history: permissions that two asked for at a time

vars == <<templates, applications, requests, members, tab, edits, pages, failures,
          shown, clashed, crossed, doubled>>
stores == <<templates, applications, requests, members>>
bounds == <<edits, pages, failures>>
history == <<shown, clashed, crossed, doubled>>

None == "none"
Blank == ""

----------------------------------------------------------------------------
(* Documents.  A field with options is a bullet list, one without a text.  *)

ValidOptions(f) == Len(f.options) <= MaxOptions /\ Blank \notin Range(f.options)

ValidFields(form) ==
    /\ Len(form) <= MaxFields
    /\ \A i \in DOMAIN form : form[i].label # Blank /\ ValidOptions(form[i])

\* The forms at the start are ones that createWorkflowFormTemplate accepted.
ASSUME SeedAssumption ==
    /\ None \notin Users /\ IsFiniteSet(Tools)
    /\ \A f \in Seed : f \in Seq(Range(f)) /\ ValidFields(f)

NewTemplate(form) == [version |-> 1, form |-> form]
Updated(version, form) == [version |-> version + 1, form |-> form]

\* applicationAnswersFromPayload: the answers are by position.
AnswersFit(form, answers) ==
    /\ Len(answers) <= Len(form)
    /\ \A i \in DOMAIN form :
          LET answer == IF i \in DOMAIN answers THEN answers[i] ELSE Blank
          IN  /\ form[i].required => answer # Blank
              /\ form[i].options # << >> /\ answer # Blank =>
                    answer \in Range(form[i].options)

\* An answer is kept with the label that its field has by then.
Labels(form) == [i \in DOMAIN form |-> form[i].label]

NewApplication(id, t) ==
    [template |-> id, version |-> t.version, labels |-> Labels(t.form),
     status |-> "pending", by |-> None]

ApprovedUnsigned(application, user) == [application EXCEPT !.status = "approved"]
Approved(application, user) == [application EXCEPT !.status = "approved", !.by = user]

NewRequest(tool, user) == [tool |-> tool, user |-> user, status |-> "pending"]

EquivalentDecided(r, tool, user) ==
    r.status = "approved" /\ r.tool = tool /\ r.user = user
Equivalent(r, tool, user) ==
    r.status = "pending" /\ r.tool = tool /\ r.user = user

\* What parseWorkflowFormTemplate, parseWorkflowApplication and
\* parsePermissionWorkflowRequest accept of a stored document.
IsTemplate(t) == t.version \in Nat \ {0} /\ ValidFields(t.form)
IsApplication(a) ==
    /\ a.template \in TemplateIds /\ a.version \in Nat \ {0}
    /\ Len(a.labels) <= MaxFields /\ Blank \notin Range(a.labels)
    /\ a.status \in {"pending", "approved"}
    /\ a.status = "approved" <=> a.by \in Users
IsRequest(r) == r.tool \in Tools /\ r.user \in Users /\ r.status \in {"pending", "approved"}

\* The ConfigMaps of a kind, by id.
Put(store, i, document) ==
    [j \in DOMAIN store \cup {i} |-> IF j = i THEN document ELSE store[j]]
Without(store, ids) == [j \in DOMAIN store \ ids |-> store[j]]
WithStatus(status) == {a \in DOMAIN applications : applications[a].status = status}

\* Mutant of NewestFirst: the status is not looked at.
NewestFirstOfAll(status) ==
    {s \in SetToSeqs(DOMAIN applications) : \A i, j \in DOMAIN s : i < j => s[i] > s[j]}

\* The one list of those applications that is sorted by their times.
NewestFirst(status) ==
    {s \in SetToSeqs(WithStatus(status)) : \A i, j \in DOMAIN s : i < j => s[i] > s[j]}

\* A listing longer than MAX_COMMAND_OUTPUT_BYTES is an error.
Listed(store) == Cardinality(DOMAIN store) <= MaxListed

----------------------------------------------------------------------------
(* Pages.                                                                  *)

Pages == {"create", "edit", "delete", "register", "review", "cleanup", "approveall",
          "reset", "tool"}
Closed == [pc |-> "closed", page |-> None, user |-> None, id |-> None, item |-> 0,
           version |-> 0, rows |-> << >>, nextKey |-> 1, answers |-> << >>, todo |-> << >>]

At(c, page, pc) == tab[c].page = page /\ tab[c].pc = pc
Busy(c) == tab[c].pc \notin {"closed", "open"}

\* A tab moves on; a request that fails leaves the page open, its error shown
\* and its buttons enabled again; one that succeeds refreshes the page.
Goto(c, pc) == tab' = [tab EXCEPT ![c].pc = pc]
Fails(c) == Goto(c, "open")
Succeeds(c) == tab' = [tab EXCEPT ![c] = Closed]

Init ==
    /\ \E ids \in SUBSET TemplateIds :
          templates \in [ids -> {NewTemplate(f) : f \in Seed}]
    /\ applications = << >> /\ requests = << >>
    /\ members = {}
    /\ tab = [c \in Tabs |-> Closed]
    /\ edits = 0 /\ pages = 0 /\ failures = 0
    /\ shown = << >>
    /\ clashed = {} /\ crossed = {} /\ doubled = {}

Opens(c, page) ==
    /\ tab[c].pc = "closed" /\ pages < MaxPages
    /\ tab' = [tab EXCEPT ![c] = page]
    /\ pages' = pages + 1
    /\ UNCHANGED <<stores, edits, failures, history>>

\* The page is left; what it has not submitted is lost.
CloseTab(c) ==
    /\ tab[c].pc = "open"
    /\ Succeeds(c)
    /\ UNCHANGED <<stores, bounds, history>>

\* kubectl or ZMS answers with an error, or not in time.
CallFails(c) ==
    /\ Busy(c) /\ failures < MaxFailures
    /\ failures' = failures + 1
    /\ Fails(c)
    /\ UNCHANGED <<stores, edits, pages, history>>

----------------------------------------------------------------------------
(* The dialog that creates or edits a template.  Its rows have keys.       *)

Keyed(form) ==
    [i \in DOMAIN form |-> [key |-> i, label |-> form[i].label,
                            required |-> form[i].required, options |-> form[i].options]]
Fields(rows) ==
    [i \in DOMAIN rows |-> [label |-> rows[i].label, required |-> rows[i].required,
                            options |-> rows[i].options]]

OpenCreate(c) ==
    \E t \in TemplateIds :
       Opens(c, [Closed EXCEPT !.pc = "open", !.page = "create", !.id = t])

\* The dialog of a row of the templates page, which shows what was listed.
OpenEdit(c) ==
    /\ Listed(templates)
    /\ \E t \in DOMAIN templates :
          Opens(c, [Closed EXCEPT !.pc = "open", !.page = "edit", !.id = t,
                                  !.version = templates[t].version,
                                  !.rows = Keyed(templates[t].form),
                                  !.nextKey = Len(templates[t].form) + 1])

Editing(c) == tab[c].page \in {"create", "edit"} /\ tab[c].pc = "open"

Edits(c, rows) ==
    /\ Editing(c) /\ edits < MaxEdits
    /\ tab' = [tab EXCEPT ![c].rows = rows]
    /\ edits' = edits + 1
    /\ UNCHANGED <<stores, pages, failures, history>>

AddField(c) ==
    LET row == [key |-> tab[c].nextKey, label |-> Blank, required |-> TRUE, options |-> << >>] IN
    /\ Editing(c) /\ edits < MaxEdits
    /\ Len(tab[c].rows) < MaxFields
    /\ tab' = [tab EXCEPT ![c].rows = Append(@, row), ![c].nextKey = @ + 1]
    /\ edits' = edits + 1
    /\ UNCHANGED <<stores, pages, failures, history>>

\* A dragged row is taken out first, then put where the other one was before.
MoveField(c) ==
    LET rows == tab[c].rows IN
    \E source, target \in DOMAIN rows :
       /\ source # target
       /\ Edits(c, InsertAt(RemoveAt(rows, source), target, rows[source]))

RemoveField(c) ==
    \E i \in DOMAIN tab[c].rows : Edits(c, RemoveAt(tab[c].rows, i))

\* The handlers of a row change the rows that have its key.
EditsRow(c, i, field) ==
    LET rows == tab[c].rows IN
    Edits(c, [j \in DOMAIN rows |-> IF rows[j].key = rows[i].key THEN field ELSE rows[j]])

SetLabel(c) ==
    \E i \in DOMAIN tab[c].rows, x \in Texts :
       EditsRow(c, i, [tab[c].rows[i] EXCEPT !.label = x])

ToggleRequired(c) ==
    \E i \in DOMAIN tab[c].rows :
       EditsRow(c, i, [tab[c].rows[i] EXCEPT !.required = ~@])

\* A text becomes a bullet list with one empty option; back, it loses them all.
SetType(c) ==
    \E i \in DOMAIN tab[c].rows :
       EditsRow(c, i, [tab[c].rows[i] EXCEPT !.options = IF @ = << >> THEN <<Blank>> ELSE << >>])

AddOption(c) ==
    \E i \in DOMAIN tab[c].rows :
       LET row == tab[c].rows[i] IN
       /\ row.options # << >> /\ Len(row.options) < MaxOptions
       /\ EditsRow(c, i, [row EXCEPT !.options = Append(@, Blank)])

SetOption(c) ==
    \E i \in DOMAIN tab[c].rows, x \in Texts :
       LET row == tab[c].rows[i] IN
       \E k \in DOMAIN row.options : EditsRow(c, i, [row EXCEPT !.options[k] = x])

\* The first option has no button that removes it.
RemoveOption(c) ==
    \E i \in DOMAIN tab[c].rows :
       LET row == tab[c].rows[i] IN
       \E k \in DOMAIN row.options \ {1} :
          EditsRow(c, i, [row EXCEPT !.options = RemoveAt(@, k)])

\* The browser submits a form only with every required input filled in.
SubmitTemplate(c) ==
    /\ Editing(c)
    /\ ValidFields(Fields(tab[c].rows))
    /\ Goto(c, IF tab[c].page = "create" THEN "dryrun" ELSE "get")
    /\ UNCHANGED <<stores, bounds, history>>

----------------------------------------------------------------------------
(* POST /api/workflow-templates: createWorkflowFormTemplate                *)

DryRunTemplate(c) ==
    /\ At(c, "create", "dryrun")
    /\ IF tab[c].id \in DOMAIN templates THEN Fails(c) ELSE Goto(c, "create")
    /\ UNCHANGED <<stores, bounds, history>>

CreateTemplate(c) ==
    LET id == tab[c].id IN
    /\ At(c, "create", "create")
    /\ IF id \in DOMAIN templates
       THEN Fails(c) /\ UNCHANGED templates
       ELSE /\ templates' = Put(templates, id, NewTemplate(Fields(tab[c].rows)))
            /\ Succeeds(c)
    /\ UNCHANGED <<applications, requests, members, bounds, history>>

(* PUT /api/workflow-templates/[templateId]: updateWorkflowFormTemplate    *)

GetForUpdateUnchecked(c) ==
    /\ At(c, "edit", "get")
    /\ IF tab[c].id \notin DOMAIN templates THEN Fails(c) ELSE Goto(c, "trypatch")
    /\ UNCHANGED <<stores, bounds, history>>

GetForUpdate(c) ==
    LET id == tab[c].id
        others == {d \in Tabs \ {c} : tab[d].page = "edit" /\ tab[d].id = id
                                      /\ tab[d].pc \in {"trypatch", "patch"}} IN
    /\ At(c, "edit", "get")
    /\ IF id \notin DOMAIN templates THEN Fails(c)
       ELSE IF templates[id].version # tab[c].version THEN Fails(c)
       ELSE Goto(c, "trypatch")
    /\ clashed' = IF others # {} THEN clashed \cup {id} ELSE clashed
    /\ UNCHANGED <<stores, bounds, shown, crossed, doubled>>

DryRunPatch(c) ==
    /\ At(c, "edit", "trypatch")
    /\ IF tab[c].id \notin DOMAIN templates THEN Fails(c) ELSE Goto(c, "patch")
    /\ UNCHANGED <<stores, bounds, history>>

\* The patch carries the whole document, and no resource version.
PatchTemplate(c) ==
    LET id == tab[c].id IN
    /\ At(c, "edit", "patch")
    /\ IF id \notin DOMAIN templates
       THEN Fails(c) /\ UNCHANGED templates
       ELSE /\ tab[c].version < MaxVersion
            /\ templates' = Put(templates, id, Updated(tab[c].version, Fields(tab[c].rows)))
            /\ Succeeds(c)
    /\ UNCHANGED <<applications, requests, members, bounds, history>>

(* DELETE /api/workflow-templates/[templateId]: deleteWorkflowFormTemplate *)

\* The dialog lets go of the request once the id has been typed.
ConfirmDelete(c) ==
    /\ Listed(templates)
    /\ \E t \in DOMAIN templates :
          Opens(c, [Closed EXCEPT !.pc = "get", !.page = "delete", !.id = t])

GetForDelete(c) ==
    /\ At(c, "delete", "get") \/ At(c, "delete", "dryrun")
    /\ IF tab[c].id \notin DOMAIN templates THEN Fails(c)
       ELSE Goto(c, IF tab[c].pc = "get" THEN "dryrun" ELSE "delete")
    /\ UNCHANGED <<stores, bounds, history>>

DeleteTemplate(c) ==
    LET id == tab[c].id IN
    /\ At(c, "delete", "delete")
    /\ IF id \notin DOMAIN templates
       THEN Fails(c) /\ UNCHANGED <<templates, clashed>>
       ELSE /\ templates' = Without(templates, {id})
            /\ clashed' = clashed \cup {id}
            /\ Succeeds(c)
    /\ UNCHANGED <<applications, requests, members, bounds, shown, crossed, doubled>>

----------------------------------------------------------------------------
(* Applications.                                                           *)

\* The registration page shows the form of the template as it is now.
OpenRegister(c) ==
    \E t \in DOMAIN templates :
       Opens(c, [Closed EXCEPT !.pc = "open", !.page = "register", !.id = t,
                               !.version = templates[t].version,
                               !.rows = templates[t].form])

\* What can be entered for a field: the browser insists on the required ones.
Typed == "typed"
Entries(f) ==
    (IF f.options = << >> THEN {Typed} ELSE Range(f.options))
    \cup (IF f.required THEN {} ELSE {Blank})

SubmitApplication(c) ==
    LET rows == tab[c].rows IN
    /\ At(c, "register", "open")
    /\ \E answers \in [DOMAIN rows -> UNION {Entries(rows[i]) : i \in DOMAIN rows}] :
          /\ \A i \in DOMAIN rows : answers[i] \in Entries(rows[i])
          /\ tab' = [tab EXCEPT ![c].pc = "get", ![c].answers = answers]
    /\ UNCHANGED <<stores, bounds, history>>

\* POST .../[templateId]/applications: what is read here is what will be kept.
CheckAnswersUnversioned(c) ==
    LET t == templates[tab[c].id] IN
    /\ At(c, "register", "get")
    /\ IF tab[c].id \notin DOMAIN templates THEN Fails(c)
       ELSE IF ~AnswersFit(t.form, tab[c].answers) THEN Fails(c)
       ELSE tab' = [tab EXCEPT ![c].pc = "dryrun",
                               ![c].todo = <<NewApplication(tab[c].id, t)>>]
    /\ UNCHANGED <<stores, bounds, history>>

CheckAnswers(c) ==
    LET t == templates[tab[c].id] IN
    /\ At(c, "register", "get")
    /\ IF tab[c].id \notin DOMAIN templates THEN Fails(c)
       ELSE IF t.version # tab[c].version THEN Fails(c)
       ELSE IF ~AnswersFit(t.form, tab[c].answers) THEN Fails(c)
       ELSE tab' = [tab EXCEPT ![c].pc = "dryrun",
                               ![c].todo = <<NewApplication(tab[c].id, t)>>]
    /\ UNCHANGED <<stores, bounds, history>>

\* The id has a random part: nobody else has it.
DryRunApplication(c) ==
    /\ At(c, "register", "dryrun")
    /\ Goto(c, "create")
    /\ UNCHANGED <<stores, bounds, history>>

CreateApplication(c) ==
    LET id == 1 + Cardinality(DOMAIN shown) IN
    /\ At(c, "register", "create")
    /\ Cardinality(DOMAIN shown) < MaxApplications
    /\ applications' = Put(applications, id, Head(tab[c].todo))
    /\ shown' = Put(shown, id, Labels(tab[c].rows))
    /\ Succeeds(c)
    /\ UNCHANGED <<templates, requests, members, bounds, clashed, crossed, doubled>>

\* The page of one application has a button to approve it while it is pending.
OpenReview(c) ==
    \E a \in WithStatus("pending"), u \in Users :
       Opens(c, [Closed EXCEPT !.pc = "open", !.page = "review", !.user = u, !.item = a])

PressApprove(c) ==
    /\ At(c, "review", "open")
    /\ Goto(c, "get")
    /\ UNCHANGED <<stores, bounds, history>>

Deciding(c, a) ==
    \E d \in Tabs \ {c} : tab[d].pc \in {"trymark", "mark"} /\ a \in Range(tab[d].todo)

\* POST /api/permission-requests/[requestId]/accept
GetApplication(c) ==
    LET a == tab[c].item IN
    /\ At(c, "review", "get")
    /\ CASE a \notin DOMAIN applications -> Fails(c)
         [] a \in WithStatus("approved") -> Succeeds(c)
         [] a \in WithStatus("pending") ->
              tab' = [tab EXCEPT ![c].pc = "trymark", ![c].todo = <<a>>]
    /\ crossed' = IF Deciding(c, a) THEN crossed \cup {a} ELSE crossed
    /\ UNCHANGED <<stores, bounds, shown, clashed, doubled>>

\* markWorkflowApplicationApproved, of the first application to do
DryRunMark(c) ==
    /\ tab[c].pc = "trymark"
    /\ IF Head(tab[c].todo) \notin DOMAIN applications THEN Fails(c) ELSE Goto(c, "mark")
    /\ UNCHANGED <<stores, bounds, history>>

NextMark(c) ==
    IF Len(tab[c].todo) = 1 THEN Succeeds(c)
    ELSE tab' = [tab EXCEPT ![c].pc = "trymark", ![c].todo = Tail(@)]

MarkApproved(c) ==
    LET a == Head(tab[c].todo) IN
    /\ tab[c].pc = "mark"
    /\ IF a \notin DOMAIN applications
       THEN Fails(c) /\ UNCHANGED applications
       ELSE /\ applications' = [applications EXCEPT ![a] = Approved(@, tab[c].user)]
            /\ NextMark(c)
    /\ UNCHANGED <<templates, requests, members, bounds, history>>

\* DELETE /api/permission-requests/approved, from the list of approved ones
ConfirmCleanup(c) ==
    /\ Listed(applications) /\ WithStatus("approved") # {}
    /\ Opens(c, [Closed EXCEPT !.pc = "list", !.page = "cleanup"])

ListApproved(c) ==
    /\ At(c, "cleanup", "list")
    /\ IF ~Listed(applications) THEN Fails(c)
       ELSE IF WithStatus("approved") = {} THEN Succeeds(c)
       ELSE \E listed \in NewestFirst("approved") :
               tab' = [tab EXCEPT ![c].pc = "dryrun", ![c].todo = listed]
    /\ UNCHANGED <<stores, bounds, history>>

DryRunCleanup(c) ==
    /\ At(c, "cleanup", "dryrun")
    /\ IF Range(tab[c].todo) \subseteq DOMAIN applications THEN Goto(c, "delete") ELSE Fails(c)
    /\ UNCHANGED <<stores, bounds, history>>

\* kubectl deletes what is there, and reports what is not.
DeleteApproved(c) ==
    LET listed == Range(tab[c].todo) IN
    /\ At(c, "cleanup", "delete")
    /\ applications' = Without(applications, listed)
    /\ IF listed \subseteq DOMAIN applications THEN Succeeds(c) ELSE Fails(c)
    /\ UNCHANGED <<templates, requests, members, bounds, history>>

----------------------------------------------------------------------------
(* The demo tools: POST and DELETE /api/workflow-demo                      *)

PressApproveAll(c) ==
    /\ Listed(applications)
    /\ \E u \in Users :
          Opens(c, [Closed EXCEPT !.pc = "grant", !.page = "approveall", !.user = u,
                                  !.todo = SetToSeq(Tools)])

PressReset(c) ==
    /\ Listed(applications)
    /\ Opens(c, [Closed EXCEPT !.pc = "revoke", !.page = "reset", !.todo = SetToSeq(Tools)])

\* ensureRoleMember: look, put, and look again
NextGrant(c) ==
    IF Len(tab[c].todo) = 1 THEN Goto(c, "listpending")
    ELSE tab' = [tab EXCEPT ![c].pc = "grant", ![c].todo = Tail(@)]

Membership(c) == <<Head(tab[c].todo), Learner>>

CheckMember(c) ==
    /\ At(c, "approveall", "grant")
    /\ IF Membership(c) \in members THEN NextGrant(c) ELSE Goto(c, "put")
    /\ UNCHANGED <<stores, bounds, history>>

PutMember(c) ==
    /\ At(c, "approveall", "put")
    /\ members' = members \cup {Membership(c)}
    /\ Goto(c, "verify")
    /\ UNCHANGED <<templates, applications, requests, bounds, history>>

VerifyMember(c) ==
    /\ At(c, "approveall", "verify")
    /\ IF Membership(c) \in members THEN NextGrant(c) ELSE Fails(c)
    /\ UNCHANGED <<stores, bounds, history>>

\* approveAllPendingWorkflowApplications
ListPending(c) ==
    /\ At(c, "approveall", "listpending")
    /\ IF ~Listed(applications) THEN Fails(c)
       ELSE IF WithStatus("pending") = {} THEN Succeeds(c)
       ELSE \E listed \in NewestFirst("pending") :
               tab' = [tab EXCEPT ![c].pc = "trymark", ![c].todo = listed]
    /\ crossed' = crossed \cup {a \in WithStatus("pending") : Deciding(c, a)}
    /\ UNCHANGED <<stores, bounds, shown, clashed, doubled>>

\* resetWorkflowDemoRoles: look, delete, and look again
NextRevoke(c) ==
    IF Len(tab[c].todo) = 1 THEN Succeeds(c)
    ELSE tab' = [tab EXCEPT ![c].pc = "revoke", ![c].todo = Tail(@)]

CheckRevoked(c) ==
    /\ At(c, "reset", "revoke")
    /\ IF Membership(c) \in members THEN Goto(c, "remove") ELSE NextRevoke(c)
    /\ UNCHANGED <<stores, bounds, history>>

RemoveMember(c) ==
    /\ At(c, "reset", "remove")
    /\ members' = members \ {Membership(c)}
    /\ Goto(c, "verify")
    /\ UNCHANGED <<templates, applications, requests, bounds, history>>

VerifyRevoked(c) ==
    /\ At(c, "reset", "verify")
    /\ IF Membership(c) \in members THEN Fails(c) ELSE NextRevoke(c)
    /\ UNCHANGED <<stores, bounds, history>>

----------------------------------------------------------------------------
(* POST .../permission-requests: a user asks for the permission of a tool. *)

PressRequest(c) ==
    \E t \in Tools, u \in Users :
       Opens(c, [Closed EXCEPT !.pc = "readiness", !.page = "tool", !.user = u, !.id = t])

\* Nothing is requested where nothing is missing.
CheckReadiness(c) ==
    /\ At(c, "tool", "readiness")
    /\ IF <<tab[c].id, tab[c].user>> \in members THEN Succeeds(c) ELSE Goto(c, "list")
    /\ UNCHANGED <<stores, bounds, history>>

\* createPermissionWorkflowRequest: an equivalent pending request is enough.
FindEquivalent(c) ==
    LET others == {d \in Tabs \ {c} : tab[d].page = "tool" /\ tab[d].pc \in {"dryrun", "create"}
                                      /\ tab[d].id = tab[c].id /\ tab[d].user = tab[c].user} IN
    /\ At(c, "tool", "list")
    /\ IF ~Listed(requests) THEN Fails(c)
       ELSE IF \E r \in DOMAIN requests : Equivalent(requests[r], tab[c].id, tab[c].user)
            THEN Succeeds(c) ELSE Goto(c, "dryrun")
    /\ doubled' = IF others # {} THEN doubled \cup {<<tab[c].id, tab[c].user>>} ELSE doubled
    /\ UNCHANGED <<stores, bounds, shown, clashed, crossed>>

DryRunRequest(c) ==
    /\ At(c, "tool", "dryrun")
    /\ Goto(c, "create")
    /\ UNCHANGED <<stores, bounds, history>>

CreateRequest(c) ==
    /\ At(c, "tool", "create")
    /\ Cardinality(DOMAIN requests) < MaxRequests
    /\ requests' = Put(requests, 1 + Cardinality(DOMAIN requests),
                       NewRequest(tab[c].id, tab[c].user))
    /\ Succeeds(c)
    /\ UNCHANGED <<templates, applications, members, bounds, history>>

----------------------------------------------------------------------------
Drafts(c) ==
    \/ OpenCreate(c) \/ OpenEdit(c)
    \/ AddField(c) \/ MoveField(c) \/ RemoveField(c) \/ SetLabel(c)
    \/ ToggleRequired(c) \/ SetType(c) \/ AddOption(c) \/ SetOption(c) \/ RemoveOption(c)
    \/ SubmitTemplate(c)

TemplateSteps(c) ==
    \/ DryRunTemplate(c) \/ CreateTemplate(c)
    \/ GetForUpdate(c) \/ DryRunPatch(c) \/ PatchTemplate(c)
    \/ ConfirmDelete(c) \/ GetForDelete(c) \/ DeleteTemplate(c)

ApplicationSteps(c) ==
    \/ OpenRegister(c) \/ SubmitApplication(c)
    \/ CheckAnswers(c) \/ DryRunApplication(c) \/ CreateApplication(c)
    \/ OpenReview(c) \/ PressApprove(c) \/ GetApplication(c)
    \/ DryRunMark(c) \/ MarkApproved(c)
    \/ ConfirmCleanup(c) \/ ListApproved(c) \/ DryRunCleanup(c) \/ DeleteApproved(c)

DemoSteps(c) ==
    \/ PressApproveAll(c) \/ CheckMember(c) \/ PutMember(c) \/ VerifyMember(c)
    \/ ListPending(c)
    \/ PressReset(c) \/ CheckRevoked(c) \/ RemoveMember(c) \/ VerifyRevoked(c)

RequestSteps(c) ==
    \/ PressRequest(c) \/ CheckReadiness(c) \/ FindEquivalent(c)
    \/ DryRunRequest(c) \/ CreateRequest(c)

Next ==
    \E c \in Tabs :
       \/ Drafts(c) \/ TemplateSteps(c) \/ ApplicationSteps(c) \/ DemoSteps(c)
       \/ RequestSteps(c) \/ CloseTab(c) \/ CallFails(c)

Spec == Init /\ [][Next]_vars

----------------------------------------------------------------------------
(* Properties.                                                             *)

Store(ids, IsDocument(_), store) ==
    /\ DOMAIN store \subseteq ids
    /\ \A i \in DOMAIN store : IsDocument(store[i])

\* Every stored document is one that the next reader accepts: a single one
\* that is not would break every page that lists its kind.
TypeOK ==
    /\ Store(TemplateIds, IsTemplate, templates)
    /\ Store(1 .. MaxApplications, IsApplication, applications)
    /\ Store(1 .. MaxRequests, IsRequest, requests)
    /\ members \subseteq Tools \X Users
    /\ \A c \in Tabs : tab[c].pc = "closed" \/ tab[c].page \in Pages

\* The answers of an application are kept with the labels that the applicant
\* had on the page, unless the template was deleted or two edits of it
\* overlapped: its version number then says too little.
AnswersToWhatWasShown ==
    \A a \in DOMAIN applications :
       applications[a].template \notin clashed => applications[a].labels = shown[a]

\* The form of a template changes only to that of a next version, so no edit is
\* lost, unless two edits overlapped or the template was deleted meanwhile.
EditsAreKept ==
    [][\A t \in DOMAIN templates \ clashed' :
          templates'[t] # templates[t] => templates'[t].version = templates[t].version + 1]_vars

\* A decision stands: an approved application never is pending again, who
\* approved it changes only where two decisions overlapped, and a pending one
\* is never removed.
DecisionsStand ==
    [][\A a \in DOMAIN applications :
          LET before == applications[a]  after == applications'[a] IN
          IF a \in DOMAIN applications'
          THEN before.status = "approved" =>
                  after.status = "approved" /\ (after.by = before.by \/ a \in crossed)
          ELSE before.status = "approved"]_vars

\* At most one request is pending for a tool and a user, unless two were
\* submitted at the same time.
PendingOnce ==
    \A r, q \in DOMAIN requests :
       /\ r # q
       /\ requests[r].tool = requests[q].tool /\ requests[r].user = requests[q].user
       /\ requests[r].status = "pending" /\ requests[q].status = "pending"
       => <<requests[r].tool, requests[r].user>> \in doubled

=============================================================================
