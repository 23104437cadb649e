------------------------- MODULE HubWorkflow_proofs -------------------------
(***************************************************************************)
(* Proofs about HubWorkflow, for any number of pages, templates,           *)
(* applications and requests: what an application keeps is what its form   *)
(* said, edits of a template are not lost, a permission is pending once,   *)
(* and a decision stands, except where two pages overlapped as the model   *)
(* records; and every document stored is one that its readers accept.      *)
(***************************************************************************)
EXTENDS HubWorkflow, SequenceTheorems, FiniteSetTheorems, TLAPS

\* A tab that asks for a permission, edits a template, has a registration page
\* open, or holds the application that it is about to store.
Requesting(t) == t.page = "tool" /\ t.pc \in {"dryrun", "create"}
Patching(t) == t.page = "edit" /\ t.pc \in {"trypatch", "patch"}
Applying(t) == t.page = "register" /\ t.pc # "closed"
Holding(t) == t.page = "register" /\ t.pc \in {"dryrun", "create"}

ApplicationFields == {"template", "version", "labels", "status", "by"}

Shape ==
  /\ DOMAIN tab = Tabs
  /\ \A c \in Tabs : DOMAIN tab[c] = DOMAIN Closed /\ tab[c].version \in Nat
  /\ \A t \in DOMAIN templates : templates[t].version \in Nat
  /\ \A a \in DOMAIN applications :
       /\ DOMAIN applications[a] = ApplicationFields
       /\ applications[a].status \in {"pending", "approved"}
       /\ a \in DOMAIN shown

\* Two who ask for the same, or one who asks for what is pending, overlapped.
RequestsFit ==
  /\ \A c, d \in Tabs :
       /\ c # d /\ Requesting(tab[c]) /\ Requesting(tab[d])
       /\ tab[c].id = tab[d].id /\ tab[c].user = tab[d].user
       => <<tab[c].id, tab[c].user>> \in doubled
  /\ \A c \in Tabs, r \in DOMAIN requests :
       Requesting(tab[c]) /\ Equivalent(requests[r], tab[c].id, tab[c].user) =>
         <<tab[c].id, tab[c].user>> \in doubled

\* Of a template that did not clash: one tab at most edits it, from its version.
EditorsFit ==
  /\ \A c, d \in Tabs :
       c # d /\ Patching(tab[c]) /\ Patching(tab[d]) /\ tab[c].id = tab[d].id =>
         tab[c].id \in clashed
  /\ \A c \in Tabs : Patching(tab[c]) /\ tab[c].id \notin clashed =>
       tab[c].id \in DOMAIN templates /\ templates[tab[c].id].version = tab[c].version

\* Of a template that did not clash: a page shows it as it is or was in an
\* earlier version, and an application about to be stored has the page's labels.
ApplicantsFit ==
  \A c \in Tabs :
    /\ Applying(tab[c]) /\ tab[c].id \notin clashed =>
         /\ tab[c].id \in DOMAIN templates
         /\ tab[c].version <= templates[tab[c].id].version
         /\ tab[c].version = templates[tab[c].id].version =>
              templates[tab[c].id].form = tab[c].rows
    /\ Holding(tab[c]) =>
         /\ DOMAIN Head(tab[c].todo) = ApplicationFields
         /\ Head(tab[c].todo).status = "pending"
         /\ Head(tab[c].todo).template = tab[c].id
         /\ tab[c].id \notin clashed => Head(tab[c].todo).labels = Labels(tab[c].rows)

IInv ==
  /\ Shape /\ RequestsFit /\ PendingOnce
  /\ EditorsFit /\ ApplicantsFit /\ AnswersToWhatWasShown

TabFields == {"pc", "page", "user", "id", "item", "version", "rows", "nextKey", "answers",
              "todo"}

LEMMA ClosedFields == DOMAIN Closed = TabFields
BY DEF Closed, TabFields

LEMMA HasFields ==
  /\ "pc" \in TabFields /\ "page" \in TabFields /\ "id" \in TabFields
  /\ "user" \in TabFields /\ "version" \in TabFields /\ "rows" \in TabFields
  /\ "todo" \in TabFields /\ "nextKey" \in TabFields
BY DEF TabFields

LEMMA HasOtherFields == "answers" \in TabFields /\ "item" \in TabFields
BY DEF TabFields

LEMMA ClosedIs == Closed.pc = "closed" /\ Closed.version = 0
<1>1. Closed.pc = "closed"
  BY DEF Closed
<1>2. Closed.version = 0
  BY DEF Closed
<1>3. QED
  BY <1>1, <1>2

LEMMA InitIInv == Init => IInv
<1> SUFFICES ASSUME Init PROVE IInv
  OBVIOUS
<1>1. \A c \in Tabs : tab[c] = Closed
  BY DEF Init
<1>2. applications = << >> /\ requests = << >> /\ DOMAIN << >> = {}
  BY DEF Init
<1>3. \A t \in DOMAIN templates : templates[t].version = 1
  BY DEF Init, NewTemplate
<1>4. Shape
  BY <1>1, <1>2, <1>3, ClosedIs DEF Init, Shape
<1>5. \A c \in Tabs : /\ ~Requesting(tab[c]) /\ ~Patching(tab[c])
                      /\ ~Applying(tab[c]) /\ ~Holding(tab[c])
  BY <1>1, ClosedIs DEF Requesting, Patching, Applying, Holding
<1>6. RequestsFit /\ PendingOnce /\ AnswersToWhatWasShown
  BY <1>2, <1>5 DEF RequestsFit, PendingOnce, AnswersToWhatWasShown
<1>7. EditorsFit /\ ApplicantsFit
  BY <1>5 DEF EditorsFit, ApplicantsFit
<1>8. QED
  BY <1>4, <1>6, <1>7 DEF IInv

-----------------------------------------------------------------------------
(* Steps that concern neither templates nor requests *)

\* Only the tab c moves.
Alone(c) == DOMAIN tab' = Tabs /\ \A d \in Tabs \ {c} : tab'[d] = tab[d]

\* The tab is none of those that a claim is about; if it is a registration page,
\* it was and shows the same.
Harmless(c) ==
  /\ DOMAIN tab'[c] = DOMAIN Closed /\ tab'[c].version \in Nat
  /\ ~Requesting(tab'[c]) /\ ~Patching(tab'[c]) /\ ~Holding(tab'[c])
  /\ Applying(tab'[c]) =>
       /\ Applying(tab[c]) /\ tab'[c].id = tab[c].id
       /\ tab'[c].version = tab[c].version /\ tab'[c].rows = tab[c].rows

\* Applications go, or keep what they say.
ApplicationsKept ==
  \A a \in DOMAIN applications' :
    /\ a \in DOMAIN applications /\ DOMAIN applications'[a] = ApplicationFields
    /\ applications'[a].status \in {"pending", "approved"}
    /\ applications'[a].template = applications[a].template
    /\ applications'[a].labels = applications[a].labels

LEMMA SameApplications == Shape /\ UNCHANGED applications => ApplicationsKept
BY DEF Shape, ApplicationsKept

LEMMA HarmlessKeeps ==
  ASSUME IInv, NEW c \in Tabs, Alone(c), Harmless(c), ApplicationsKept,
         UNCHANGED <<templates, requests, shown, clashed, doubled>>
  PROVE  IInv'
<1>1. Shape'
  BY DEF IInv, Shape, Alone, Harmless, ApplicationsKept
<1>2. RequestsFit' /\ PendingOnce'
  BY DEF IInv, RequestsFit, PendingOnce, Alone, Harmless
<1>3. EditorsFit'
  BY DEF IInv, EditorsFit, Alone, Harmless
<1>4. ApplicantsFit'
  BY DEF IInv, ApplicantsFit, Alone, Harmless
<1>5. AnswersToWhatWasShown'
  BY DEF IInv, AnswersToWhatWasShown, ApplicationsKept
<1>6. QED
  BY <1>1, <1>2, <1>3, <1>4, <1>5 DEF IInv

\* What the operators that move a tab do to it.
LEMMA GotoEffect ==
  ASSUME Shape, NEW c \in Tabs, NEW pc, Goto(c, pc)
  PROVE  /\ Alone(c) /\ DOMAIN tab'[c] = DOMAIN Closed
         /\ tab'[c].pc = pc /\ tab'[c].page = tab[c].page /\ tab'[c].id = tab[c].id
         /\ tab'[c].user = tab[c].user /\ tab'[c].version = tab[c].version
         /\ tab'[c].version \in Nat
         /\ tab'[c].rows = tab[c].rows /\ tab'[c].todo = tab[c].todo
<1>1. Alone(c) /\ tab'[c] = [tab[c] EXCEPT !.pc = pc]
  BY DEF Goto, Shape, Alone
<1>2. DOMAIN tab[c] = TabFields /\ tab[c].version \in Nat
  BY ClosedFields DEF Shape
<1>3. DOMAIN tab'[c] = TabFields
  BY <1>1, <1>2
<1>4. /\ tab'[c].pc = pc /\ tab'[c].page = tab[c].page /\ tab'[c].id = tab[c].id
      /\ tab'[c].user = tab[c].user /\ tab'[c].version = tab[c].version
  BY <1>1, <1>2, HasFields
<1>5. tab'[c].rows = tab[c].rows /\ tab'[c].todo = tab[c].todo
  BY <1>1, <1>2, HasFields
<1>6. QED
  BY <1>1, <1>2, <1>3, <1>4, <1>5, ClosedFields

LEMMA TodoEffect ==
  ASSUME Shape, NEW c \in Tabs, NEW pc, NEW todo,
         tab' = [tab EXCEPT ![c].pc = pc, ![c].todo = todo]
  PROVE  /\ Alone(c) /\ DOMAIN tab'[c] = DOMAIN Closed
         /\ tab'[c].pc = pc /\ tab'[c].page = tab[c].page /\ tab'[c].id = tab[c].id
         /\ tab'[c].user = tab[c].user /\ tab'[c].version = tab[c].version
         /\ tab'[c].version \in Nat
         /\ tab'[c].rows = tab[c].rows /\ tab'[c].todo = todo
<1>1. Alone(c) /\ tab'[c] = [tab[c] EXCEPT !.pc = pc, !.todo = todo]
  BY DEF Shape, Alone
<1>2. DOMAIN tab[c] = TabFields /\ tab[c].version \in Nat
  BY ClosedFields DEF Shape
<1>3. DOMAIN tab'[c] = TabFields
  BY <1>1, <1>2
<1>4. /\ tab'[c].pc = pc /\ tab'[c].page = tab[c].page /\ tab'[c].id = tab[c].id
      /\ tab'[c].user = tab[c].user /\ tab'[c].version = tab[c].version
  BY <1>1, <1>2, HasFields
<1>5. tab'[c].rows = tab[c].rows /\ tab'[c].todo = todo
  BY <1>1, <1>2, HasFields
<1>6. QED
  BY <1>1, <1>2, <1>3, <1>4, <1>5, ClosedFields

\* A request goes on, fails or succeeds without harm.
LEMMA GotoHarmless ==
  ASSUME Shape, NEW c \in Tabs, NEW pc, Goto(c, pc), tab[c].pc # "closed",
         \/ pc \notin {"dryrun", "create", "trypatch", "patch"}
         \/ tab[c].page \notin {"tool", "edit", "register"}
  PROVE  Alone(c) /\ Harmless(c)
BY GotoEffect DEF Harmless, Requesting, Patching, Holding, Applying

LEMMA TodoHarmless ==
  ASSUME Shape, NEW c \in Tabs, NEW pc, NEW todo, tab[c].pc # "closed",
         tab' = [tab EXCEPT ![c].pc = pc, ![c].todo = todo],
         \/ pc \notin {"dryrun", "create", "trypatch", "patch"}
         \/ tab[c].page \notin {"tool", "edit", "register"}
  PROVE  Alone(c) /\ Harmless(c)
BY TodoEffect DEF Harmless, Requesting, Patching, Holding, Applying

LEMMA FailsHarmless ==
  ASSUME Shape, NEW c \in Tabs, Fails(c), tab[c].pc # "closed"
  PROVE  Alone(c) /\ Harmless(c)
BY GotoHarmless DEF Fails

LEMMA SucceedsHarmless ==
  ASSUME Shape, NEW c \in Tabs, Succeeds(c)
  PROVE  Alone(c) /\ Harmless(c)
<1>1. Alone(c) /\ tab'[c] = Closed
  BY DEF Succeeds, Shape, Alone
<1>2. QED
  BY <1>1, ClosedIs DEF Harmless, Requesting, Patching, Holding, Applying

\* A request ends, or goes on with what remains to be done.
LEMMA AdvancesHarmless ==
  ASSUME Shape, NEW c \in Tabs, tab[c].pc # "closed",
         \/ Fails(c) \/ Succeeds(c)
         \/ \E pc \in {"trymark", "grant", "revoke"} : \E todo :
               tab' = [tab EXCEPT ![c].pc = pc, ![c].todo = todo]
  PROVE  Alone(c) /\ Harmless(c)
<1>1. CASE Fails(c)
  BY <1>1, FailsHarmless
<1>2. CASE Succeeds(c)
  BY <1>2, SucceedsHarmless
<1>3. ASSUME NEW pc \in {"trymark", "grant", "revoke"}, NEW todo,
             tab' = [tab EXCEPT ![c].pc = pc, ![c].todo = todo]
      PROVE  Alone(c) /\ Harmless(c)
  BY <1>3, TodoHarmless
<1>4. QED
  BY <1>1, <1>2, <1>3

LEMMA OpensHarmless ==
  ASSUME Shape, NEW c \in Tabs, NEW page, Opens(c, page),
         DOMAIN page = DOMAIN Closed, page.version \in Nat, page.page # "register",
         page.pc \notin {"dryrun", "create", "trypatch", "patch"}
  PROVE  Alone(c) /\ Harmless(c)
<1>1. Alone(c) /\ tab'[c] = page
  BY DEF Opens, Shape, Alone
<1>2. QED
  BY <1>1 DEF Harmless, Requesting, Patching, Holding, Applying

-----------------------------------------------------------------------------
(* Drafts *)

LEMMA DraftsHarmless ==
  ASSUME IInv, NEW c \in Tabs, Drafts(c)
  PROVE  /\ Alone(c) /\ Harmless(c) /\ UNCHANGED <<stores, history>>
<1> USE DEF IInv
<1>1. CASE OpenCreate(c)
  <2>1. PICK t \in TemplateIds :
          Opens(c, [Closed EXCEPT !.pc = "open", !.page = "create", !.id = t])
    BY <1>1 DEF OpenCreate
  <2> DEFINE page == [Closed EXCEPT !.pc = "open", !.page = "create", !.id = t]
  <2>2. /\ DOMAIN page = DOMAIN Closed /\ page.version \in Nat /\ page.page = "create"
        /\ page.pc = "open"
    BY HasFields, ClosedFields, ClosedIs
  <2> HIDE DEF page
  <2>3. Opens(c, page)
    BY <2>1 DEF page
  <2>4. QED
    BY <2>2, <2>3, OpensHarmless DEF Opens
<1>2. CASE OpenEdit(c)
  <2>1. PICK t \in DOMAIN templates :
          Opens(c, [Closed EXCEPT !.pc = "open", !.page = "edit", !.id = t,
                                  !.version = templates[t].version,
                                  !.rows = Keyed(templates[t].form),
                                  !.nextKey = Len(templates[t].form) + 1])
    BY <1>2 DEF OpenEdit
  <2> DEFINE page == [Closed EXCEPT !.pc = "open", !.page = "edit", !.id = t,
                                    !.version = templates[t].version,
                                    !.rows = Keyed(templates[t].form),
                                    !.nextKey = Len(templates[t].form) + 1]
  <2>2. /\ DOMAIN page = DOMAIN Closed /\ page.version = templates[t].version
        /\ page.page = "edit" /\ page.pc = "open"
    BY HasFields, ClosedFields
  <2>3. templates[t].version \in Nat
    BY <2>1 DEF Shape
  <2> HIDE DEF page
  <2>4. Opens(c, page)
    BY <2>1 DEF page
  <2>5. QED
    BY <2>2, <2>3, <2>4, OpensHarmless DEF Opens
<1>3. ASSUME Editing(c), NEW rows, NEW nextKey,
             \/ tab' = [tab EXCEPT ![c].rows = rows]
             \/ tab' = [tab EXCEPT ![c].rows = rows, ![c].nextKey = nextKey]
      PROVE  Alone(c) /\ Harmless(c)
  <2>1. /\ Alone(c) /\ DOMAIN tab'[c] = DOMAIN Closed /\ tab'[c].version \in Nat
        /\ tab'[c].page = tab[c].page /\ tab'[c].pc = "open"
    <3>1. /\ Alone(c)
          /\ \/ tab'[c] = [tab[c] EXCEPT !.rows = rows]
             \/ tab'[c] = [tab[c] EXCEPT !.rows = rows, !.nextKey = nextKey]
      BY <1>3 DEF Shape, Alone
    <3>2. DOMAIN tab[c] = DOMAIN Closed /\ tab[c].version \in Nat
      BY DEF Shape
    <3>3. QED
      BY <1>3, <3>1, <3>2, HasFields, ClosedFields DEF Editing
  <2>2. QED
    BY <1>3, <2>1 DEF Editing, Harmless, Requesting, Patching, Holding, Applying
<1>4. CASE AddField(c)
  BY <1>3, <1>4 DEF AddField
<1>5. ASSUME NEW rows, Edits(c, rows)
      PROVE  Alone(c) /\ Harmless(c) /\ UNCHANGED <<stores, history>>
  BY <1>3, <1>5 DEF Edits
<1>6. ASSUME \/ MoveField(c) \/ RemoveField(c) \/ SetLabel(c) \/ ToggleRequired(c)
             \/ SetType(c) \/ AddOption(c) \/ SetOption(c) \/ RemoveOption(c)
      PROVE  Alone(c) /\ Harmless(c) /\ UNCHANGED <<stores, history>>
  BY <1>5, <1>6 DEF MoveField, RemoveField, SetLabel, ToggleRequired, SetType, AddOption,
                    SetOption, RemoveOption, EditsRow
<1>7. CASE SubmitTemplate(c)
  <2>1. \/ Goto(c, "dryrun") /\ tab[c].page = "create"
        \/ Goto(c, "get")
    BY <1>7 DEF SubmitTemplate
  <2>2. QED
    BY <1>7, <2>1, GotoHarmless DEF SubmitTemplate, Editing
<1>8. QED
  BY <1>1, <1>2, <1>4, <1>6, <1>7 DEF Drafts

-----------------------------------------------------------------------------
(* Pages that review, clean up, demonstrate and ask *)

\* What such a step leaves alone.
Aside == UNCHANGED <<templates, requests, shown, clashed, doubled>>

LEMMA OpensAside ==
  ASSUME Shape, NEW c \in Tabs, NEW page, Opens(c, page),
         DOMAIN page = DOMAIN Closed, page.version = Closed.version,
         page.page # "register", page.pc \notin {"dryrun", "create", "trypatch", "patch"}
  PROVE  Alone(c) /\ Harmless(c) /\ Aside /\ ApplicationsKept
<1>1. page.version \in Nat
  BY ClosedIs
<1>2. Alone(c) /\ Harmless(c)
  BY <1>1, OpensHarmless
<1>3. Aside /\ UNCHANGED applications
  BY DEF Opens, stores, history, Aside
<1>4. QED
  BY <1>2, <1>3, SameApplications

Reviews(c) ==
  \/ SubmitApplication(c)
  \/ OpenReview(c) \/ PressApprove(c) \/ GetApplication(c) \/ DryRunMark(c) \/ MarkApproved(c)
  \/ ConfirmCleanup(c) \/ ListApproved(c) \/ DryRunCleanup(c) \/ DeleteApproved(c)

LEMMA ReviewsHarmless ==
  ASSUME IInv, NEW c \in Tabs, Reviews(c)
  PROVE  Alone(c) /\ Harmless(c) /\ Aside /\ ApplicationsKept
<1>0. Shape
  BY DEF IInv
<1>1. CASE SubmitApplication(c)
  <2>1. PICK answers : tab' = [tab EXCEPT ![c].pc = "get", ![c].answers = answers]
    BY <1>1 DEF SubmitApplication
  <2>2. /\ tab[c].pc = "open" /\ tab[c].page = "register"
        /\ DOMAIN tab[c] = DOMAIN Closed /\ tab[c].version \in Nat
    BY <1>0, <1>1 DEF SubmitApplication, At, Shape
  <2>3. Alone(c) /\ tab'[c] = [tab[c] EXCEPT !.pc = "get", !.answers = answers]
    BY <1>0, <2>1 DEF Alone, Shape
  <2>4. /\ DOMAIN tab'[c] = DOMAIN Closed /\ tab'[c].version = tab[c].version
        /\ tab'[c].pc = "get" /\ tab'[c].page = tab[c].page /\ tab'[c].id = tab[c].id
        /\ tab'[c].rows = tab[c].rows
    BY <2>2, <2>3, HasFields, HasOtherFields, ClosedFields
  <2>5. QED
    BY <1>0, <1>1, <2>2, <2>3, <2>4, SameApplications
    DEF SubmitApplication, stores, history, Aside, Harmless, Requesting, Patching,
        Holding, Applying
<1>2. CASE OpenReview(c)
  <2>1. PICK a, u : Opens(c, [Closed EXCEPT !.pc = "open", !.page = "review", !.user = u,
                                            !.item = a])
    BY <1>2 DEF OpenReview
  <2> DEFINE page == [Closed EXCEPT !.pc = "open", !.page = "review", !.user = u, !.item = a]
  <2>2. /\ DOMAIN page = DOMAIN Closed /\ page.version = Closed.version
        /\ page.page = "review" /\ page.pc = "open"
    BY HasFields, HasOtherFields, ClosedFields
  <2> HIDE DEF page
  <2>3. Opens(c, page)
    BY <2>1 DEF page
  <2>4. QED
    BY <1>0, <2>2, <2>3, OpensAside
<1>3. CASE PressApprove(c) \/ DryRunMark(c)
  <2>1. /\ tab[c].pc # "closed" /\ UNCHANGED <<stores, history>>
        /\ Fails(c) \/ Goto(c, "get") \/ Goto(c, "mark")
    BY <1>3 DEF PressApprove, DryRunMark, At
  <2>2. QED
    BY <1>0, <2>1, FailsHarmless, GotoHarmless, SameApplications DEF stores, history, Aside
<1>4. CASE GetApplication(c)
  <2>1. /\ tab[c].pc # "closed" /\ tab[c].page = "review"
        /\ UNCHANGED <<stores, shown, clashed, doubled>>
    BY <1>4 DEF GetApplication, At
  <2>2. \/ Fails(c) \/ Succeeds(c)
        \/ \E todo : tab' = [tab EXCEPT ![c].pc = "trymark", ![c].todo = todo]
    BY <1>0, <1>4 DEF GetApplication, WithStatus, Shape
  <2>3. Alone(c) /\ Harmless(c)
    BY <1>0, <2>1, <2>2, AdvancesHarmless
  <2>4. QED
    BY <1>0, <2>1, <2>3, SameApplications DEF stores, Aside
<1>5. CASE MarkApproved(c)
  <2>1. tab[c].pc # "closed" /\ UNCHANGED <<templates, requests, history>>
    BY <1>5 DEF MarkApproved
  <2>2. \/ Fails(c) \/ Succeeds(c)
        \/ \E todo : tab' = [tab EXCEPT ![c].pc = "trymark", ![c].todo = todo]
    <3>1. ASSUME NextMark(c)
          PROVE  \/ Succeeds(c)
                 \/ \E todo : tab' = [tab EXCEPT ![c].pc = "trymark", ![c].todo = todo]
      BY <1>0, <3>1 DEF NextMark, Shape
    <3>2. QED
      BY <1>5, <3>1 DEF MarkApproved
  <2>3. ApplicationsKept
    <3>1. CASE UNCHANGED applications
      BY <1>0, <3>1, SameApplications
    <3>2. CASE applications' = [applications EXCEPT ![Head(tab[c].todo)] =
                                                   Approved(@, tab[c].user)]
      <4> DEFINE a == Head(tab[c].todo)
      <4>1. ASSUME a \in DOMAIN applications
            PROVE  /\ DOMAIN applications'[a] = ApplicationFields
                   /\ applications'[a].status = "approved"
                   /\ applications'[a].template = applications[a].template
                   /\ applications'[a].labels = applications[a].labels
        <5>1. DOMAIN applications[a] = ApplicationFields
          BY <1>0, <4>1 DEF Shape
        <5>2. applications'[a] = [applications[a] EXCEPT !.status = "approved",
                                                         !.by = tab[c].user]
          BY <3>2, <4>1 DEF Approved
        <5>3. /\ "status" \in ApplicationFields /\ "template" \in ApplicationFields
              /\ "labels" \in ApplicationFields
          BY DEF ApplicationFields
        <5>4. QED
          BY <5>1, <5>2, <5>3
      <4>2. QED
        BY <1>0, <3>2, <4>1 DEF Shape, ApplicationsKept
    <3>3. QED
      BY <1>5, <3>1, <3>2 DEF MarkApproved
  <2>4. Alone(c) /\ Harmless(c)
    BY <1>0, <2>1, <2>2, AdvancesHarmless
  <2>5. QED
    BY <2>1, <2>3, <2>4 DEF history, Aside
<1>6. CASE ConfirmCleanup(c)
  <2> DEFINE page == [Closed EXCEPT !.pc = "list", !.page = "cleanup"]
  <2>1. /\ DOMAIN page = DOMAIN Closed /\ page.version = Closed.version
        /\ page.page = "cleanup" /\ page.pc = "list"
    BY HasFields, ClosedFields
  <2>2. Opens(c, page)
    BY <1>6 DEF ConfirmCleanup
  <2> HIDE DEF page
  <2>3. QED
    BY <1>0, <2>1, <2>2, OpensAside
<1>7. CASE ListApproved(c) \/ DryRunCleanup(c)
  <2>1. /\ tab[c].pc # "closed" /\ tab[c].page = "cleanup" /\ UNCHANGED <<stores, history>>
        /\ \/ Fails(c) \/ Succeeds(c) \/ Goto(c, "delete")
           \/ \E todo : tab' = [tab EXCEPT ![c].pc = "dryrun", ![c].todo = todo]
    BY <1>7 DEF ListApproved, DryRunCleanup, At
  <2>2. Alone(c) /\ Harmless(c)
    <3>1. CASE Fails(c) \/ Succeeds(c)
      BY <1>0, <2>1, <3>1, AdvancesHarmless
    <3>2. CASE Goto(c, "delete")
      BY <1>0, <2>1, <3>2, GotoHarmless
    <3>3. ASSUME NEW todo, tab' = [tab EXCEPT ![c].pc = "dryrun", ![c].todo = todo]
          PROVE  Alone(c) /\ Harmless(c)
      BY <1>0, <2>1, <3>3, TodoHarmless
    <3>4. QED
      BY <2>1, <3>1, <3>2, <3>3
  <2>3. QED
    BY <1>0, <2>1, <2>2, SameApplications DEF stores, history, Aside
<1>8. CASE DeleteApproved(c)
  <2>1. /\ tab[c].pc # "closed" /\ UNCHANGED <<templates, requests, history>>
        /\ Fails(c) \/ Succeeds(c)
        /\ applications' = Without(applications, Range(tab[c].todo))
    BY <1>8 DEF DeleteApproved, At
  <2>2. ApplicationsKept
    BY <1>0, <2>1 DEF Without, Shape, ApplicationsKept
  <2>3. QED
    BY <1>0, <2>1, <2>2, FailsHarmless, SucceedsHarmless DEF history, Aside
<1>9. QED
  BY <1>1, <1>2, <1>3, <1>4, <1>5, <1>6, <1>7, <1>8 DEF Reviews

LEMMA DemoHarmless ==
  ASSUME IInv, NEW c \in Tabs, DemoSteps(c)
  PROVE  Alone(c) /\ Harmless(c) /\ Aside /\ ApplicationsKept
<1>0. Shape
  BY DEF IInv
<1>1. CASE PressApproveAll(c)
  <2>1. PICK u : Opens(c, [Closed EXCEPT !.pc = "grant", !.page = "approveall", !.user = u,
                                         !.todo = SetToSeq(Tools)])
    BY <1>1 DEF PressApproveAll
  <2> DEFINE page == [Closed EXCEPT !.pc = "grant", !.page = "approveall", !.user = u,
                                    !.todo = SetToSeq(Tools)]
  <2>2. /\ DOMAIN page = DOMAIN Closed /\ page.version = Closed.version
        /\ page.page = "approveall" /\ page.pc = "grant"
    BY HasFields, ClosedFields
  <2> HIDE DEF page
  <2>3. Opens(c, page)
    BY <2>1 DEF page
  <2>4. QED
    BY <1>0, <2>2, <2>3, OpensAside
<1>2. CASE PressReset(c)
  <2> DEFINE page == [Closed EXCEPT !.pc = "revoke", !.page = "reset",
                                    !.todo = SetToSeq(Tools)]
  <2>1. /\ DOMAIN page = DOMAIN Closed /\ page.version = Closed.version
        /\ page.page = "reset" /\ page.pc = "revoke"
    BY HasFields, ClosedFields
  <2>2. Opens(c, page)
    BY <1>2 DEF PressReset
  <2> HIDE DEF page
  <2>3. QED
    BY <1>0, <2>1, <2>2, OpensAside
<1>3. ASSUME \/ CheckMember(c) \/ PutMember(c) \/ VerifyMember(c) \/ ListPending(c)
             \/ CheckRevoked(c) \/ RemoveMember(c) \/ VerifyRevoked(c)
      PROVE  Alone(c) /\ Harmless(c) /\ Aside /\ ApplicationsKept
  <2>1. /\ tab[c].pc # "closed" /\ UNCHANGED <<applications, templates, requests, shown,
                                              clashed, doubled>>
    BY <1>3 DEF CheckMember, PutMember, VerifyMember, ListPending, CheckRevoked,
                RemoveMember, VerifyRevoked, At, stores, history
  <2>2. \/ Fails(c) \/ Succeeds(c)
        \/ \E pc \in {"put", "verify", "listpending", "remove"} : Goto(c, pc)
        \/ \E pc \in {"grant", "revoke", "trymark"} : \E todo :
              tab' = [tab EXCEPT ![c].pc = pc, ![c].todo = todo]
    <3>1. ASSUME NextGrant(c)
          PROVE  \/ Goto(c, "listpending")
                 \/ \E todo : tab' = [tab EXCEPT ![c].pc = "grant", ![c].todo = todo]
      BY <1>0, <3>1 DEF NextGrant, Shape
    <3>2. ASSUME NextRevoke(c)
          PROVE  \/ Succeeds(c)
                 \/ \E todo : tab' = [tab EXCEPT ![c].pc = "revoke", ![c].todo = todo]
      BY <1>0, <3>2 DEF NextRevoke, Shape
    <3>3. QED
      BY <1>3, <3>1, <3>2 DEF CheckMember, PutMember, VerifyMember, ListPending,
                              CheckRevoked, RemoveMember, VerifyRevoked
  <2>3. Alone(c) /\ Harmless(c)
    <3>1. CASE \E pc \in {"put", "verify", "listpending", "remove"} : Goto(c, pc)
      BY <1>0, <2>1, <3>1, GotoHarmless
    <3>2. CASE ~\E pc \in {"put", "verify", "listpending", "remove"} : Goto(c, pc)
      BY <1>0, <2>1, <2>2, <3>2, AdvancesHarmless
    <3>3. QED
      BY <3>1, <3>2
  <2>4. QED
    BY <1>0, <2>1, <2>3, SameApplications DEF Aside
<1>4. QED
  BY <1>1, <1>2, <1>3 DEF DemoSteps

-----------------------------------------------------------------------------
(* Templates *)

\* Parts of the invariant that a step keeps because of what it leaves alone.
LEMMA AskersKept ==
  ASSUME IInv, NEW c \in Tabs, Alone(c), ~Requesting(tab'[c]), UNCHANGED <<requests, doubled>>
  PROVE  RequestsFit' /\ PendingOnce'
BY DEF IInv, RequestsFit, PendingOnce, Alone

LEMMA AnswersKept ==
  ASSUME IInv, ApplicationsKept, UNCHANGED shown, clashed \subseteq clashed'
  PROVE  AnswersToWhatWasShown'
BY DEF IInv, AnswersToWhatWasShown, ApplicationsKept

\* Templates that did not clash stay, or become that of a later version.
LEMMA ApplicantsKept ==
  ASSUME IInv, NEW c \in Tabs, Alone(c), ~Applying(tab'[c]), ~Holding(tab'[c]),
         clashed \subseteq clashed',
         \A t \in DOMAIN templates \ clashed' :
           /\ t \in DOMAIN templates'
           /\ \/ templates'[t] = templates[t]
              \/ templates'[t].version = templates[t].version + 1
  PROVE  ApplicantsFit'
<1>1. ASSUME NEW d \in Tabs \ {c}, Applying(tab[d]), tab[d].id \notin clashed'
      PROVE  /\ tab[d].id \in DOMAIN templates'
             /\ tab[d].version <= templates'[tab[d].id].version
             /\ tab[d].version = templates'[tab[d].id].version =>
                  templates'[tab[d].id].form = tab[d].rows
  <2> DEFINE t == tab[d].id
  <2>1. /\ t \in DOMAIN templates /\ tab[d].version <= templates[t].version
        /\ tab[d].version = templates[t].version => templates[t].form = tab[d].rows
        /\ tab[d].version \in Nat /\ templates[t].version \in Nat
    BY <1>1 DEF IInv, ApplicantsFit, Shape
  <2>2. /\ t \in DOMAIN templates'
        /\ \/ templates'[t] = templates[t]
           \/ templates'[t].version = templates[t].version + 1
    BY <1>1, <2>1
  <2> HIDE DEF t
  <2>3. QED
    BY <2>1, <2>2 DEF t
<1>2. ASSUME NEW d \in Tabs \ {c}, Holding(tab[d])
      PROVE  /\ DOMAIN Head(tab[d].todo) = ApplicationFields
             /\ Head(tab[d].todo).status = "pending"
             /\ Head(tab[d].todo).template = tab[d].id
             /\ tab[d].id \notin clashed' => Head(tab[d].todo).labels = Labels(tab[d].rows)
  BY <1>2 DEF IInv, ApplicantsFit
<1>3. ASSUME NEW d \in Tabs \ {c} PROVE tab'[d] = tab[d]
  BY <1>3 DEF Alone
<1>4. QED
  BY <1>1, <1>2, <1>3 DEF ApplicantsFit

LEMMA EditorsKept ==
  ASSUME IInv, NEW c \in Tabs, Alone(c), ~Patching(tab'[c]), clashed \subseteq clashed',
         \A d \in Tabs \ {c} : Patching(tab[d]) /\ tab[d].id \notin clashed' =>
           /\ tab[d].id \in DOMAIN templates'
           /\ templates'[tab[d].id].version = templates[tab[d].id].version
  PROVE  EditorsFit'
BY DEF IInv, EditorsFit, Alone

LEMMA GetForUpdateIInv ==
  ASSUME IInv, NEW c \in Tabs, GetForUpdate(c)
  PROVE  IInv'
<1> DEFINE id == tab[c].id
<1>1. /\ Shape /\ tab[c].pc = "get" /\ tab[c].page = "edit"
      /\ UNCHANGED <<templates, applications, requests, shown, doubled>>
      /\ clashed \subseteq clashed'
  BY DEF GetForUpdate, At, IInv, stores
<1>2. CASE Fails(c)
  <2>1. Alone(c) /\ Harmless(c)
    BY <1>1, <1>2, FailsHarmless
  <2>2. ~Requesting(tab'[c]) /\ ~Patching(tab'[c]) /\ ~Holding(tab'[c]) /\ ~Applying(tab'[c])
    BY <1>1, <2>1 DEF Harmless, Applying
  <2>3. Shape'
    BY <1>1, <2>1 DEF Shape, Alone, Harmless
  <2>4. EditorsFit'
    BY <1>1, <2>1, <2>2, EditorsKept DEF IInv, EditorsFit
  <2>5. ApplicantsFit'
    BY <1>1, <2>1, <2>2, ApplicantsKept
  <2>6. QED
    BY <1>1, <2>1, <2>2, <2>3, <2>4, <2>5, AskersKept, AnswersKept, SameApplications DEF IInv
<1>3. CASE /\ id \in DOMAIN templates /\ templates[id].version = tab[c].version
           /\ Goto(c, "trypatch")
  <2>1. /\ Alone(c) /\ DOMAIN tab'[c] = DOMAIN Closed
        /\ tab'[c].pc = "trypatch" /\ tab'[c].page = "edit" /\ tab'[c].id = id
        /\ tab'[c].version = tab[c].version /\ tab'[c].version \in Nat
    BY <1>1, <1>3, GotoEffect
  <2>2. ~Requesting(tab'[c]) /\ ~Holding(tab'[c]) /\ ~Applying(tab'[c])
    BY <2>1 DEF Requesting, Holding, Applying
  <2>3. Shape'
    BY <1>1, <2>1 DEF Shape, Alone
  <2>4. EditorsFit'
    <3>1. ASSUME NEW d \in Tabs \ {c}, Patching(tab[d]), tab[d].id = id PROVE id \in clashed'
      BY <3>1 DEF GetForUpdate, Patching
    <3>2. QED
      BY <1>1, <1>3, <2>1, <3>1 DEF IInv, EditorsFit, Alone
  <2>5. ApplicantsFit'
    BY <1>1, <2>1, <2>2, ApplicantsKept
  <2>6. QED
    BY <1>1, <2>1, <2>2, <2>3, <2>4, <2>5, AskersKept, AnswersKept, SameApplications DEF IInv
<1>4. QED
  BY <1>2, <1>3 DEF GetForUpdate

LEMMA DryRunPatchIInv ==
  ASSUME IInv, NEW c \in Tabs, DryRunPatch(c)
  PROVE  IInv'
<1>1. /\ Shape /\ tab[c].pc = "trypatch" /\ tab[c].page = "edit"
      /\ UNCHANGED <<templates, applications, requests, shown, clashed, doubled>>
  BY DEF DryRunPatch, At, IInv, stores, history
<1>2. CASE Fails(c)
  BY <1>1, <1>2, FailsHarmless, HarmlessKeeps, SameApplications
<1>3. CASE Goto(c, "patch")
  <2>1. /\ Alone(c) /\ DOMAIN tab'[c] = DOMAIN Closed
        /\ tab'[c].pc = "patch" /\ tab'[c].page = "edit" /\ tab'[c].id = tab[c].id
        /\ tab'[c].version = tab[c].version /\ tab'[c].version \in Nat
    BY <1>1, <1>3, GotoEffect
  <2>2. /\ ~Requesting(tab'[c]) /\ ~Holding(tab'[c]) /\ ~Applying(tab'[c])
        /\ Patching(tab[c])
    BY <1>1, <2>1 DEF Requesting, Holding, Applying, Patching
  <2>3. Shape'
    BY <1>1, <2>1 DEF Shape, Alone
  <2>4. EditorsFit'
    BY <1>1, <2>1, <2>2 DEF IInv, EditorsFit, Alone
  <2>5. ApplicantsFit'
    BY <1>1, <2>1, <2>2, ApplicantsKept
  <2>6. QED
    BY <1>1, <2>1, <2>2, <2>3, <2>4, <2>5, AskersKept, AnswersKept, SameApplications DEF IInv
<1>4. QED
  BY <1>2, <1>3 DEF DryRunPatch

\* A tab that stores, patches or deletes a template, and closes.
LEMMA TemplateWritten ==
  ASSUME IInv, NEW c \in Tabs, Succeeds(c),
         UNCHANGED <<applications, requests, shown, doubled>>, clashed \subseteq clashed',
         \A t \in DOMAIN templates' : templates'[t].version \in Nat,
         \A t \in DOMAIN templates \ clashed' :
           /\ t \in DOMAIN templates'
           /\ \/ templates'[t] = templates[t]
              \/ /\ templates'[t].version = templates[t].version + 1
                 /\ \A d \in Tabs \ {c} : ~(Patching(tab[d]) /\ tab[d].id = t)
  PROVE  IInv'
<1>1. Shape
  BY DEF IInv
<1>2. Alone(c) /\ Harmless(c)
  BY <1>1, SucceedsHarmless
<1>3. tab'[c] = Closed
  BY <1>1 DEF Succeeds, Shape
<1>4. ~Requesting(tab'[c]) /\ ~Patching(tab'[c]) /\ ~Holding(tab'[c]) /\ ~Applying(tab'[c])
  BY <1>2, <1>3, ClosedIs DEF Harmless, Applying
<1>5. Shape'
  BY <1>1, <1>2 DEF Shape, Alone, Harmless
<1>6. EditorsFit'
  <2>1. ASSUME NEW d \in Tabs \ {c}, Patching(tab[d]), tab[d].id \notin clashed'
        PROVE  /\ tab[d].id \in DOMAIN templates'
               /\ templates'[tab[d].id].version = templates[tab[d].id].version
    <3>1. tab[d].id \in DOMAIN templates \ clashed'
      BY <2>1 DEF IInv, EditorsFit
    <3>2. QED
      BY <2>1, <3>1
  <2>2. QED
    BY <1>2, <1>4, <2>1, EditorsKept
<1>7. ApplicantsFit'
  BY <1>2, <1>4, ApplicantsKept
<1>8. QED
  BY <1>1, <1>2, <1>4, <1>5, <1>6, <1>7, AskersKept, AnswersKept, SameApplications DEF IInv

LEMMA TemplatesIInv ==
  ASSUME IInv, NEW c \in Tabs, TemplateSteps(c)
  PROVE  IInv'
<1>0. Shape
  BY DEF IInv
<1>1. CASE DryRunTemplate(c) \/ GetForDelete(c)
  <2>1. /\ tab[c].pc # "closed" /\ tab[c].page \in {"create", "delete"}
        /\ UNCHANGED <<templates, applications, requests, shown, clashed, doubled>>
        /\ Fails(c) \/ \E pc : Goto(c, pc)
    BY <1>1 DEF DryRunTemplate, GetForDelete, At, stores, history
  <2>2. Alone(c) /\ Harmless(c)
    BY <1>0, <2>1, FailsHarmless, GotoHarmless
  <2>3. QED
    BY <1>0, <2>1, <2>2, HarmlessKeeps, SameApplications
<1>2. CASE ConfirmDelete(c)
  <2>1. PICK t : Opens(c, [Closed EXCEPT !.pc = "get", !.page = "delete", !.id = t])
    BY <1>2 DEF ConfirmDelete
  <2> DEFINE page == [Closed EXCEPT !.pc = "get", !.page = "delete", !.id = t]
  <2>2. /\ DOMAIN page = DOMAIN Closed /\ page.version = Closed.version
        /\ page.page = "delete" /\ page.pc = "get"
    BY HasFields, ClosedFields
  <2> HIDE DEF page
  <2>3. Opens(c, page)
    BY <2>1 DEF page
  <2>4. Alone(c) /\ Harmless(c) /\ Aside /\ ApplicationsKept
    BY <1>0, <2>2, <2>3, OpensAside
  <2>5. QED
    BY <2>4, HarmlessKeeps DEF Aside
<1>3. CASE CreateTemplate(c)
  <2>1. /\ tab[c].pc # "closed"
        /\ UNCHANGED <<applications, requests, shown, clashed, doubled>>
    BY <1>3 DEF CreateTemplate, At, history
  <2>2. CASE Fails(c) /\ UNCHANGED templates
    BY <1>0, <2>1, <2>2, FailsHarmless, HarmlessKeeps, SameApplications
  <2>3. CASE /\ tab[c].id \notin DOMAIN templates /\ Succeeds(c)
             /\ templates' = Put(templates, tab[c].id, NewTemplate(Fields(tab[c].rows)))
    <3>1. \A t \in DOMAIN templates' :
            \/ t \in DOMAIN templates /\ templates'[t] = templates[t]
            \/ templates'[t].version = 1
      BY <2>3 DEF Put, NewTemplate
    <3>2. \A t \in DOMAIN templates : t \in DOMAIN templates' /\ templates'[t] = templates[t]
      BY <2>3 DEF Put
    <3>3. QED
      BY <1>0, <2>1, <2>3, <3>1, <3>2, TemplateWritten DEF Shape
  <2>4. QED
    BY <1>3, <2>2, <2>3 DEF CreateTemplate
<1>4. CASE PatchTemplate(c)
  <2> DEFINE id == tab[c].id
  <2>1. /\ tab[c].pc = "patch" /\ tab[c].page = "edit" /\ Patching(tab[c])
        /\ UNCHANGED <<applications, requests, shown, clashed, doubled>>
    BY <1>4 DEF PatchTemplate, At, history, Patching
  <2>2. CASE Fails(c) /\ UNCHANGED templates
    BY <1>0, <2>1, <2>2, FailsHarmless, HarmlessKeeps, SameApplications
  <2>3. CASE /\ id \in DOMAIN templates /\ Succeeds(c)
             /\ templates' = Put(templates, id, Updated(tab[c].version, Fields(tab[c].rows)))
    <3>1. /\ DOMAIN templates' = DOMAIN templates
          /\ templates'[id].version = tab[c].version + 1
          /\ \A t \in DOMAIN templates \ {id} : templates'[t] = templates[t]
      BY <2>3 DEF Put, Updated
    <3>2. \A t \in DOMAIN templates' : templates'[t].version \in Nat
      BY <1>0, <3>1 DEF Shape
    <3>3. id \notin clashed =>
            /\ templates[id].version = tab[c].version
            /\ \A d \in Tabs \ {c} : ~(Patching(tab[d]) /\ tab[d].id = id)
      BY <2>1 DEF IInv, EditorsFit
    <3>4. \A t \in DOMAIN templates \ clashed' :
            /\ t \in DOMAIN templates'
            /\ \/ templates'[t] = templates[t]
               \/ /\ templates'[t].version = templates[t].version + 1
                  /\ \A d \in Tabs \ {c} : ~(Patching(tab[d]) /\ tab[d].id = t)
      BY <2>1, <2>3, <3>1, <3>3
    <3>5. QED
      BY <2>1, <2>3, <3>2, <3>4, TemplateWritten
  <2>4. QED
    BY <1>4, <2>2, <2>3 DEF PatchTemplate
<1>5. CASE DeleteTemplate(c)
  <2>1. /\ tab[c].pc # "closed"
        /\ UNCHANGED <<applications, requests, shown, doubled>>
    BY <1>5 DEF DeleteTemplate, At
  <2>2. CASE Fails(c) /\ UNCHANGED <<templates, clashed>>
    BY <1>0, <2>1, <2>2, FailsHarmless, HarmlessKeeps, SameApplications
  <2>3. CASE /\ Succeeds(c) /\ templates' = Without(templates, {tab[c].id})
             /\ clashed' = clashed \cup {tab[c].id}
    <3>1. \A t \in DOMAIN templates' : t \in DOMAIN templates /\ templates'[t] = templates[t]
      BY <2>3 DEF Without
    <3>2. \A t \in DOMAIN templates \ clashed' :
            t \in DOMAIN templates' /\ templates'[t] = templates[t]
      BY <2>3 DEF Without
    <3>3. QED
      BY <1>0, <2>1, <2>3, <3>1, <3>2, TemplateWritten DEF Shape
  <2>4. QED
    BY <1>5, <2>2, <2>3 DEF DeleteTemplate
<1>6. QED
  BY <1>1, <1>2, <1>3, <1>4, <1>5, GetForUpdateIInv, DryRunPatchIInv DEF TemplateSteps

-----------------------------------------------------------------------------
(* Applications *)

LEMMA OpenRegisterIInv ==
  ASSUME IInv, NEW c \in Tabs, OpenRegister(c)
  PROVE  IInv'
<1>1. PICK t \in DOMAIN templates :
        Opens(c, [Closed EXCEPT !.pc = "open", !.page = "register", !.id = t,
                                !.version = templates[t].version,
                                !.rows = templates[t].form])
  BY DEF OpenRegister
<1> DEFINE page == [Closed EXCEPT !.pc = "open", !.page = "register", !.id = t,
                                  !.version = templates[t].version,
                                  !.rows = templates[t].form]
<1>2. /\ DOMAIN page = DOMAIN Closed /\ page.pc = "open" /\ page.page = "register"
      /\ page.id = t /\ page.version = templates[t].version
      /\ page.rows = templates[t].form
  BY HasFields, ClosedFields
<1>3. Opens(c, page)
  BY <1>1
<1>4. Shape /\ templates[t].version \in Nat
  BY DEF IInv, Shape
<1>5. UNCHANGED <<templates, applications, requests, shown, clashed, doubled>>
  BY <1>3 DEF Opens, stores, history
<1>6. tab' = [tab EXCEPT ![c] = page]
  BY <1>3 DEF Opens
<1> HIDE DEF page
<1>7. Alone(c) /\ tab'[c] = page
  BY <1>4, <1>6 DEF Shape, Alone
<1>8. ~Requesting(tab'[c]) /\ ~Patching(tab'[c]) /\ ~Holding(tab'[c])
  BY <1>2, <1>7 DEF Requesting, Patching, Holding
<1>9. Shape'
  BY <1>2, <1>4, <1>5, <1>7 DEF Shape, Alone
<1>10. ApplicantsFit'
  BY <1>1, <1>2, <1>4, <1>5, <1>7, <1>8 DEF IInv, ApplicantsFit, Alone
<1>11. EditorsFit'
  BY <1>5, <1>7, <1>8, EditorsKept DEF IInv, EditorsFit
<1>12. QED
  BY <1>4, <1>5, <1>7, <1>8, <1>9, <1>10, <1>11, AskersKept, AnswersKept, SameApplications
  DEF IInv

LEMMA CheckAnswersIInv ==
  ASSUME IInv, NEW c \in Tabs, CheckAnswers(c)
  PROVE  IInv'
<1> DEFINE id == tab[c].id
           t == templates[id]
<1>1. /\ Shape /\ tab[c].pc = "get" /\ tab[c].page = "register"
      /\ UNCHANGED <<templates, applications, requests, shown, clashed, doubled>>
  BY DEF CheckAnswers, At, IInv, stores, history
<1>2. CASE Fails(c)
  BY <1>1, <1>2, FailsHarmless, HarmlessKeeps, SameApplications
<1>3. CASE /\ id \in DOMAIN templates /\ t.version = tab[c].version
           /\ tab' = [tab EXCEPT ![c].pc = "dryrun",
                                 ![c].todo = <<NewApplication(id, t)>>]
  <2>1. /\ Alone(c) /\ DOMAIN tab'[c] = DOMAIN Closed
        /\ tab'[c].pc = "dryrun" /\ tab'[c].page = "register" /\ tab'[c].id = id
        /\ tab'[c].version = tab[c].version /\ tab'[c].version \in Nat
        /\ tab'[c].rows = tab[c].rows
        /\ tab'[c].todo = <<NewApplication(id, t)>>
    <3>1. PICK todo : /\ todo = <<NewApplication(id, t)>>
                      /\ tab' = [tab EXCEPT ![c].pc = "dryrun", ![c].todo = todo]
      BY <1>3
    <3>2. /\ Alone(c) /\ DOMAIN tab'[c] = DOMAIN Closed
          /\ tab'[c].pc = "dryrun" /\ tab'[c].page = tab[c].page /\ tab'[c].id = tab[c].id
          /\ tab'[c].version = tab[c].version /\ tab'[c].version \in Nat
          /\ tab'[c].rows = tab[c].rows /\ tab'[c].todo = todo
      <4>1. DOMAIN tab = Tabs /\ DOMAIN tab[c] = DOMAIN Closed /\ tab[c].version \in Nat
        BY <1>1 DEF Shape
      <4>2. Alone(c) /\ tab'[c] = [tab[c] EXCEPT !.pc = "dryrun", !.todo = todo]
        BY <3>1, <4>1 DEF Alone
      <4>3. QED
        BY <4>1, <4>2, HasFields, ClosedFields
    <3>3. QED
      BY <1>1, <3>1, <3>2
  <2>2. /\ ~Requesting(tab'[c]) /\ ~Patching(tab'[c]) /\ Applying(tab[c])
    BY <1>1, <2>1 DEF Requesting, Patching, Applying
  <2>3. /\ DOMAIN NewApplication(id, t) = ApplicationFields
        /\ NewApplication(id, t).status = "pending"
        /\ NewApplication(id, t).template = id
        /\ NewApplication(id, t).labels = Labels(t.form)
    BY DEF NewApplication, ApplicationFields
  <2>4. Head(tab'[c].todo) = NewApplication(id, t)
    BY <2>1
  <2>5. id \notin clashed => t.form = tab[c].rows
    BY <1>3, <2>2 DEF IInv, ApplicantsFit
  <2>6. Shape'
    BY <1>1, <2>1 DEF Shape, Alone
  <2>7. ApplicantsFit'
    <3>1. ASSUME NEW d \in Tabs \ {c} PROVE tab'[d] = tab[d]
      BY <2>1, <3>1 DEF Alone
    <3>2. /\ Applying(tab'[c]) /\ tab'[c].id \notin clashed' =>
               /\ tab'[c].id \in DOMAIN templates'
               /\ tab'[c].version <= templates'[tab'[c].id].version
               /\ tab'[c].version = templates'[tab'[c].id].version =>
                    templates'[tab'[c].id].form = tab'[c].rows
      BY <1>1, <1>3, <2>1, <2>5
    <3>3. /\ DOMAIN Head(tab'[c].todo) = ApplicationFields
          /\ Head(tab'[c].todo).status = "pending"
          /\ Head(tab'[c].todo).template = tab'[c].id
          /\ tab'[c].id \notin clashed' => Head(tab'[c].todo).labels = Labels(tab'[c].rows)
      BY <1>1, <2>1, <2>3, <2>4, <2>5
    <3>4. QED
      BY <1>1, <3>1, <3>2, <3>3 DEF IInv, ApplicantsFit
  <2>8. EditorsFit'
    BY <1>1, <2>1, <2>2, EditorsKept DEF IInv, EditorsFit
  <2>9. QED
    BY <1>1, <2>1, <2>2, <2>6, <2>7, <2>8, AskersKept, AnswersKept, SameApplications DEF IInv
<1>4. QED
  BY <1>2, <1>3 DEF CheckAnswers

LEMMA DryRunApplicationIInv ==
  ASSUME IInv, NEW c \in Tabs, DryRunApplication(c)
  PROVE  IInv'
<1>1. /\ Shape /\ tab[c].pc = "dryrun" /\ tab[c].page = "register"
      /\ UNCHANGED <<templates, applications, requests, shown, clashed, doubled>>
      /\ Goto(c, "create")
  BY DEF DryRunApplication, At, IInv, stores, history
<1>2. /\ Alone(c) /\ DOMAIN tab'[c] = DOMAIN Closed
      /\ tab'[c].pc = "create" /\ tab'[c].page = "register" /\ tab'[c].id = tab[c].id
      /\ tab'[c].version = tab[c].version /\ tab'[c].version \in Nat
      /\ tab'[c].rows = tab[c].rows /\ tab'[c].todo = tab[c].todo
  BY <1>1, GotoEffect
<1>3. /\ ~Requesting(tab'[c]) /\ ~Patching(tab'[c])
      /\ Applying(tab[c]) /\ Holding(tab[c])
  BY <1>1, <1>2 DEF Requesting, Patching, Applying, Holding
<1>4. Shape'
  BY <1>1, <1>2 DEF Shape, Alone
<1>5. ApplicantsFit'
  BY <1>1, <1>2, <1>3 DEF IInv, ApplicantsFit, Alone
<1>6. EditorsFit'
  BY <1>1, <1>2, <1>3, EditorsKept DEF IInv, EditorsFit
<1>7. QED
  BY <1>1, <1>2, <1>3, <1>4, <1>5, <1>6, AskersKept, AnswersKept, SameApplications DEF IInv

LEMMA CreateApplicationIInv ==
  ASSUME IInv, NEW c \in Tabs, CreateApplication(c)
  PROVE  IInv'
<1>1. /\ Shape /\ tab[c].pc = "create" /\ tab[c].page = "register" /\ Succeeds(c)
      /\ UNCHANGED <<templates, requests, clashed, doubled>>
  BY DEF CreateApplication, At, IInv
<1>2. PICK id : /\ applications' = Put(applications, id, Head(tab[c].todo))
                /\ shown' = Put(shown, id, Labels(tab[c].rows))
  BY DEF CreateApplication
<1>3. /\ DOMAIN Head(tab[c].todo) = ApplicationFields
      /\ Head(tab[c].todo).status = "pending"
      /\ Head(tab[c].todo).template = tab[c].id
      /\ tab[c].id \notin clashed => Head(tab[c].todo).labels = Labels(tab[c].rows)
  BY <1>1 DEF IInv, ApplicantsFit, Holding
<1>4. /\ DOMAIN applications' = DOMAIN applications \cup {id}
      /\ DOMAIN shown' = DOMAIN shown \cup {id}
      /\ applications'[id] = Head(tab[c].todo) /\ shown'[id] = Labels(tab[c].rows)
      /\ \A a \in DOMAIN applications \ {id} : applications'[a] = applications[a]
      /\ \A a \in DOMAIN shown \ {id} : shown'[a] = shown[a]
  BY <1>2 DEF Put
<1>5. Alone(c) /\ Harmless(c) /\ tab'[c] = Closed
  BY <1>1, SucceedsHarmless DEF Succeeds, Shape
<1>6. ~Requesting(tab'[c]) /\ ~Patching(tab'[c]) /\ ~Holding(tab'[c]) /\ ~Applying(tab'[c])
  BY <1>5, ClosedIs DEF Harmless, Applying
<1>7. Shape'
  BY <1>1, <1>3, <1>4, <1>5 DEF Shape, Alone, Harmless
<1>8. AnswersToWhatWasShown'
  BY <1>1, <1>3, <1>4 DEF IInv, Shape, AnswersToWhatWasShown
<1>9. ApplicantsFit'
  BY <1>1, <1>5, <1>6, ApplicantsKept
<1>10. EditorsFit'
  BY <1>1, <1>5, <1>6, EditorsKept DEF IInv, EditorsFit
<1>11. QED
  BY <1>1, <1>5, <1>6, <1>7, <1>8, <1>9, <1>10, AskersKept DEF IInv

-----------------------------------------------------------------------------
(* Permission requests *)

\* What a step of a request for a permission leaves alone.
LEMMA RequestsAside ==
  ASSUME IInv, NEW c \in Tabs, Alone(c), DOMAIN tab'[c] = DOMAIN Closed,
         tab'[c].version \in Nat, tab'[c].page = "tool" \/ tab'[c].pc = "closed",
         UNCHANGED <<templates, applications, shown, clashed>>
  PROVE  Shape' /\ EditorsFit' /\ ApplicantsFit' /\ AnswersToWhatWasShown'
<1>1. Shape
  BY DEF IInv
<1>2. ~Patching(tab'[c]) /\ ~Holding(tab'[c]) /\ ~Applying(tab'[c])
  BY DEF Patching, Holding, Applying
<1>3. Shape'
  BY <1>1 DEF Shape, Alone
<1>4. EditorsFit'
  BY <1>2, EditorsKept DEF IInv, EditorsFit
<1>5. QED
  BY <1>1, <1>2, <1>3, <1>4, ApplicantsKept, AnswersKept, SameApplications

LEMMA FindEquivalentIInv ==
  ASSUME IInv, NEW c \in Tabs, FindEquivalent(c)
  PROVE  IInv'
<1> DEFINE pair == <<tab[c].id, tab[c].user>>
<1>1. /\ Shape /\ tab[c].pc = "list" /\ tab[c].page = "tool"
      /\ UNCHANGED <<templates, applications, requests, shown, clashed>>
      /\ doubled \subseteq doubled'
  BY DEF FindEquivalent, At, IInv, stores
<1>2. CASE Fails(c) \/ Succeeds(c)
  <2>1. Alone(c) /\ Harmless(c) /\ ~Requesting(tab'[c])
    BY <1>1, <1>2, FailsHarmless, SucceedsHarmless DEF Harmless
  <2>2. RequestsFit' /\ PendingOnce'
    BY <1>1, <2>1 DEF IInv, RequestsFit, PendingOnce, Alone
  <2>3. tab'[c].page = "tool" \/ tab'[c].pc = "closed"
    BY <1>1, <1>2, GotoEffect, ClosedIs DEF Fails, Succeeds, Shape
  <2>4. QED
    BY <1>1, <2>1, <2>2, <2>3, RequestsAside DEF IInv, Harmless
<1>3. CASE /\ ~\E r \in DOMAIN requests : Equivalent(requests[r], tab[c].id, tab[c].user)
           /\ Goto(c, "dryrun")
  <2>1. /\ Alone(c) /\ DOMAIN tab'[c] = DOMAIN Closed
        /\ tab'[c].pc = "dryrun" /\ tab'[c].page = "tool" /\ tab'[c].id = tab[c].id
        /\ tab'[c].user = tab[c].user /\ tab'[c].version \in Nat
    BY <1>1, <1>3, GotoEffect
  <2>2. \A d \in Tabs \ {c} :
          Requesting(tab[d]) /\ tab[d].id = tab[c].id /\ tab[d].user = tab[c].user =>
            pair \in doubled'
    BY DEF FindEquivalent, Requesting
  <2>3. RequestsFit'
    BY <1>1, <1>3, <2>1, <2>2 DEF IInv, RequestsFit, Alone
  <2>4. PendingOnce'
    BY <1>1 DEF IInv, PendingOnce
  <2>5. QED
    BY <1>1, <2>1, <2>3, <2>4, RequestsAside DEF IInv
<1>4. QED
  BY <1>2, <1>3 DEF FindEquivalent

LEMMA RequestsIInv ==
  ASSUME IInv, NEW c \in Tabs, RequestSteps(c)
  PROVE  IInv'
<1>0. Shape
  BY DEF IInv
<1>1. CASE PressRequest(c)
  <2>1. PICK t, u : Opens(c, [Closed EXCEPT !.pc = "readiness", !.page = "tool", !.user = u,
                                            !.id = t])
    BY <1>1 DEF PressRequest
  <2> DEFINE page == [Closed EXCEPT !.pc = "readiness", !.page = "tool", !.user = u, !.id = t]
  <2>2. /\ DOMAIN page = DOMAIN Closed /\ page.version = Closed.version
        /\ page.page = "tool" /\ page.pc = "readiness"
    BY HasFields, ClosedFields
  <2> HIDE DEF page
  <2>3. Opens(c, page)
    BY <2>1 DEF page
  <2>4. Alone(c) /\ Harmless(c) /\ Aside /\ ApplicationsKept
    BY <1>0, <2>2, <2>3, OpensAside
  <2>5. QED
    BY <2>4, HarmlessKeeps DEF Aside
<1>2. CASE CheckReadiness(c)
  <2>1. /\ tab[c].pc # "closed"
        /\ Succeeds(c) \/ Goto(c, "list")
        /\ UNCHANGED <<templates, applications, requests, shown, clashed, doubled>>
    BY <1>2 DEF CheckReadiness, At, stores, history
  <2>2. Alone(c) /\ Harmless(c)
    <3>1. CASE Succeeds(c)
      BY <1>0, <3>1, SucceedsHarmless
    <3>2. CASE Goto(c, "list")
      <4>1. tab[c].pc # "closed"
        BY <1>2 DEF CheckReadiness, At
      <4>2. "list" \notin {"dryrun", "create", "trypatch", "patch"}
        OBVIOUS
      <4>3. QED
        BY <1>0, <3>2, <4>1, <4>2, GotoHarmless
    <3>3. QED
      BY <2>1, <3>1, <3>2
  <2>3. QED
    BY <1>0, <2>1, <2>2, HarmlessKeeps, SameApplications
<1>3. CASE DryRunRequest(c)
  <2>1. /\ tab[c].pc = "dryrun" /\ tab[c].page = "tool" /\ Goto(c, "create")
        /\ UNCHANGED <<templates, applications, requests, shown, clashed, doubled>>
    BY <1>3 DEF DryRunRequest, At, stores, history
  <2>2. /\ Alone(c) /\ DOMAIN tab'[c] = DOMAIN Closed
        /\ tab'[c].pc = "create" /\ tab'[c].page = "tool" /\ tab'[c].id = tab[c].id
        /\ tab'[c].user = tab[c].user /\ tab'[c].version \in Nat
    BY <1>0, <2>1, GotoEffect
  <2>3. RequestsFit'
    BY <2>1, <2>2 DEF IInv, RequestsFit, Alone, Requesting
  <2>4. PendingOnce'
    BY <2>1 DEF IInv, PendingOnce
  <2>5. QED
    BY <2>1, <2>2, <2>3, <2>4, RequestsAside DEF IInv
<1>4. CASE CreateRequest(c)
  <2>1. /\ tab[c].pc = "create" /\ tab[c].page = "tool" /\ Succeeds(c)
        /\ UNCHANGED <<templates, applications, shown, clashed, doubled>>
        /\ Requesting(tab[c])
    BY <1>4 DEF CreateRequest, At, history, Requesting
  <2>2. PICK n : requests' = Put(requests, n, NewRequest(tab[c].id, tab[c].user))
    BY <1>4 DEF CreateRequest
  <2>3. /\ DOMAIN requests' = DOMAIN requests \cup {n}
        /\ requests'[n] = NewRequest(tab[c].id, tab[c].user)
        /\ \A r \in DOMAIN requests \ {n} : requests'[r] = requests[r]
    BY <2>2 DEF Put
  <2>4. /\ requests'[n].tool = tab[c].id /\ requests'[n].user = tab[c].user
    BY <2>3 DEF NewRequest
  <2>5. Alone(c) /\ Harmless(c) /\ tab'[c] = Closed
    BY <1>0, <2>1, SucceedsHarmless DEF Succeeds, Shape
  <2>6. ~Requesting(tab'[c]) /\ tab'[c].pc = "closed"
    BY <2>5, ClosedIs DEF Harmless
  <2>7. RequestsFit'
    <3>1. ASSUME NEW d \in Tabs \ {c}, NEW r \in DOMAIN requests', Requesting(tab[d]),
                 Equivalent(requests'[r], tab[d].id, tab[d].user)
          PROVE  <<tab[d].id, tab[d].user>> \in doubled
      <4>1. CASE r = n
        BY <2>1, <2>4, <3>1, <4>1 DEF IInv, RequestsFit, Equivalent
      <4>2. CASE r # n
        BY <2>3, <3>1, <4>2 DEF IInv, RequestsFit
      <4>3. QED
        BY <4>1, <4>2
    <3>2. QED
      BY <2>1, <2>5, <2>6, <3>1 DEF IInv, RequestsFit, Alone
  <2>8. PendingOnce'
    <3>1. \A r \in DOMAIN requests \ {n} :
            /\ requests[r].tool = tab[c].id /\ requests[r].user = tab[c].user
            /\ requests[r].status = "pending"
            => <<tab[c].id, tab[c].user>> \in doubled
      BY <2>1 DEF IInv, RequestsFit, Equivalent
    <3>2. QED
      BY <2>1, <2>3, <2>4, <3>1 DEF IInv, PendingOnce
  <2>9. QED
    BY <2>1, <2>5, <2>6, <2>7, <2>8, RequestsAside DEF IInv, Harmless
<1>5. QED
  BY <1>1, <1>2, <1>3, <1>4, FindEquivalentIInv DEF RequestSteps

-----------------------------------------------------------------------------

LEMMA NextIInv == IInv /\ [Next]_vars => IInv'
<1> SUFFICES ASSUME IInv, [Next]_vars PROVE IInv'
  OBVIOUS
<1>0. Shape
  BY DEF IInv
<1>1. ASSUME NEW c \in Tabs, Drafts(c) PROVE IInv'
  BY <1>0, <1>1, DraftsHarmless, HarmlessKeeps, SameApplications DEF stores, history
<1>2. ASSUME NEW c \in Tabs, Reviews(c) \/ DemoSteps(c) PROVE IInv'
  BY <1>2, ReviewsHarmless, DemoHarmless, HarmlessKeeps DEF Aside
<1>3. ASSUME NEW c \in Tabs, ApplicationSteps(c) PROVE IInv'
  BY <1>2, <1>3, OpenRegisterIInv, CheckAnswersIInv, DryRunApplicationIInv,
     CreateApplicationIInv
  DEF ApplicationSteps, Reviews
<1>4. ASSUME NEW c \in Tabs, CloseTab(c) \/ CallFails(c) PROVE IInv'
  <2>1. /\ tab[c].pc # "closed"
        /\ Succeeds(c) \/ Fails(c)
        /\ UNCHANGED <<templates, applications, requests, shown, clashed, doubled>>
    BY <1>4 DEF CloseTab, CallFails, Busy, stores, history
  <2>2. Alone(c) /\ Harmless(c)
    <3>1. CASE Succeeds(c)
      BY <1>0, <3>1, SucceedsHarmless
    <3>2. CASE Fails(c)
      BY <1>0, <2>1, <3>2, FailsHarmless
    <3>3. QED
      BY <2>1, <3>1, <3>2
  <2>3. QED
    BY <1>0, <2>1, <2>2, HarmlessKeeps, SameApplications
<1>5. CASE UNCHANGED vars
  <2>1. UNCHANGED <<templates, applications, requests, tab, shown, clashed, doubled>>
    BY <1>5 DEF vars
  <2>2. QED
    BY <2>1 DEF IInv, Shape, RequestsFit, PendingOnce, EditorsFit, ApplicantsFit,
                AnswersToWhatWasShown
<1>6. QED
  BY <1>1, <1>2, <1>3, <1>4, <1>5, TemplatesIInv, RequestsIInv DEF Next

\* The editing of templates, the applications and the requests fit together in
\* every state (workflowFormTemplates.ts, workflowApplications.ts,
\* permissionWorkflowRequests.ts).
THEOREM Inductive == Spec => []IInv
BY InitIInv, NextIInv, PTL DEF Spec

\* An application keeps its answers under the labels its applicant saw, unless
\* the template clashed.
THEOREM AnswersFollowTheForm == Spec => []AnswersToWhatWasShown
<1>1. IInv => AnswersToWhatWasShown
  BY DEF IInv
<1>2. QED
  BY <1>1, Inductive, PTL

\* A permission is pending once for a user, unless two submissions overlapped.
THEOREM RequestedOnce == Spec => []PendingOnce
<1>1. IInv => PendingOnce
  BY DEF IInv
<1>2. QED
  BY <1>1, Inductive, PTL

\* A template changes by one version at a time, unless it clashed.
EditKept ==
  \A t \in DOMAIN templates \ clashed' :
    templates'[t] # templates[t] => templates'[t].version = templates[t].version + 1

LEMMA NextEditKept == IInv /\ [Next]_vars => EditKept
<1> SUFFICES ASSUME IInv, [Next]_vars PROVE EditKept
  OBVIOUS
<1>1. CASE UNCHANGED templates
  BY <1>1 DEF EditKept
<1>2. ASSUME NEW c \in Tabs,
             \/ Drafts(c) \/ ApplicationSteps(c) \/ DemoSteps(c) \/ RequestSteps(c)
             \/ CloseTab(c) \/ CallFails(c)
      PROVE  UNCHANGED templates
  <2>1. CASE Drafts(c)
    BY <2>1, DraftsHarmless DEF stores
  <2>2. CASE Reviews(c) \/ DemoSteps(c)
    BY <2>2, ReviewsHarmless, DemoHarmless DEF Aside
  <2>3. CASE OpenRegister(c)
    BY <2>3 DEF OpenRegister, Opens, stores
  <2>4. CASE CheckAnswers(c) \/ DryRunApplication(c) \/ CreateApplication(c)
    BY <2>4 DEF CheckAnswers, DryRunApplication, CreateApplication, stores
  <2>5. CASE RequestSteps(c)
    BY <2>5 DEF RequestSteps, PressRequest, Opens, CheckReadiness, FindEquivalent,
                DryRunRequest, CreateRequest, stores
  <2>6. CASE CloseTab(c) \/ CallFails(c)
    BY <2>6 DEF CloseTab, CallFails, stores
  <2>7. QED
    BY <1>2, <2>1, <2>2, <2>3, <2>4, <2>5, <2>6 DEF ApplicationSteps, Reviews
<1>3. ASSUME NEW c \in Tabs, TemplateSteps(c) PROVE EditKept
  <2>1. CASE DryRunTemplate(c) \/ GetForUpdate(c) \/ DryRunPatch(c) \/ GetForDelete(c)
    BY <1>1, <2>1 DEF DryRunTemplate, GetForUpdate, DryRunPatch, GetForDelete, stores
  <2>2. CASE ConfirmDelete(c)
    BY <1>1, <2>2 DEF ConfirmDelete, Opens, stores
  <2>3. CASE CreateTemplate(c)
    BY <1>1, <2>3 DEF CreateTemplate, Put, EditKept
  <2>4. CASE PatchTemplate(c)
    <3>1. CASE UNCHANGED templates
      BY <1>1, <3>1
    <3>2. CASE /\ tab[c].id \in DOMAIN templates
               /\ templates' = Put(templates, tab[c].id,
                                   Updated(tab[c].version, Fields(tab[c].rows)))
      <4>1. /\ templates'[tab[c].id].version = tab[c].version + 1
            /\ \A t \in DOMAIN templates \ {tab[c].id} : templates'[t] = templates[t]
        BY <3>2 DEF Put, Updated
      <4>2. clashed' = clashed /\ Patching(tab[c])
        BY <2>4 DEF PatchTemplate, At, Patching, history
      <4>3. tab[c].id \notin clashed => templates[tab[c].id].version = tab[c].version
        BY <4>2 DEF IInv, EditorsFit
      <4>4. QED
        BY <4>1, <4>2, <4>3 DEF EditKept
    <3>3. QED
      BY <2>4, <3>1, <3>2 DEF PatchTemplate
  <2>5. CASE DeleteTemplate(c)
    <3>1. CASE UNCHANGED templates
      BY <1>1, <3>1
    <3>2. CASE /\ templates' = Without(templates, {tab[c].id})
               /\ clashed' = clashed \cup {tab[c].id}
      BY <3>2 DEF Without, EditKept
    <3>3. QED
      BY <2>5, <3>1, <3>2 DEF DeleteTemplate
  <2>6. QED
    BY <1>3, <2>1, <2>2, <2>3, <2>4, <2>5 DEF TemplateSteps
<1>4. CASE UNCHANGED vars
  BY <1>1, <1>4 DEF vars
<1>5. QED
  BY <1>1, <1>2, <1>3, <1>4 DEF Next

\* No edit of a template is lost, unless two overlapped or it was deleted.
THEOREM NoEditIsLost == Spec => EditsAreKept
<1>1. IInv /\ [Next]_vars => [EditKept]_vars
  BY NextEditKept
<1>2. QED
  BY Inductive, <1>1, PTL DEF Spec, EditsAreKept, EditKept

-----------------------------------------------------------------------------
(* What pages hold and the stores keep                                     *)

IsList(s) == s \in Seq(Range(s))

\* A tab that approves what it has to do, and one that is to remove it.
Decides(t) == t.pc \in {"trymark", "mark"}
Cleans(t) == t.page = "cleanup" /\ t.pc \in {"dryrun", "delete"}
Grants(t) == t.pc \in {"grant", "put", "revoke", "remove", "verify"}
Drafting(t) == t.page \in {"create", "edit"}

\* What a tab holds is of the kind that its page and its request go by: a form
\* that was submitted is valid, and who decides or asks is a user.
Fits(t) ==
  /\ t.pc = "closed" \/ t.page \in Pages
  /\ t.page \in {"create", "edit", "delete", "register"} => t.id \in TemplateIds
  /\ Drafting(t) => IsList(t.rows) /\ (t.pc # "open" => ValidFields(Fields(t.rows)))
  /\ Holding(t) => IsApplication(Head(t.todo))
  /\ t.page \in {"review", "approveall", "tool"} => t.user \in Users
  /\ t.page = "tool" => t.id \in Tools
  /\ Decides(t) => t.page \in {"review", "approveall"}
  /\ Grants(t) => /\ t.page \in {"approveall", "reset"}
                  /\ t.todo \in Seq(Tools) /\ t.todo # << >>

TabsFit == \A c \in Tabs : Fits(tab[c])

\* What a tab of that state may go on to with what it holds.
May(t, pc) ==
  /\ pc \in {"trymark", "mark"} => Decides(t)
  /\ t.page = "cleanup" /\ pc \in {"dryrun", "delete"} => Cleans(t)
  /\ Drafting(t) /\ pc # "open" => ValidFields(Fields(t.rows))
  /\ t.page = "register" /\ pc \in {"dryrun", "create"} => Holding(t)
  /\ pc \in {"grant", "put", "revoke", "remove", "verify"} => Grants(t)

\* The tab takes on nothing new to decide on or to remove.
Quiet(c) ==
  /\ Fits(tab'[c])
  /\ Decides(tab'[c]) => Decides(tab[c]) /\ tab'[c].todo = tab[c].todo
  /\ Cleans(tab'[c]) => Cleans(tab[c]) /\ tab'[c].todo = tab[c].todo

LEMMA GotoQuiet ==
  ASSUME Shape, NEW c \in Tabs, Fits(tab[c]), NEW pc, Goto(c, pc),
         tab[c].pc # "closed", May(tab[c], pc)
  PROVE  Quiet(c)
<1>1. /\ tab'[c].pc = pc /\ tab'[c].page = tab[c].page /\ tab'[c].id = tab[c].id
      /\ tab'[c].user = tab[c].user
      /\ tab'[c].rows = tab[c].rows /\ tab'[c].todo = tab[c].todo
  BY GotoEffect
<1>2. Fits(tab'[c])
  BY <1>1 DEF Fits, May, Drafting, Holding, Decides, Grants
<1>3. QED
  BY <1>1, <1>2 DEF Quiet, May, Decides, Cleans

LEMMA FailsQuiet ==
  ASSUME Shape, NEW c \in Tabs, Fits(tab[c]), Fails(c), tab[c].pc # "closed"
  PROVE  Quiet(c)
<1>1. May(tab[c], "open")
  BY DEF May
<1>2. QED
  BY <1>1, GotoQuiet DEF Fails

LEMMA SucceedsQuiet ==
  ASSUME Shape, NEW c \in Tabs, Succeeds(c)
  PROVE  Quiet(c)
<1>1. tab'[c] = Closed
  BY DEF Succeeds, Shape
<1>2. Closed.pc = "closed" /\ Closed.page = "none"
  BY DEF Closed, None
<1>3. Fits(Closed) /\ ~Decides(Closed) /\ ~Cleans(Closed)
  BY <1>2 DEF Fits, Drafting, Holding, Decides, Cleans, Grants
<1>4. QED
  BY <1>1, <1>3 DEF Quiet

\* A page is opened at rest, or with a request that decides and removes nothing yet.
LEMMA OpensQuiet ==
  ASSUME Shape, NEW c \in Tabs, NEW page, Opens(c, page), Fits(page),
         page.pc \notin {"trymark", "mark", "dryrun", "delete"}
  PROVE  Quiet(c)
<1>1. tab'[c] = page
  BY DEF Opens, Shape
<1>2. QED
  BY <1>1 DEF Quiet, Decides, Cleans

\* A list stays one.
LEMMA ListIs ==
  ASSUME NEW s, NEW n \in Nat, s = [i \in DOMAIN s |-> s[i]], DOMAIN s = 1 .. n
  PROVE  IsList(s) /\ Len(s) = n
<1>1. s \in [1 .. n -> Range(s)]
  BY DEF Range
<1>2. s \in Seq(Range(s))
  BY <1>1, SeqDef
<1>3. QED
  BY <1>2, LenProperties DEF IsList

LEMMA ListOf ==
  ASSUME NEW S, NEW s \in Seq(S)
  PROVE  IsList(s)
<1>1. s \in [1 .. Len(s) -> S] /\ Len(s) \in Nat
  BY LenProperties
<1>2. s \in [1 .. Len(s) -> Range(s)]
  BY <1>1 DEF Range
<1>3. QED
  BY <1>1, <1>2, SeqDef DEF IsList

LEMMA SubIsList ==
  ASSUME NEW S, NEW s \in Seq(S), NEW m \in 1 .. Len(s) + 1, NEW n \in 0 .. Len(s)
  PROVE  SubSeq(s, m, n) \in Seq(S)
<1>1. Len(s) \in Nat /\ \A i \in 1 .. Len(s) : s[i] \in S
  BY LenProperties, ElementOfSeq
<1>2. m \in Int /\ n \in Int /\ \A i \in m .. n : s[i] \in S
  BY <1>1
<1>3. QED
  BY <1>2, SubSeqProperties

LEMMA RemoveIsList ==
  ASSUME NEW S, NEW s \in Seq(S), NEW i \in 1 .. Len(s)
  PROVE  RemoveAt(s, i) \in Seq(S) /\ Len(RemoveAt(s, i)) = Len(s) - 1
<1> DEFINE before == SubSeq(s, 1, i - 1)
           after == SubSeq(s, i + 1, Len(s))
<1>1. Len(s) \in Nat /\ \A j \in 1 .. Len(s) : s[j] \in S
  BY LenProperties, ElementOfSeq
<1>2. before \in Seq(S) /\ Len(before) = i - 1
  <2>1. 1 \in Int /\ i - 1 \in Int /\ \A j \in 1 .. i - 1 : s[j] \in S
    BY <1>1
  <2>2. Len(before) = IF 1 <= i - 1 THEN i - 1 - 1 + 1 ELSE 0
    BY <2>1, SubSeqProperties
  <2>3. before \in Seq(S)
    BY <2>1, SubSeqProperties
  <2>4. QED
    BY <1>1, <2>2, <2>3
<1>3. after \in Seq(S) /\ Len(after) = Len(s) - i
  <2>1. i + 1 \in Int /\ Len(s) \in Int /\ \A j \in i + 1 .. Len(s) : s[j] \in S
    BY <1>1
  <2>2. Len(after) = IF i + 1 <= Len(s) THEN Len(s) - (i + 1) + 1 ELSE 0
    BY <2>1, SubSeqProperties
  <2>3. after \in Seq(S)
    BY <2>1, SubSeqProperties
  <2>4. QED
    BY <1>1, <2>2, <2>3
<1> HIDE DEF before, after
<1>4. before \o after \in Seq(S) /\ Len(before \o after) = Len(before) + Len(after)
  BY <1>2, <1>3, ConcatProperties
<1>5. Len(before \o after) = Len(s) - 1
  BY <1>1, <1>2, <1>3, <1>4
<1>6. RemoveAt(s, i) = before \o after
  BY DEF RemoveAt, before, after
<1>7. QED
  BY <1>4, <1>5, <1>6

LEMMA InsertIsList ==
  ASSUME NEW S, NEW s \in Seq(S), NEW i \in 1 .. Len(s) + 1, NEW e \in S
  PROVE  InsertAt(s, i, e) \in Seq(S)
<1>1. Len(s) \in Nat
  BY LenProperties
<1>2. SubSeq(s, 1, i - 1) \in Seq(S) /\ SubSeq(s, i, Len(s)) \in Seq(S)
  BY <1>1, SubIsList
<1>3. <<e>> \in Seq(S)
  OBVIOUS
<1>4. QED
  BY <1>2, <1>3, ConcatProperties DEF InsertAt

-----------------------------------------------------------------------------

LEMMA RowsQuiet ==
  ASSUME Shape, NEW c \in Tabs, Fits(tab[c]), Editing(c), NEW rows, NEW nextKey,
         IsList(rows),
         \/ tab' = [tab EXCEPT ![c].rows = rows]
         \/ tab' = [tab EXCEPT ![c].rows = rows, ![c].nextKey = nextKey]
  PROVE  Quiet(c)
<1>1. \/ tab'[c] = [tab[c] EXCEPT !.rows = rows]
      \/ tab'[c] = [tab[c] EXCEPT !.rows = rows, !.nextKey = nextKey]
  BY DEF Shape
<1>2. DOMAIN tab[c] = TabFields /\ tab[c].pc = "open" /\ Drafting(tab[c])
  BY ClosedFields DEF Shape, Editing, Drafting
<1>3. /\ tab'[c].pc = "open" /\ tab'[c].page = tab[c].page /\ tab'[c].id = tab[c].id
      /\ tab'[c].rows = rows
  BY <1>1, <1>2, HasFields
<1>4. tab[c].page \in Pages /\ tab[c].id \in TemplateIds
  BY <1>2 DEF Fits, Drafting
<1>5. Fits(tab'[c])
  BY <1>2, <1>3, <1>4 DEF Fits, Drafting, Holding, Decides, Grants
<1>6. QED
  BY <1>3, <1>5 DEF Quiet, Decides, Cleans

LEMMA ListLike ==
  ASSUME NEW s, IsList(s), NEW t, DOMAIN t = DOMAIN s, t = [j \in DOMAIN t |-> t[j]]
  PROVE  IsList(t) /\ Len(t) = Len(s)
<1>1. Len(s) \in Nat /\ DOMAIN t = 1 .. Len(s)
  BY LenProperties DEF IsList
<1>2. QED
  BY <1>1, ListIs

LEMMA EditsQuiet ==
  ASSUME Shape, NEW c \in Tabs, Fits(tab[c]),
         \/ AddField(c) \/ MoveField(c) \/ RemoveField(c) \/ SetLabel(c) \/ ToggleRequired(c)
         \/ SetType(c) \/ AddOption(c) \/ SetOption(c) \/ RemoveOption(c)
  PROVE  Quiet(c)
<1> DEFINE rows == tab[c].rows
           n == Len(rows)
<1>1. Editing(c)
  BY DEF AddField, MoveField, RemoveField, SetLabel, ToggleRequired, SetType, AddOption,
         SetOption, RemoveOption, EditsRow, Edits
<1>2. rows \in Seq(Range(rows)) /\ n \in Nat /\ DOMAIN rows = 1 .. n
  BY <1>1, LenProperties DEF Editing, Fits, Drafting, IsList
<1>3. ASSUME NEW new, IsList(new), Edits(c, new)
      PROVE  Quiet(c)
  BY <1>1, <1>3, RowsQuiet DEF Edits
<1>4. ASSUME NEW i, NEW field, EditsRow(c, i, field)
      PROVE  Quiet(c)
  <2> DEFINE new == [j \in DOMAIN rows |-> IF rows[j].key = rows[i].key THEN field ELSE rows[j]]
  <2>1. IsList(rows)
    BY <1>2 DEF IsList
  <2>2. Edits(c, new)
    BY <1>4 DEF EditsRow
  <2>3. DOMAIN new = DOMAIN rows /\ new = [j \in DOMAIN new |-> new[j]]
    OBVIOUS
  <2> HIDE DEF new
  <2>4. IsList(new)
    BY <2>1, <2>3, ListLike
  <2>5. QED
    BY <1>3, <2>2, <2>4
<1>5. CASE AddField(c)
  <2>1. PICK row, nextKey :
          tab' = [tab EXCEPT ![c].rows = Append(@, row), ![c].nextKey = nextKey]
    BY <1>5 DEF AddField, Shape
  <2>2. tab' = [tab EXCEPT ![c].rows = Append(rows, row), ![c].nextKey = nextKey]
    BY <2>1 DEF Shape
  <2>3. rows \in Seq(Range(rows) \cup {row})
    BY <1>2, SeqMonotonic
  <2>4. Append(rows, row) \in Seq(Range(rows) \cup {row})
    BY <2>3, AppendProperties
  <2>5. IsList(Append(rows, row))
    BY <2>4, ListOf
  <2>6. QED
    BY <1>1, <2>2, <2>5, RowsQuiet
<1>6. CASE MoveField(c)
  <2>1. PICK source \in DOMAIN rows, target \in DOMAIN rows :
          Edits(c, InsertAt(RemoveAt(rows, source), target, rows[source]))
    BY <1>6 DEF MoveField
  <2>2. source \in 1 .. n /\ target \in 1 .. n /\ rows[source] \in Range(rows)
    BY <1>2, <2>1 DEF Range
  <2>3. /\ RemoveAt(rows, source) \in Seq(Range(rows))
        /\ Len(RemoveAt(rows, source)) = n - 1
    BY <1>2, <2>2, RemoveIsList
  <2>4. target \in 1 .. Len(RemoveAt(rows, source)) + 1
    BY <1>2, <2>2, <2>3
  <2>5. InsertAt(RemoveAt(rows, source), target, rows[source]) \in Seq(Range(rows))
    BY <2>2, <2>3, <2>4, InsertIsList
  <2>6. QED
    BY <1>3, <2>1, <2>5, ListOf
<1>7. CASE RemoveField(c)
  <2>1. PICK i \in DOMAIN rows : Edits(c, RemoveAt(rows, i))
    BY <1>7 DEF RemoveField
  <2>2. RemoveAt(rows, i) \in Seq(Range(rows))
    BY <1>2, <2>1, RemoveIsList
  <2>3. QED
    BY <1>3, <2>1, <2>2, ListOf
<1>8. ASSUME SetLabel(c) \/ ToggleRequired(c) \/ SetType(c) \/ AddOption(c) \/ SetOption(c)
             \/ RemoveOption(c)
      PROVE  Quiet(c)
  BY <1>4, <1>8 DEF SetLabel, ToggleRequired, SetType, AddOption, SetOption, RemoveOption
<1>9. QED
  BY <1>5, <1>6, <1>7, <1>8

-----------------------------------------------------------------------------

Numbered(store, max) == \E n \in Nat : n <= max /\ DOMAIN store = 1 .. n

StoresFit ==
  /\ DOMAIN templates \subseteq TemplateIds
  /\ \A t \in DOMAIN templates : IsTemplate(templates[t]) /\ IsList(templates[t].form)
  /\ \A a \in DOMAIN applications : IsApplication(applications[a])
  /\ \A r \in DOMAIN requests : IsRequest(requests[r])
  /\ Numbered(requests, MaxRequests) /\ Numbered(shown, MaxApplications)
  /\ members \subseteq Tools \X Users

\* The forms that a dialog reads and sends are lists as the stored one is.
LEMMA KeyedIsList ==
  ASSUME NEW form, IsList(form)
  PROVE  IsList(Keyed(form))
<1> DEFINE rows == Keyed(form)
<1>1. DOMAIN rows = DOMAIN form /\ rows = [i \in DOMAIN rows |-> rows[i]]
  BY DEF Keyed
<1> HIDE DEF rows
<1>2. IsList(rows)
  BY <1>1, ListLike
<1>3. QED
  BY <1>2 DEF rows

LEMMA FieldsIsList ==
  ASSUME NEW rows, IsList(rows)
  PROVE  IsList(Fields(rows))
<1> DEFINE form == Fields(rows)
<1>1. DOMAIN form = DOMAIN rows /\ form = [i \in DOMAIN form |-> form[i]]
  BY DEF Fields
<1> HIDE DEF form
<1>2. IsList(form)
  BY <1>1, ListLike
<1>3. QED
  BY <1>2 DEF form

LEMMA LabelsAre ==
  ASSUME NEW form, IsList(form), ValidFields(form)
  PROVE  Len(Labels(form)) <= MaxFields /\ Blank \notin Range(Labels(form))
<1> DEFINE labels == Labels(form)
<1>1. DOMAIN labels = DOMAIN form /\ labels = [i \in DOMAIN labels |-> labels[i]]
  BY DEF Labels
<1>2. \A i \in DOMAIN form : labels[i] = form[i].label /\ form[i].label # Blank
  BY DEF Labels, ValidFields
<1> HIDE DEF labels
<1>3. Len(labels) = Len(form)
  BY <1>1, ListLike
<1>4. Blank \notin Range(labels)
  BY <1>1, <1>2 DEF Range
<1>5. QED
  BY <1>3, <1>4 DEF labels, ValidFields

LEMMA DraftsQuiet ==
  ASSUME Shape, StoresFit, NEW c \in Tabs, Fits(tab[c]), Drafts(c)
  PROVE  Quiet(c)
<1>1. CASE OpenCreate(c)
  <2>1. PICK t \in TemplateIds :
          Opens(c, [Closed EXCEPT !.pc = "open", !.page = "create", !.id = t])
    BY <1>1 DEF OpenCreate
  <2> DEFINE page == [Closed EXCEPT !.pc = "open", !.page = "create", !.id = t]
  <2>2. page.page = "create" /\ page.pc = "open" /\ page.id = t /\ page.rows = Closed.rows
    BY HasFields, ClosedFields
  <2>3. Opens(c, page)
    BY <2>1
  <2> HIDE DEF page
  <2>4. IsList(Closed.rows)
    <3>1. Closed.rows = << >> /\ << >> \in Seq({})
      BY DEF Closed
    <3>2. QED
      BY <3>1, ListOf
  <2>5. Fits(page)
    BY <2>2, <2>4 DEF Fits, Pages, Drafting, Holding, Decides, Grants
  <2>6. QED
    BY <2>2, <2>3, <2>5, OpensQuiet
<1>2. CASE OpenEdit(c)
  <2>1. PICK t \in DOMAIN templates :
          Opens(c, [Closed EXCEPT !.pc = "open", !.page = "edit", !.id = t,
                                  !.version = templates[t].version,
                                  !.rows = Keyed(templates[t].form),
                                  !.nextKey = Len(templates[t].form) + 1])
    BY <1>2 DEF OpenEdit
  <2> DEFINE page == [Closed EXCEPT !.pc = "open", !.page = "edit", !.id = t,
                                    !.version = templates[t].version,
                                    !.rows = Keyed(templates[t].form),
                                    !.nextKey = Len(templates[t].form) + 1]
  <2>2. /\ page.page = "edit" /\ page.pc = "open" /\ page.id = t
        /\ page.rows = Keyed(templates[t].form)
    BY HasFields, ClosedFields
  <2>3. Opens(c, page)
    BY <2>1
  <2> HIDE DEF page
  <2>4. IsList(page.rows) /\ t \in TemplateIds
    BY <2>1, <2>2, KeyedIsList DEF StoresFit
  <2>5. Fits(page)
    BY <2>2, <2>4 DEF Fits, Pages, Drafting, Holding, Decides, Grants
  <2>6. QED
    BY <2>2, <2>3, <2>5, OpensQuiet
<1>3. CASE SubmitTemplate(c)
  <2>1. /\ tab[c].pc = "open" /\ Drafting(tab[c]) /\ ValidFields(Fields(tab[c].rows))
        /\ Goto(c, "dryrun") \/ Goto(c, "get")
    BY <1>3 DEF SubmitTemplate, Editing, Drafting
  <2>2. May(tab[c], "dryrun") /\ May(tab[c], "get")
    BY <2>1 DEF May, Drafting
  <2>3. QED
    BY <2>1, <2>2, GotoQuiet
<1>4. QED
  BY <1>1, <1>2, <1>3, EditsQuiet DEF Drafts

LEMMA TemplatesQuiet ==
  ASSUME Shape, StoresFit, NEW c \in Tabs, Fits(tab[c]), TemplateSteps(c)
  PROVE  Quiet(c)
<1>1. CASE ConfirmDelete(c)
  <2>1. PICK t \in DOMAIN templates :
          Opens(c, [Closed EXCEPT !.pc = "get", !.page = "delete", !.id = t])
    BY <1>1 DEF ConfirmDelete
  <2> DEFINE page == [Closed EXCEPT !.pc = "get", !.page = "delete", !.id = t]
  <2>2. page.page = "delete" /\ page.pc = "get" /\ page.id = t
    BY HasFields, ClosedFields
  <2>3. Opens(c, page)
    BY <2>1
  <2> HIDE DEF page
  <2>4. Fits(page)
    BY <2>1, <2>2 DEF StoresFit, Fits, Pages, Drafting, Holding, Decides, Grants
  <2>5. QED
    BY <2>2, <2>3, <2>4, OpensQuiet
<1>2. ASSUME \/ DryRunTemplate(c) \/ CreateTemplate(c) \/ GetForUpdate(c) \/ DryRunPatch(c)
             \/ PatchTemplate(c) \/ GetForDelete(c) \/ DeleteTemplate(c)
      PROVE  Quiet(c)
  <2>1. /\ tab[c].pc # "closed" /\ tab[c].pc # "open"
        /\ tab[c].page \in {"create", "edit", "delete"}
        /\ \/ Fails(c) \/ Succeeds(c)
           \/ \E pc \in {"create", "trypatch", "patch", "dryrun", "delete"} : Goto(c, pc)
    BY <1>2 DEF DryRunTemplate, CreateTemplate, GetForUpdate, DryRunPatch, PatchTemplate,
                GetForDelete, DeleteTemplate, At
  <2>2. \A pc \in {"create", "trypatch", "patch", "dryrun", "delete"} : May(tab[c], pc)
    BY <2>1 DEF May, Fits, Drafting
  <2>3. QED
    BY <2>1, <2>2, FailsQuiet, SucceedsQuiet, GotoQuiet
<1>3. QED
  BY <1>1, <1>2 DEF TemplateSteps

LEMMA NewApplicationIs ==
  ASSUME NEW id \in TemplateIds, NEW t, IsTemplate(t), IsList(t.form)
  PROVE  IsApplication(NewApplication(id, t))
<1> DEFINE a == NewApplication(id, t)
<1>1. /\ a.template = id /\ a.version = t.version /\ a.labels = Labels(t.form)
      /\ a.status = "pending" /\ a.by = None
  BY DEF NewApplication
<1> HIDE DEF a
<1>2. t.version \in Nat \ {0} /\ ValidFields(t.form)
  BY DEF IsTemplate
<1>3. Len(a.labels) <= MaxFields /\ Blank \notin Range(a.labels)
  BY <1>1, <1>2, LabelsAre
<1>4. None \notin Users
  BY SeedAssumption
<1>5. IsApplication(a)
  BY <1>1, <1>2, <1>3, <1>4 DEF IsApplication
<1>6. QED
  BY <1>5 DEF a

\* The dialog of an application, up to its storing.
LEMMA ApplyingQuiet ==
  ASSUME Shape, StoresFit, NEW c \in Tabs, Fits(tab[c]),
         \/ OpenRegister(c) \/ SubmitApplication(c) \/ CheckAnswers(c)
         \/ DryRunApplication(c) \/ CreateApplication(c)
  PROVE  Quiet(c)
<1>1. CASE OpenRegister(c)
  <2>1. PICK t \in DOMAIN templates :
          Opens(c, [Closed EXCEPT !.pc = "open", !.page = "register", !.id = t,
                                  !.version = templates[t].version,
                                  !.rows = templates[t].form])
    BY <1>1 DEF OpenRegister
  <2> DEFINE page == [Closed EXCEPT !.pc = "open", !.page = "register", !.id = t,
                                    !.version = templates[t].version,
                                    !.rows = templates[t].form]
  <2>2. page.page = "register" /\ page.pc = "open" /\ page.id = t
    BY HasFields, ClosedFields
  <2>3. Opens(c, page)
    BY <2>1
  <2> HIDE DEF page
  <2>4. Fits(page)
    BY <2>1, <2>2 DEF StoresFit, Fits, Pages, Drafting, Holding, Decides, Grants
  <2>5. QED
    BY <2>2, <2>3, <2>4, OpensQuiet
<1>2. CASE SubmitApplication(c)
  <2>1. PICK answers : tab' = [tab EXCEPT ![c].pc = "get", ![c].answers = answers]
    BY <1>2 DEF SubmitApplication
  <2>2. tab[c].page = "register" /\ DOMAIN tab[c] = TabFields
    BY <1>2, ClosedFields DEF SubmitApplication, At, Shape
  <2>3. tab'[c] = [tab[c] EXCEPT !.pc = "get", !.answers = answers]
    BY <2>1 DEF Shape
  <2>4. /\ tab'[c].pc = "get" /\ tab'[c].page = "register" /\ tab'[c].id = tab[c].id
    BY <2>2, <2>3, HasFields, HasOtherFields
  <2>5. Fits(tab'[c])
    BY <2>2, <2>4 DEF Fits, Pages, Drafting, Holding, Decides, Grants
  <2>6. QED
    BY <2>4, <2>5 DEF Quiet, Decides, Cleans
<1>3. CASE CheckAnswers(c)
  <2> DEFINE id == tab[c].id
             t == templates[id]
  <2>1. CASE Fails(c)
    BY <1>3, <2>1, FailsQuiet DEF CheckAnswers, At
  <2>2. CASE /\ id \in DOMAIN templates
             /\ tab' = [tab EXCEPT ![c].pc = "dryrun",
                                   ![c].todo = <<NewApplication(id, t)>>]
    <3>1. PICK todo : /\ todo = <<NewApplication(id, t)>>
                      /\ tab' = [tab EXCEPT ![c].pc = "dryrun", ![c].todo = todo]
      BY <2>2
    <3>2. tab[c].page = "register"
      BY <1>3 DEF CheckAnswers, At
    <3>3. /\ tab'[c].pc = "dryrun" /\ tab'[c].page = "register" /\ tab'[c].id = id
          /\ tab'[c].todo = todo
      <4>1. DOMAIN tab[c] = TabFields
        BY ClosedFields DEF Shape
      <4>2. tab'[c] = [tab[c] EXCEPT !.pc = "dryrun", !.todo = todo]
        BY <3>1 DEF Shape
      <4>3. QED
        BY <3>2, <4>1, <4>2, HasFields
    <3>4. id \in TemplateIds /\ IsTemplate(t) /\ IsList(t.form)
      BY <2>2 DEF StoresFit
    <3>5. IsApplication(NewApplication(id, t))
      BY <3>4, NewApplicationIs
    <3>6. Head(todo) = NewApplication(id, t)
      BY <3>1
    <3>7. Fits(tab'[c])
      BY <3>3, <3>4, <3>5, <3>6 DEF Fits, Pages, Drafting, Decides, Grants
    <3>8. QED
      BY <3>3, <3>7 DEF Quiet, Decides, Cleans
  <2>3. QED
    BY <1>3, <2>1, <2>2 DEF CheckAnswers
<1>4. CASE DryRunApplication(c)
  <2>1. /\ tab[c].page = "register" /\ tab[c].pc = "dryrun" /\ Goto(c, "create")
    BY <1>4 DEF DryRunApplication, At
  <2>2. May(tab[c], "create")
    BY <2>1 DEF May, Drafting, Holding
  <2>3. QED
    BY <2>1, <2>2, GotoQuiet
<1>5. CASE CreateApplication(c)
  BY <1>5, SucceedsQuiet DEF CreateApplication
<1>6. QED
  BY <1>1, <1>2, <1>3, <1>4, <1>5

\* Reviews and removals that take on nothing new.
LEMMA ReviewsQuiet ==
  ASSUME Shape, StoresFit, NEW c \in Tabs, Fits(tab[c]),
         \/ OpenReview(c) \/ PressApprove(c) \/ DryRunMark(c)
         \/ ConfirmCleanup(c) \/ DryRunCleanup(c) \/ DeleteApproved(c)
  PROVE  Quiet(c)
<1>1. CASE OpenReview(c)
  <2>1. PICK a : \E u \in Users :
          Opens(c, [Closed EXCEPT !.pc = "open", !.page = "review", !.user = u, !.item = a])
    BY <1>1 DEF OpenReview
  <2>2. PICK u \in Users :
          Opens(c, [Closed EXCEPT !.pc = "open", !.page = "review", !.user = u, !.item = a])
    BY <2>1
  <2> DEFINE page == [Closed EXCEPT !.pc = "open", !.page = "review", !.user = u, !.item = a]
  <2>3. page.page = "review" /\ page.pc = "open" /\ page.user = u
    BY HasFields, HasOtherFields, ClosedFields
  <2>4. Opens(c, page)
    BY <2>2
  <2> HIDE DEF page
  <2>5. Fits(page)
    BY <2>3 DEF Fits, Pages, Drafting, Holding, Decides, Grants
  <2>6. QED
    BY <2>3, <2>4, <2>5, OpensQuiet
<1>2. CASE PressApprove(c) \/ DryRunMark(c)
  <2>1. /\ tab[c].pc # "closed"
        /\ \/ Fails(c)
           \/ tab[c].page = "review" /\ Goto(c, "get")
           \/ tab[c].pc = "trymark" /\ Goto(c, "mark")
    BY <1>2 DEF PressApprove, DryRunMark, At
  <2>2. tab[c].page = "review" => May(tab[c], "get")
    BY DEF May, Drafting
  <2>3. tab[c].pc = "trymark" => May(tab[c], "mark")
    BY DEF May, Drafting, Fits, Decides
  <2>4. QED
    BY <2>1, <2>2, <2>3, FailsQuiet, GotoQuiet
<1>3. CASE ConfirmCleanup(c)
  <2> DEFINE page == [Closed EXCEPT !.pc = "list", !.page = "cleanup"]
  <2>1. page.page = "cleanup" /\ page.pc = "list"
    BY HasFields, ClosedFields
  <2>2. Opens(c, page)
    BY <1>3 DEF ConfirmCleanup
  <2> HIDE DEF page
  <2>3. Fits(page)
    BY <2>1 DEF Fits, Pages, Drafting, Holding, Decides, Grants
  <2>4. QED
    BY <2>1, <2>2, <2>3, OpensQuiet
<1>4. CASE DryRunCleanup(c) \/ DeleteApproved(c)
  <2>1. /\ tab[c].page = "cleanup" /\ tab[c].pc \in {"dryrun", "delete"}
        /\ Fails(c) \/ Succeeds(c) \/ Goto(c, "delete")
    BY <1>4 DEF DryRunCleanup, DeleteApproved, At
  <2>2. May(tab[c], "delete") /\ tab[c].pc # "closed"
    BY <2>1 DEF May, Drafting, Cleans
  <2>3. QED
    BY <2>1, <2>2, FailsQuiet, SucceedsQuiet, GotoQuiet
<1>5. QED
  BY <1>1, <1>2, <1>3, <1>4

LEMMA ToolsListed == SetToSeq(Tools) \in Seq(Tools) /\ SetToSeq(Tools) # << >>
<1> DEFINE n == Cardinality(Tools)
<1>1. n \in Nat /\ ExistsBijection(1 .. n, Tools)
  BY SeedAssumption, FS_CardinalityType
<1>2. PICK f \in [1 .. n -> Tools] : IsInjective(f)
  BY <1>1 DEF ExistsBijection, Bijection, Injection
<1>3. SetToSeq(Tools) \in [1 .. n -> Tools]
  BY <1>2 DEF SetToSeq
<1>4. n # 0
  BY WorkflowAssumption, SeedAssumption, FS_EmptySet
<1> HIDE DEF n
<1>5. SetToSeq(Tools) \in Seq(Tools) /\ DOMAIN SetToSeq(Tools) = 1 .. n
  BY <1>1, <1>3, SeqDef
<1>6. 1 \in 1 .. n
  BY <1>1, <1>4
<1>7. QED
  BY <1>5, <1>6, DOMAIN << >> = {}

\* The role list moves on.
LEMMA GrantsQuiet ==
  ASSUME Shape, NEW c \in Tabs, Fits(tab[c]), tab[c].page \in {"approveall", "reset"},
         NEW pc \in {"grant", "revoke"}, NEW todo \in Seq(Tools), todo # << >>,
         tab' = [tab EXCEPT ![c].pc = pc, ![c].todo = todo]
  PROVE  Quiet(c)
<1>1. /\ tab'[c].pc = pc /\ tab'[c].page = tab[c].page /\ tab'[c].user = tab[c].user
      /\ tab'[c].todo = todo
  <2>1. DOMAIN tab[c] = TabFields
    BY ClosedFields DEF Shape
  <2>2. tab'[c] = [tab[c] EXCEPT !.pc = pc, !.todo = todo]
    BY DEF Shape
  <2>3. QED
    BY <2>1, <2>2, HasFields
<1>2. Fits(tab'[c])
  BY <1>1 DEF Fits, Pages, Drafting, Holding, Decides, Grants
<1>3. QED
  BY <1>1, <1>2 DEF Quiet, Decides, Cleans

LEMMA NextRoleQuiet ==
  ASSUME Shape, NEW c \in Tabs, Fits(tab[c]), tab[c].pc # "closed", Grants(tab[c]),
         \/ NextGrant(c) /\ tab[c].page = "approveall"
         \/ NextRevoke(c) /\ tab[c].page = "reset"
  PROVE  Quiet(c)
<1> DEFINE todo == tab[c].todo
<1>1. todo \in Seq(Tools) /\ todo # << >>
  BY DEF Fits, Grants
<1>2. CASE Len(todo) = 1
  <2>1. Succeeds(c) \/ (tab[c].page = "approveall" /\ Goto(c, "listpending"))
    BY <1>2 DEF NextGrant, NextRevoke
  <2>2. tab[c].page = "approveall" => May(tab[c], "listpending")
    BY DEF May, Drafting
  <2>3. QED
    BY <2>1, <2>2, SucceedsQuiet, GotoQuiet
<1>3. CASE Len(todo) # 1
  <2>1. Tail(todo) \in Seq(Tools) /\ Len(Tail(todo)) = Len(todo) - 1 /\ Len(todo) \in Nat \ {0}
    BY <1>1, HeadTailProperties, EmptySeq
  <2>2. Tail(todo) # << >>
    <3>1. Len(Tail(todo)) # 0 /\ Len(<< >>) = 0
      BY <1>3, <2>1
    <3>2. QED
      BY <3>1
  <2>3. \/ tab' = [tab EXCEPT ![c].pc = "grant", ![c].todo = Tail(@)]
        \/ tab' = [tab EXCEPT ![c].pc = "revoke", ![c].todo = Tail(@)]
    BY <1>3 DEF NextGrant, NextRevoke
  <2>4. PICK pc \in {"grant", "revoke"} :
          tab' = [tab EXCEPT ![c].pc = pc, ![c].todo = Tail(todo)]
    BY <2>3 DEF Shape
  <2>5. PICK rest \in Seq(Tools) : rest # << >> /\ rest = Tail(todo)
    BY <2>1, <2>2
  <2>6. tab' = [tab EXCEPT ![c].pc = pc, ![c].todo = rest]
    BY <2>4, <2>5
  <2>7. tab[c].page \in {"approveall", "reset"}
    OBVIOUS
  <2>8. rest # << >>
    BY <2>5
  <2>9. QED
    BY <2>6, <2>7, <2>8, GrantsQuiet
<1>4. QED
  BY <1>2, <1>3

LEMMA DemoQuiet ==
  ASSUME Shape, StoresFit, NEW c \in Tabs, Fits(tab[c]), DemoSteps(c), ~ListPending(c)
  PROVE  Quiet(c)
<1>1. CASE PressApproveAll(c)
  <2>1. PICK u \in Users :
          Opens(c, [Closed EXCEPT !.pc = "grant", !.page = "approveall", !.user = u,
                                  !.todo = SetToSeq(Tools)])
    BY <1>1 DEF PressApproveAll
  <2> DEFINE page == [Closed EXCEPT !.pc = "grant", !.page = "approveall", !.user = u,
                                    !.todo = SetToSeq(Tools)]
  <2>2. /\ page.page = "approveall" /\ page.pc = "grant" /\ page.user = u
        /\ page.todo = SetToSeq(Tools)
    BY HasFields, ClosedFields
  <2>3. Opens(c, page)
    BY <2>1
  <2> HIDE DEF page
  <2>4. Fits(page)
    BY <2>2, ToolsListed DEF Fits, Pages, Drafting, Holding, Decides, Grants
  <2>5. QED
    BY <2>2, <2>3, <2>4, OpensQuiet
<1>2. CASE PressReset(c)
  <2> DEFINE page == [Closed EXCEPT !.pc = "revoke", !.page = "reset",
                                    !.todo = SetToSeq(Tools)]
  <2>1. page.page = "reset" /\ page.pc = "revoke" /\ page.todo = SetToSeq(Tools)
    BY HasFields, ClosedFields
  <2>2. Opens(c, page)
    BY <1>2 DEF PressReset
  <2> HIDE DEF page
  <2>3. Fits(page)
    BY <2>1, ToolsListed DEF Fits, Pages, Drafting, Holding, Decides, Grants
  <2>4. QED
    BY <2>1, <2>2, <2>3, OpensQuiet
<1>3. ASSUME \/ CheckMember(c) \/ PutMember(c) \/ VerifyMember(c)
             \/ CheckRevoked(c) \/ RemoveMember(c) \/ VerifyRevoked(c)
      PROVE  Quiet(c)
  <2>1. /\ tab[c].pc # "closed" /\ Grants(tab[c])
        /\ \/ Fails(c)
           \/ \E pc \in {"put", "verify", "remove"} : Goto(c, pc)
           \/ NextGrant(c) /\ tab[c].page = "approveall"
           \/ NextRevoke(c) /\ tab[c].page = "reset"
    BY <1>3 DEF CheckMember, PutMember, VerifyMember, CheckRevoked, RemoveMember,
                VerifyRevoked, At, Grants
  <2>2. tab[c].page \in {"approveall", "reset"}
    BY <2>1 DEF Fits
  <2>3. \A pc \in {"put", "verify", "remove"} : May(tab[c], pc)
    BY <2>1, <2>2 DEF May, Drafting
  <2>4. QED
    BY <2>1, <2>3, FailsQuiet, GotoQuiet, NextRoleQuiet
<1>4. QED
  BY <1>1, <1>2, <1>3 DEF DemoSteps

LEMMA RequestsQuiet ==
  ASSUME Shape, NEW c \in Tabs, Fits(tab[c]), RequestSteps(c)
  PROVE  Quiet(c)
<1>1. CASE PressRequest(c)
  <2>1. PICK t \in Tools, u \in Users :
          Opens(c, [Closed EXCEPT !.pc = "readiness", !.page = "tool", !.user = u, !.id = t])
    BY <1>1 DEF PressRequest
  <2> DEFINE page == [Closed EXCEPT !.pc = "readiness", !.page = "tool", !.user = u, !.id = t]
  <2>2. page.page = "tool" /\ page.pc = "readiness" /\ page.user = u /\ page.id = t
    BY HasFields, ClosedFields
  <2>3. Opens(c, page)
    BY <2>1
  <2> HIDE DEF page
  <2>4. Fits(page)
    BY <2>2 DEF Fits, Pages, Drafting, Holding, Decides, Grants
  <2>5. QED
    BY <2>2, <2>3, <2>4, OpensQuiet
<1>2. ASSUME CheckReadiness(c) \/ FindEquivalent(c) \/ DryRunRequest(c) \/ CreateRequest(c)
      PROVE  Quiet(c)
  <2>1. /\ tab[c].pc # "closed" /\ tab[c].page = "tool"
        /\ \/ Fails(c) \/ Succeeds(c)
           \/ \E pc \in {"list", "dryrun", "create"} : Goto(c, pc)
    BY <1>2 DEF CheckReadiness, FindEquivalent, DryRunRequest, CreateRequest, At
  <2>2. \A pc \in {"list", "dryrun", "create"} : May(tab[c], pc)
    BY <2>1 DEF May, Drafting
  <2>3. QED
    BY <2>1, <2>2, FailsQuiet, SucceedsQuiet, GotoQuiet
<1>3. QED
  BY <1>1, <1>2 DEF RequestSteps

-----------------------------------------------------------------------------
(* Decisions and removals                                                  *)

Orderly(list, ids) == list \in Seq(ids) /\ list # << >> /\ IsInjective(list)

\* Who decides has a list of applications, each once, that nobody has approved and
\* that nobody else decides on, but for those that crossed.
DecidersFit ==
  /\ \A c \in Tabs : Decides(tab[c]) =>
       /\ Orderly(tab[c].todo, DOMAIN shown)
       /\ Range(tab[c].todo) \cap WithStatus("approved") \subseteq crossed
  /\ \A c, d \in Tabs : c # d /\ Decides(tab[c]) /\ Decides(tab[d]) =>
       Range(tab[c].todo) \cap Range(tab[d].todo) \subseteq crossed

\* What is to be removed is approved, if it is still there.
CleanersFit ==
  \A c \in Tabs : Cleans(tab[c]) =>
    /\ Range(tab[c].todo) \subseteq DOMAIN shown
    /\ Range(tab[c].todo) \cap DOMAIN applications \subseteq WithStatus("approved")

LEMMA QuietKeeps ==
  ASSUME DecidersFit, CleanersFit, NEW c \in Tabs, Alone(c), Quiet(c),
         DOMAIN shown \subseteq DOMAIN shown', crossed \subseteq crossed',
         \A a \in DOMAIN shown \cap DOMAIN applications' :
           a \in DOMAIN applications /\ applications'[a].status = applications[a].status
  PROVE  DecidersFit' /\ CleanersFit'
<1>1. ASSUME NEW d \in Tabs
      PROVE  /\ Decides(tab'[d]) => Decides(tab[d]) /\ tab'[d].todo = tab[d].todo
             /\ Cleans(tab'[d]) => Cleans(tab[d]) /\ tab'[d].todo = tab[d].todo
  BY DEF Alone, Quiet
<1>2. ASSUME NEW d \in Tabs, Decides(tab'[d])
      PROVE  /\ Orderly(tab'[d].todo, DOMAIN shown')
             /\ Range(tab'[d].todo) \cap WithStatus("approved")' \subseteq crossed'
  <2> DEFINE todo == tab[d].todo
  <2>1. tab'[d].todo = todo /\ Orderly(todo, DOMAIN shown)
        /\ Range(todo) \cap WithStatus("approved") \subseteq crossed
    BY <1>1, <1>2 DEF DecidersFit
  <2> HIDE DEF todo
  <2>2. todo \in Seq(DOMAIN shown')
    BY <2>1, SeqMonotonic DEF Orderly
  <2>3. Range(todo) \subseteq DOMAIN shown
    BY <2>1, LenProperties, ElementOfSeq DEF Orderly, Range
  <2>4. Range(todo) \cap WithStatus("approved")' \subseteq WithStatus("approved")
    BY <2>3 DEF WithStatus
  <2>5. QED
    BY <2>1, <2>2, <2>4 DEF Orderly
<1>3. ASSUME NEW d \in Tabs, NEW e \in Tabs, d # e, Decides(tab'[d]), Decides(tab'[e])
      PROVE  Range(tab'[d].todo) \cap Range(tab'[e].todo) \subseteq crossed'
  BY <1>1, <1>3 DEF DecidersFit
<1>4. ASSUME NEW d \in Tabs, Cleans(tab'[d])
      PROVE  /\ Range(tab'[d].todo) \subseteq DOMAIN shown'
             /\ Range(tab'[d].todo) \cap DOMAIN applications' \subseteq WithStatus("approved")'
  BY <1>1, <1>4 DEF CleanersFit, WithStatus
<1>5. QED
  BY <1>2, <1>3, <1>4 DEF DecidersFit, CleanersFit

\* A tab takes on pending applications; those that others are deciding on cross.
LEMMA TakenOn ==
  ASSUME Shape, DecidersFit, CleanersFit, NEW c \in Tabs, Fits(tab[c]),
         tab[c].page \in {"review", "approveall"},
         NEW todo, Orderly(todo, WithStatus("pending")),
         tab' = [tab EXCEPT ![c].pc = "trymark", ![c].todo = todo],
         UNCHANGED <<applications, shown>>, crossed \subseteq crossed',
         \A a \in Range(todo) : Deciding(c, a) => a \in crossed'
  PROVE  Fits(tab'[c]) /\ DecidersFit' /\ CleanersFit'
<1>1. /\ tab'[c].pc = "trymark" /\ tab'[c].page = tab[c].page
      /\ tab'[c].user = tab[c].user /\ tab'[c].todo = todo
  <2>1. DOMAIN tab[c] = TabFields
    BY ClosedFields DEF Shape
  <2>2. tab'[c] = [tab[c] EXCEPT !.pc = "trymark", !.todo = todo]
    BY DEF Shape
  <2>3. QED
    BY <2>1, <2>2, HasFields
<1>2. \A d \in Tabs \ {c} : tab'[d] = tab[d]
  BY DEF Shape
<1>3. Fits(tab'[c])
  BY <1>1 DEF Fits, Pages, Drafting, Holding, Decides, Grants
<1>4. WithStatus("pending") \subseteq DOMAIN shown \ WithStatus("approved")
  BY DEF WithStatus, Shape
<1>5. todo \in Seq(DOMAIN shown) /\ Range(todo) \subseteq WithStatus("pending")
  BY <1>4, SeqMonotonic, LenProperties, ElementOfSeq DEF Orderly, Range
<1>6. WithStatus("approved")' = WithStatus("approved")
  BY DEF WithStatus
<1>7. ~Cleans(tab'[c])
  BY <1>1 DEF Cleans
<1>8. CleanersFit'
  BY <1>2, <1>6, <1>7 DEF CleanersFit
<1>9. ASSUME NEW d \in Tabs, Decides(tab'[d])
      PROVE  /\ Orderly(tab'[d].todo, DOMAIN shown)
             /\ Range(tab'[d].todo) \cap WithStatus("approved") \subseteq crossed'
  <2>1. CASE d = c
    BY <1>1, <1>4, <1>5, <2>1 DEF Orderly
  <2>2. CASE d # c
    BY <1>2, <1>9, <2>2 DEF DecidersFit
  <2>3. QED
    BY <2>1, <2>2
<1>10. ASSUME NEW d \in Tabs \ {c}, Decides(tab'[d])
       PROVE  Range(todo) \cap Range(tab'[d].todo) \subseteq crossed'
  BY <1>2, <1>10 DEF Deciding, Decides
<1>11. ASSUME NEW d \in Tabs, NEW e \in Tabs, d # e, Decides(tab'[d]), Decides(tab'[e])
       PROVE  Range(tab'[d].todo) \cap Range(tab'[e].todo) \subseteq crossed'
  <2>1. CASE d # c /\ e # c
    BY <1>2, <1>11, <2>1 DEF DecidersFit
  <2>2. CASE d = c
    BY <1>1, <1>10, <1>11, <2>2
  <2>3. CASE e = c
    BY <1>1, <1>10, <1>11, <2>3
  <2>4. QED
    BY <2>1, <2>2, <2>3
<1>12. DecidersFit'
  BY <1>6, <1>9, <1>11 DEF DecidersFit
<1>13. QED
  BY <1>3, <1>8, <1>12

\* The list of the applications with a status, the newest first.
LEMMA NewestFirstIs ==
  ASSUME Shape, StoresFit, NEW status, WithStatus(status) # {},
         NEW list \in NewestFirst(status)
  PROVE  Orderly(list, WithStatus(status))
<1> DEFINE ids == WithStatus(status)
           n == Cardinality(ids)
<1>1. PICK m \in Nat : DOMAIN shown = 1 .. m
  BY DEF StoresFit, Numbered
<1>2. IsFiniteSet(1 .. m) /\ ids \in SUBSET (1 .. m)
  BY <1>1, FS_Interval DEF Shape, WithStatus
<1>3. n \in Nat /\ n # 0
  BY <1>2, FS_Subset, FS_CardinalityType, FS_EmptySet
<1>4. list \in [1 .. n -> ids] /\ \A i, j \in 1 .. n : i # j => list[i] # list[j]
  BY DEF NewestFirst, SetToSeqs
<1> HIDE DEF n, ids
<1>5. list \in Seq(ids) /\ DOMAIN list = 1 .. n
  BY <1>3, <1>4, SeqDef
<1>6. list # << >>
  BY <1>3, <1>5, DOMAIN << >> = {}, 1 \in 1 .. n
<1>7. QED
  BY <1>4, <1>5, <1>6 DEF Orderly, IsInjective, ids

LEMMA GetApplicationFit ==
  ASSUME Shape, DecidersFit, CleanersFit, NEW c \in Tabs, Fits(tab[c]), GetApplication(c)
  PROVE  Fits(tab'[c]) /\ DecidersFit' /\ CleanersFit'
<1> DEFINE a == tab[c].item
<1>1. /\ tab[c].pc = "get" /\ tab[c].page = "review" /\ UNCHANGED <<applications, shown>>
      /\ crossed \subseteq crossed' /\ (Deciding(c, a) => a \in crossed')
  BY DEF GetApplication, At, stores
<1>2. CASE Fails(c) \/ Succeeds(c)
  <2>1. Alone(c)
    BY <1>1, <1>2, FailsHarmless, SucceedsHarmless
  <2>2. Quiet(c)
    BY <1>1, <1>2, FailsQuiet, SucceedsQuiet
  <2>3. QED
    BY <1>1, <2>1, <2>2, QuietKeeps DEF Quiet
<1>3. CASE /\ a \in WithStatus("pending")
           /\ tab' = [tab EXCEPT ![c].pc = "trymark", ![c].todo = <<a>>]
  <2>1. PICK todo : /\ todo = <<a>>
                    /\ tab' = [tab EXCEPT ![c].pc = "trymark", ![c].todo = todo]
    BY <1>3
  <2>2. Orderly(todo, WithStatus("pending")) /\ Range(todo) = {a}
    BY <1>3, <2>1 DEF Orderly, IsInjective, Range
  <2>3. \A b \in Range(todo) : Deciding(c, b) => b \in crossed'
    BY <1>1, <2>2
  <2>4. tab' = [tab EXCEPT ![c].pc = "trymark", ![c].todo = todo]
    BY <2>1
  <2>5. tab[c].page \in {"review", "approveall"}
    BY <1>1
  <2>6. QED
    BY <1>1, <2>2, <2>3, <2>4, <2>5, TakenOn
<1>4. QED
  BY <1>2, <1>3 DEF GetApplication, WithStatus, Shape

LEMMA ListPendingFit ==
  ASSUME Shape, StoresFit, DecidersFit, CleanersFit, NEW c \in Tabs, Fits(tab[c]),
         ListPending(c)
  PROVE  Fits(tab'[c]) /\ DecidersFit' /\ CleanersFit'
<1>1. /\ tab[c].pc = "listpending" /\ tab[c].page = "approveall"
      /\ UNCHANGED <<applications, shown>> /\ crossed \subseteq crossed'
      /\ \A a \in WithStatus("pending") : Deciding(c, a) => a \in crossed'
  BY DEF ListPending, At, stores
<1>2. CASE Fails(c) \/ Succeeds(c)
  <2>1. Alone(c)
    BY <1>1, <1>2, FailsHarmless, SucceedsHarmless
  <2>2. Quiet(c)
    BY <1>1, <1>2, FailsQuiet, SucceedsQuiet
  <2>3. QED
    BY <1>1, <2>1, <2>2, QuietKeeps DEF Quiet
<1>3. ASSUME WithStatus("pending") # {}, NEW todo \in NewestFirst("pending"),
             tab' = [tab EXCEPT ![c].pc = "trymark", ![c].todo = todo]
      PROVE  Fits(tab'[c]) /\ DecidersFit' /\ CleanersFit'
  <2>1. Orderly(todo, WithStatus("pending"))
    BY <1>3, NewestFirstIs
  <2>2. Range(todo) \subseteq WithStatus("pending")
    BY <2>1, LenProperties, ElementOfSeq DEF Orderly, Range
  <2>3. \A a \in Range(todo) : Deciding(c, a) => a \in crossed'
    BY <1>1, <2>2
  <2>4. tab[c].page \in {"review", "approveall"}
    BY <1>1
  <2>5. QED
    BY <1>1, <1>3, <2>1, <2>3, <2>4, TakenOn
<1>4. QED
  BY <1>2, <1>3 DEF ListPending

LEMMA ListApprovedFit ==
  ASSUME Shape, StoresFit, DecidersFit, CleanersFit, NEW c \in Tabs, Fits(tab[c]),
         ListApproved(c)
  PROVE  Fits(tab'[c]) /\ DecidersFit' /\ CleanersFit'
<1>1. /\ tab[c].pc = "list" /\ tab[c].page = "cleanup"
      /\ UNCHANGED <<applications, shown, crossed>>
  BY DEF ListApproved, At, stores, history
<1>2. CASE Fails(c) \/ Succeeds(c)
  <2>1. Alone(c)
    BY <1>1, <1>2, FailsHarmless, SucceedsHarmless
  <2>2. Quiet(c)
    BY <1>1, <1>2, FailsQuiet, SucceedsQuiet
  <2>3. QED
    BY <1>1, <2>1, <2>2, QuietKeeps DEF Quiet
<1>3. ASSUME WithStatus("approved") # {}, NEW todo \in NewestFirst("approved"),
             tab' = [tab EXCEPT ![c].pc = "dryrun", ![c].todo = todo]
      PROVE  Fits(tab'[c]) /\ DecidersFit' /\ CleanersFit'
  <2>1. Orderly(todo, WithStatus("approved"))
    BY <1>3, NewestFirstIs
  <2>2. Range(todo) \subseteq WithStatus("approved")
    BY <2>1, LenProperties, ElementOfSeq DEF Orderly, Range
  <2>3. tab'[c].pc = "dryrun" /\ tab'[c].page = tab[c].page /\ tab'[c].todo = todo
    <3>1. DOMAIN tab[c] = TabFields
      BY ClosedFields DEF Shape
    <3>2. tab'[c] = [tab[c] EXCEPT !.pc = "dryrun", !.todo = todo]
      BY <1>3 DEF Shape
    <3>3. QED
      BY <3>1, <3>2, HasFields
  <2>4. \A d \in Tabs \ {c} : tab'[d] = tab[d]
    BY <1>3 DEF Shape
  <2>5. Fits(tab'[c]) /\ ~Decides(tab'[c])
    BY <1>1, <2>3 DEF Fits, Pages, Drafting, Holding, Decides, Grants
  <2>6. /\ WithStatus("approved")' = WithStatus("approved")
        /\ WithStatus("approved") \subseteq DOMAIN shown
    BY <1>1 DEF WithStatus, Shape
  <2>7. DecidersFit'
    BY <1>1, <2>4, <2>5, <2>6 DEF DecidersFit
  <2>8. CleanersFit'
    BY <1>1, <2>2, <2>3, <2>4, <2>6 DEF CleanersFit
  <2>9. QED
    BY <2>5, <2>7, <2>8
<1>4. QED
  BY <1>2, <1>3 DEF ListApproved

\* Approving the first of the list.
LEMMA ApprovedIs ==
  ASSUME Shape, NEW a \in DOMAIN applications, NEW user,
         applications' = [applications EXCEPT ![a] = Approved(@, user)]
  PROVE  /\ DOMAIN applications' = DOMAIN applications
         /\ applications'[a].status = "approved" /\ applications'[a].by = user
         /\ applications'[a].template = applications[a].template
         /\ applications'[a].version = applications[a].version
         /\ applications'[a].labels = applications[a].labels
         /\ \A b \in DOMAIN applications \ {a} : applications'[b] = applications[b]
<1>1. DOMAIN applications[a] = ApplicationFields
  BY DEF Shape
<1>2. applications'[a] = [applications[a] EXCEPT !.status = "approved", !.by = user]
  BY DEF Approved
<1>3. /\ "status" \in ApplicationFields /\ "template" \in ApplicationFields
      /\ "labels" \in ApplicationFields /\ "by" \in ApplicationFields
      /\ "version" \in ApplicationFields
  BY DEF ApplicationFields
<1>4. QED
  BY <1>1, <1>2, <1>3

LEMMA RestIs ==
  ASSUME NEW S, NEW list \in Seq(S), IsInjective(list), list # << >>, Len(list) # 1
  PROVE  /\ Orderly(Tail(list), S)
         /\ Range(Tail(list)) \subseteq Range(list) \ {Head(list)}
<1>1. Len(list) \in Nat \ {0} /\ DOMAIN list = 1 .. Len(list)
  BY EmptySeq, LenProperties
<1>2. /\ Tail(list) \in Seq(S) /\ Len(Tail(list)) = Len(list) - 1
  BY HeadTailProperties
<1>3. /\ DOMAIN Tail(list) = 1 .. Len(list) - 1
      /\ \A i \in 1 .. Len(list) - 1 : Tail(list)[i] = list[i + 1]
      /\ Head(list) = list[1]
  BY <1>1, <1>2
<1>4. Tail(list) # << >>
  <2>1. 1 \in DOMAIN Tail(list)
    BY <1>1, <1>3
  <2>2. QED
    BY <2>1, DOMAIN << >> = {}
<1>5. IsInjective(Tail(list))
  <2>1. \A i, j \in 1 .. Len(list) - 1 : list[i + 1] = list[j + 1] => i + 1 = j + 1
    BY <1>1 DEF IsInjective
  <2>2. QED
    BY <1>1, <1>3, <2>1 DEF IsInjective
<1>6. \A i \in 1 .. Len(list) - 1 : /\ Tail(list)[i] \in Range(list)
                                    /\ Tail(list)[i] # Head(list)
  BY <1>1, <1>3 DEF IsInjective, Range
<1>7. QED
  BY <1>2, <1>3, <1>4, <1>5, <1>6 DEF Orderly, Range

LEMMA MarkApprovedFit ==
  ASSUME Shape, StoresFit, DecidersFit, CleanersFit, NEW c \in Tabs, Fits(tab[c]),
         MarkApproved(c)
  PROVE  Fits(tab'[c]) /\ DecidersFit' /\ CleanersFit'
<1> DEFINE todo == tab[c].todo
           a == Head(todo)
<1>1. /\ tab[c].pc = "mark" /\ Decides(tab[c]) /\ UNCHANGED <<shown, crossed>>
  BY DEF MarkApproved, Decides, history
<1>2. Orderly(todo, DOMAIN shown) /\ tab[c].page \in {"review", "approveall"}
  BY <1>1 DEF DecidersFit, Fits
<1>3. CASE Fails(c) /\ UNCHANGED applications
  BY <1>1, <1>3, FailsHarmless, FailsQuiet, QuietKeeps DEF Quiet
<1>4. CASE /\ a \in DOMAIN applications
           /\ applications' = [applications EXCEPT ![a] = Approved(@, tab[c].user)]
           /\ NextMark(c)
  <2>1. /\ DOMAIN applications' = DOMAIN applications
        /\ WithStatus("approved")' = WithStatus("approved") \cup {a}
    BY <1>4, ApprovedIs DEF WithStatus
  <2>2. a \in Range(todo)
    <3>1. todo \in Seq(DOMAIN shown) /\ todo # << >>
      BY <1>2 DEF Orderly
    <3>2. 1 \in DOMAIN todo /\ a = todo[1]
      BY <3>1, EmptySeq, LenProperties
    <3>3. QED
      BY <3>2 DEF Range
  <2>3. /\ \A d \in Tabs \ {c} : tab'[d] = tab[d]
        /\ \/ tab'[c] = Closed
           \/ /\ Len(todo) # 1
              /\ tab'[c].pc = "trymark" /\ tab'[c].page = tab[c].page
              /\ tab'[c].user = tab[c].user /\ tab'[c].todo = Tail(todo)
    <3>1. CASE Succeeds(c)
      BY <3>1 DEF Succeeds, Shape
    <3>2. CASE /\ Len(todo) # 1
               /\ tab' = [tab EXCEPT ![c].pc = "trymark", ![c].todo = Tail(@)]
      <4>1. DOMAIN tab[c] = TabFields
        BY ClosedFields DEF Shape
      <4>2. tab'[c] = [tab[c] EXCEPT !.pc = "trymark", !.todo = Tail(todo)]
        BY <3>2 DEF Shape
      <4>3. QED
        BY <3>2, <4>1, <4>2, HasFields DEF Shape
    <3>3. QED
      BY <1>4, <3>1, <3>2 DEF NextMark
  <2>4. Fits(tab'[c]) /\ ~Cleans(tab'[c])
    <3>1. CASE tab'[c] = Closed
      <4>1. Closed.pc = "closed" /\ Closed.page = "none"
        BY DEF Closed, None
      <4>2. QED
        BY <3>1, <4>1 DEF Fits, Drafting, Holding, Decides, Cleans, Grants
    <3>2. CASE tab'[c] # Closed
      BY <1>2, <2>3, <3>2 DEF Fits, Pages, Drafting, Holding, Decides, Cleans, Grants
    <3>3. QED
      BY <3>1, <3>2
  <2>5. Decides(tab'[c]) => /\ Orderly(tab'[c].todo, DOMAIN shown)
                            /\ Range(tab'[c].todo) \subseteq Range(todo) \ {a}
    <3>1. CASE tab'[c] = Closed
      BY <3>1, ClosedIs DEF Decides
    <3>2. CASE tab'[c] # Closed
      <4>1. Len(todo) # 1 /\ tab'[c].todo = Tail(todo)
        BY <2>3, <3>2
      <4>2. /\ Orderly(Tail(todo), DOMAIN shown)
            /\ Range(Tail(todo)) \subseteq Range(todo) \ {a}
        BY <1>2, <4>1, RestIs DEF Orderly
      <4>3. QED
        BY <4>1, <4>2
    <3>3. QED
      BY <3>1, <3>2
  <2>6. \A d \in Tabs \ {c} : Decides(tab[d]) /\ a \in Range(tab[d].todo) => a \in crossed
    BY <1>1, <2>2 DEF DecidersFit
  <2>7. CleanersFit'
    BY <1>1, <2>1, <2>3, <2>4 DEF CleanersFit
  <2>8. ASSUME NEW d \in Tabs, Decides(tab'[d])
        PROVE  /\ Orderly(tab'[d].todo, DOMAIN shown)
               /\ Range(tab'[d].todo) \cap (WithStatus("approved") \cup {a}) \subseteq crossed
    <3>1. CASE d = c
      BY <1>1, <2>5, <2>8, <3>1 DEF DecidersFit
    <3>2. CASE d # c
      BY <2>3, <2>6, <2>8, <3>2 DEF DecidersFit
    <3>3. QED
      BY <3>1, <3>2
  <2>9. ASSUME NEW d \in Tabs, NEW e \in Tabs, d # e, Decides(tab'[d]), Decides(tab'[e])
        PROVE  Range(tab'[d].todo) \cap Range(tab'[e].todo) \subseteq crossed
    <3>1. \A f \in Tabs : Decides(tab'[f]) =>
            Decides(tab[f]) /\ Range(tab'[f].todo) \subseteq Range(tab[f].todo)
      BY <1>1, <2>3, <2>5
    <3>2. QED
      BY <2>9, <3>1 DEF DecidersFit
  <2>10. DecidersFit'
    BY <1>1, <2>1, <2>8, <2>9 DEF DecidersFit
  <2>11. QED
    BY <2>4, <2>7, <2>10
<1>5. QED
  BY <1>3, <1>4 DEF MarkApproved

-----------------------------------------------------------------------------
(* What the stores keep                                                    *)

LEMMA StoresKept == StoresFit /\ UNCHANGED <<stores, shown>> => StoresFit'
BY DEF StoresFit, stores

\* The next number of a store.
LEMMA NextNumber ==
  ASSUME NEW store, NEW max \in Nat, Numbered(store, max), Cardinality(DOMAIN store) < max,
         NEW id, id = 1 + Cardinality(DOMAIN store), NEW document
  PROVE  /\ Numbered(Put(store, id, document), max) /\ id \notin DOMAIN store
         /\ DOMAIN Put(store, id, document) = DOMAIN store \cup {id}
         /\ Put(store, id, document)[id] = document
         /\ \A i \in DOMAIN store : Put(store, id, document)[i] = store[i]
<1>1. PICK n \in Nat : DOMAIN store = 1 .. n
  BY DEF Numbered
<1>2. Cardinality(1 .. n) = n
  BY FS_Interval
<1>3. id = n + 1 /\ n < max
  BY <1>1, <1>2
<1>4. DOMAIN Put(store, id, document) = DOMAIN store \cup {id}
  BY DEF Put
<1>5. DOMAIN store \cup {id} = 1 .. (n + 1) /\ id \notin DOMAIN store
  BY <1>1, <1>3
<1>6. Numbered(Put(store, id, document), max)
  <2>1. DOMAIN Put(store, id, document) = 1 .. (n + 1)
    BY <1>4, <1>5
  <2>2. n + 1 \in Nat /\ n + 1 <= max
    BY <1>2, <1>3, <1>1
  <2>3. QED
    BY <2>1, <2>2 DEF Numbered
<1>7. QED
  BY <1>4, <1>5, <1>6 DEF Put

LEMMA TemplatesStored ==
  ASSUME Shape, StoresFit, NEW c \in Tabs, Fits(tab[c]), TemplateSteps(c)
  PROVE  StoresFit' /\ UNCHANGED <<applications, shown>> /\ crossed \subseteq crossed'
<1>1. UNCHANGED <<applications, requests, members, shown, crossed>>
  BY DEF TemplateSteps, DryRunTemplate, CreateTemplate, GetForUpdate, DryRunPatch,
         PatchTemplate, ConfirmDelete, Opens, GetForDelete, DeleteTemplate, stores, history
<1>2. ASSUME UNCHANGED templates PROVE StoresFit'
  BY <1>1, <1>2, StoresKept DEF stores
<1>3. ASSUME NEW id, NEW t, templates' = Put(templates, id, t), id \in TemplateIds,
             IsTemplate(t), IsList(t.form)
      PROVE  StoresFit'
  <2>1. /\ DOMAIN templates' = DOMAIN templates \cup {id} /\ templates'[id] = t
        /\ \A i \in DOMAIN templates \ {id} : templates'[i] = templates[i]
    BY <1>3 DEF Put
  <2>2. QED
    BY <1>1, <1>3, <2>1 DEF StoresFit
<1>4. CASE CreateTemplate(c) \/ PatchTemplate(c)
  <2> DEFINE form == Fields(tab[c].rows)
  <2>1. /\ tab[c].id \in TemplateIds /\ IsList(tab[c].rows) /\ ValidFields(form)
        /\ tab[c].version \in Nat
    BY <1>4 DEF CreateTemplate, PatchTemplate, At, Fits, Drafting, Shape
  <2>2. IsList(form)
    BY <2>1, FieldsIsList
  <2> HIDE DEF form
  <2>3. /\ IsTemplate(NewTemplate(form)) /\ NewTemplate(form).form = form
        /\ IsTemplate(Updated(tab[c].version, form))
        /\ Updated(tab[c].version, form).form = form
    BY <2>1 DEF NewTemplate, Updated, IsTemplate
  <2>4. \/ UNCHANGED templates
        \/ templates' = Put(templates, tab[c].id, NewTemplate(form))
        \/ templates' = Put(templates, tab[c].id, Updated(tab[c].version, form))
    BY <1>4 DEF CreateTemplate, PatchTemplate, form
  <2>5. CASE UNCHANGED templates
    BY <1>1, <1>2, <2>5
  <2>6. CASE templates' = Put(templates, tab[c].id, NewTemplate(form))
    BY <1>1, <1>3, <2>1, <2>2, <2>3, <2>6
  <2>7. CASE templates' = Put(templates, tab[c].id, Updated(tab[c].version, form))
    BY <1>1, <1>3, <2>1, <2>2, <2>3, <2>7
  <2>8. QED
    BY <2>4, <2>5, <2>6, <2>7
<1>5. CASE DeleteTemplate(c)
  <2>1. UNCHANGED templates \/ templates' = Without(templates, {tab[c].id})
    BY <1>5 DEF DeleteTemplate
  <2>2. /\ DOMAIN templates' \subseteq DOMAIN templates
        /\ \A t \in DOMAIN templates' : templates'[t] = templates[t]
    BY <2>1 DEF Without
  <2>3. QED
    BY <1>1, <2>2 DEF StoresFit
<1>6. CASE /\ ~CreateTemplate(c) /\ ~PatchTemplate(c) /\ ~DeleteTemplate(c)
  <2>1. UNCHANGED templates
    BY <1>6 DEF TemplateSteps, DryRunTemplate, GetForUpdate, DryRunPatch,
                ConfirmDelete, Opens, GetForDelete, stores
  <2>2. QED
    BY <1>1, <1>2, <2>1
<1>7. QED
  BY <1>1, <1>4, <1>5, <1>6

LEMMA CreateApplicationFit ==
  ASSUME Shape, StoresFit, DecidersFit, CleanersFit, NEW c \in Tabs, Fits(tab[c]),
         CreateApplication(c)
  PROVE  StoresFit' /\ Fits(tab'[c]) /\ DecidersFit' /\ CleanersFit'
<1> DEFINE application == Head(tab[c].todo)
<1>1. PICK id : /\ id = 1 + Cardinality(DOMAIN shown)
                /\ Cardinality(DOMAIN shown) < MaxApplications
                /\ applications' = Put(applications, id, application)
                /\ shown' = Put(shown, id, Labels(tab[c].rows))
  BY DEF CreateApplication
<1>2. /\ UNCHANGED <<templates, requests, members, crossed>> /\ Succeeds(c)
      /\ Holding(tab[c])
  BY DEF CreateApplication, At, Holding
<1>3. IsApplication(application) /\ MaxApplications \in Nat
  BY <1>2, WorkflowAssumption DEF Fits
<1> HIDE DEF application
<1>4. /\ Numbered(shown', MaxApplications) /\ id \notin DOMAIN shown
      /\ DOMAIN shown' = DOMAIN shown \cup {id}
  BY <1>1, <1>3, NextNumber DEF StoresFit
<1>5. /\ DOMAIN applications' = DOMAIN applications \cup {id}
      /\ applications'[id] = application
      /\ \A a \in DOMAIN applications \ {id} : applications'[a] = applications[a]
  BY <1>1 DEF Put
<1>6. StoresFit'
  BY <1>2, <1>3, <1>4, <1>5 DEF StoresFit
<1>7. Alone(c) /\ Quiet(c)
  BY <1>2, SucceedsHarmless, SucceedsQuiet
<1>8. \A a \in DOMAIN shown \cap DOMAIN applications' :
        a \in DOMAIN applications /\ applications'[a].status = applications[a].status
  BY <1>4, <1>5 DEF Shape
<1>9. DecidersFit' /\ CleanersFit'
  BY <1>2, <1>4, <1>7, <1>8, QuietKeeps
<1>10. QED
  BY <1>6, <1>7, <1>9 DEF Quiet

LEMMA MarkApprovedStored ==
  ASSUME Shape, StoresFit, NEW c \in Tabs, Fits(tab[c]), MarkApproved(c)
  PROVE  StoresFit'
<1>1. UNCHANGED <<templates, requests, members, shown>> /\ Decides(tab[c])
  BY DEF MarkApproved, history, Decides
<1>2. CASE UNCHANGED applications
  BY <1>1, <1>2, StoresKept DEF stores
<1>3. CASE /\ Head(tab[c].todo) \in DOMAIN applications
           /\ applications' = [applications EXCEPT ![Head(tab[c].todo)] =
                                                   Approved(@, tab[c].user)]
  <2>1. PICK a \in DOMAIN applications :
          applications' = [applications EXCEPT ![a] = Approved(@, tab[c].user)]
    BY <1>3
  <2>2. /\ DOMAIN applications' = DOMAIN applications
        /\ applications'[a].status = "approved" /\ applications'[a].by = tab[c].user
        /\ applications'[a].template = applications[a].template
        /\ applications'[a].version = applications[a].version
        /\ applications'[a].labels = applications[a].labels
        /\ \A b \in DOMAIN applications \ {a} : applications'[b] = applications[b]
    BY <2>1, ApprovedIs
  <2>3. tab[c].user \in Users
    BY <1>1 DEF Fits
  <2>4. IsApplication(applications'[a])
    BY <2>2, <2>3 DEF StoresFit, IsApplication
  <2>5. QED
    BY <1>1, <2>2, <2>4 DEF StoresFit
<1>4. QED
  BY <1>2, <1>3 DEF MarkApproved

LEMMA DeleteApprovedFit ==
  ASSUME Shape, StoresFit, DecidersFit, CleanersFit, NEW c \in Tabs, Fits(tab[c]),
         DeleteApproved(c)
  PROVE  StoresFit' /\ Fits(tab'[c]) /\ DecidersFit' /\ CleanersFit'
<1>1. /\ UNCHANGED <<templates, requests, members, shown, crossed>>
      /\ applications' = Without(applications, Range(tab[c].todo))
      /\ tab[c].pc # "closed"
      /\ Fails(c) \/ Succeeds(c)
  BY DEF DeleteApproved, history, At
<1>2. /\ DOMAIN applications' \subseteq DOMAIN applications
      /\ \A a \in DOMAIN applications' : applications'[a] = applications[a]
  BY <1>1 DEF Without
<1>3. StoresFit'
  BY <1>1, <1>2 DEF StoresFit
<1>4. Alone(c) /\ Quiet(c)
  BY <1>1, FailsHarmless, FailsQuiet, SucceedsHarmless, SucceedsQuiet
<1>5. QED
  BY <1>1, <1>2, <1>3, <1>4, QuietKeeps DEF Quiet

LEMMA DemoStored ==
  ASSUME Shape, StoresFit, NEW c \in Tabs, Fits(tab[c]), DemoSteps(c)
  PROVE  StoresFit' /\ UNCHANGED <<applications, shown>> /\ crossed \subseteq crossed'
<1>1. UNCHANGED <<templates, applications, requests, shown>> /\ crossed \subseteq crossed'
  BY DEF DemoSteps, PressApproveAll, PressReset, Opens, CheckMember, PutMember,
         VerifyMember, ListPending, CheckRevoked, RemoveMember, VerifyRevoked, stores, history
<1>2. CASE PutMember(c)
  <2>1. Grants(tab[c]) /\ members' = members \cup {Membership(c)}
    BY <1>2 DEF PutMember, At, Grants
  <2>2. Head(tab[c].todo) \in Tools
    BY <2>1, HeadTailProperties DEF Fits
  <2>3. Membership(c) \in Tools \X Users
    BY <2>2, WorkflowAssumption DEF Membership
  <2>4. QED
    BY <1>1, <2>1, <2>3 DEF StoresFit
<1>3. CASE ~PutMember(c)
  <2>1. members' \subseteq members
    BY <1>3 DEF DemoSteps, PressApproveAll, PressReset, Opens, CheckMember,
       VerifyMember, ListPending, CheckRevoked, RemoveMember, VerifyRevoked, stores
  <2>2. QED
    BY <1>1, <2>1 DEF StoresFit
<1>4. QED
  BY <1>1, <1>2, <1>3

LEMMA RequestsStored ==
  ASSUME Shape, StoresFit, NEW c \in Tabs, Fits(tab[c]), RequestSteps(c)
  PROVE  StoresFit' /\ UNCHANGED <<applications, shown, crossed>>
<1>1. UNCHANGED <<templates, applications, members, shown, crossed>>
  BY DEF RequestSteps, PressRequest, Opens, CheckReadiness, FindEquivalent, DryRunRequest,
         CreateRequest, stores, history
<1>2. CASE CreateRequest(c)
  <2> DEFINE r == NewRequest(tab[c].id, tab[c].user)
  <2>1. tab[c].id \in Tools /\ tab[c].user \in Users
    BY <1>2 DEF CreateRequest, At, Fits
  <2>2. IsRequest(r)
    BY <2>1 DEF NewRequest, IsRequest
  <2> HIDE DEF r
  <2>3. PICK id : /\ id = 1 + Cardinality(DOMAIN requests)
                  /\ Cardinality(DOMAIN requests) < MaxRequests
                  /\ requests' = Put(requests, id, r)
    BY <1>2 DEF CreateRequest, r
  <2>4. /\ Numbered(requests', MaxRequests)
        /\ DOMAIN requests' = DOMAIN requests \cup {id}
        /\ requests'[id] = r
        /\ \A i \in DOMAIN requests : requests'[i] = requests[i]
    <3>1. Numbered(requests, MaxRequests) /\ MaxRequests \in Nat
      BY WorkflowAssumption DEF StoresFit
    <3>2. QED
      BY <2>3, <3>1, NextNumber
  <2>5. QED
    BY <1>1, <2>2, <2>4 DEF StoresFit
<1>3. CASE ~CreateRequest(c)
  BY <1>1, <1>3, StoresKept DEF RequestSteps, PressRequest, Opens, CheckReadiness,
     FindEquivalent, DryRunRequest, stores
<1>4. QED
  BY <1>1, <1>2, <1>3

-----------------------------------------------------------------------------

FitInv == StoresFit /\ TabsFit /\ DecidersFit /\ CleanersFit

LEMMA InitFit == Init => FitInv
<1> SUFFICES ASSUME Init PROVE FitInv
  OBVIOUS
<1>1. /\ \A c \in Tabs : tab[c] = Closed
      /\ applications = << >> /\ requests = << >> /\ shown = << >> /\ members = {}
  BY DEF Init
<1>2. Closed.pc = "closed" /\ Closed.page = "none"
  BY DEF Closed, None
<1>3. Fits(Closed) /\ ~Decides(Closed) /\ ~Cleans(Closed)
  BY <1>2 DEF Fits, Drafting, Holding, Decides, Cleans, Grants
<1>4. TabsFit /\ DecidersFit /\ CleanersFit
  BY <1>1, <1>3 DEF TabsFit, DecidersFit, CleanersFit
<1>5. ASSUME NEW t \in DOMAIN templates
      PROVE  t \in TemplateIds /\ IsTemplate(templates[t]) /\ IsList(templates[t].form)
  <2>1. PICK ids \in SUBSET TemplateIds : templates \in [ids -> {NewTemplate(f) : f \in Seed}]
    BY DEF Init
  <2>2. t \in TemplateIds /\ templates[t] \in {NewTemplate(f) : f \in Seed}
    BY <2>1
  <2>3. PICK f \in Seed : templates[t] = NewTemplate(f)
    BY <2>2
  <2>4. f \in Seq(Range(f)) /\ ValidFields(f)
    BY SeedAssumption
  <2>5. NewTemplate(f).version = 1 /\ NewTemplate(f).form = f
    BY DEF NewTemplate
  <2>6. QED
    BY <2>2, <2>3, <2>4, <2>5 DEF IsTemplate, IsList
<1>6. Numbered(requests, MaxRequests) /\ Numbered(shown, MaxApplications)
  <2>1. DOMAIN << >> = {} /\ 1 .. 0 = {}
    OBVIOUS
  <2>2. MaxRequests \in Nat /\ MaxApplications \in Nat
    BY WorkflowAssumption
  <2>3. 0 <= MaxRequests /\ 0 <= MaxApplications
    BY <2>2
  <2>4. QED
    BY <1>1, <2>1, <2>3 DEF Numbered
<1>7. DOMAIN << >> = {}
  OBVIOUS
<1>8. StoresFit
  BY <1>1, <1>5, <1>6, <1>7 DEF StoresFit
<1>9. QED
  BY <1>4, <1>8 DEF FitInv

\* Only the tab c moves.
LEMMA StepAlone ==
  ASSUME Shape, NEW c \in Tabs, IInv,
         \/ Drafts(c) \/ TemplateSteps(c) \/ ApplicationSteps(c) \/ DemoSteps(c)
         \/ RequestSteps(c) \/ CloseTab(c) \/ CallFails(c)
  PROVE  \A d \in Tabs \ {c} : tab'[d] = tab[d]
<1>1. CASE Drafts(c)
  BY <1>1, DraftsHarmless DEF Alone
<1>2. CASE Reviews(c) \/ DemoSteps(c)
  BY <1>2, ReviewsHarmless, DemoHarmless DEF Alone
<1>3. CASE TemplateSteps(c)
  BY <1>3 DEF TemplateSteps, DryRunTemplate, CreateTemplate, GetForUpdate, DryRunPatch,
     PatchTemplate, ConfirmDelete, Opens, GetForDelete, DeleteTemplate, Fails, Goto,
     Succeeds, Shape
<1>4. CASE OpenRegister(c) \/ CheckAnswers(c) \/ DryRunApplication(c) \/ CreateApplication(c)
  BY <1>4 DEF OpenRegister, Opens, CheckAnswers, DryRunApplication, CreateApplication,
     Fails, Goto, Succeeds, Shape
<1>5. CASE RequestSteps(c)
  BY <1>5 DEF RequestSteps, PressRequest, Opens, CheckReadiness, FindEquivalent,
     DryRunRequest, CreateRequest, Fails, Goto, Succeeds, Shape
<1>6. CASE CloseTab(c) \/ CallFails(c)
  BY <1>6 DEF CloseTab, CallFails, Fails, Goto, Succeeds, Shape
<1>7. QED
  BY <1>1, <1>2, <1>3, <1>4, <1>5, <1>6 DEF ApplicationSteps, Reviews

\* The applications stay as they are, and the tab takes on nothing.
LEMMA AsideFits ==
  ASSUME FitInv, NEW c \in Tabs, Alone(c), Quiet(c), StoresFit',
         UNCHANGED <<applications, shown>>, crossed \subseteq crossed'
  PROVE  FitInv'
<1>1. DecidersFit' /\ CleanersFit'
  BY QuietKeeps DEF FitInv
<1>2. TabsFit'
  BY DEF FitInv, TabsFit, Alone, Quiet
<1>3. QED
  BY <1>1, <1>2 DEF FitInv

LEMMA NextFit == IInv /\ FitInv /\ [Next]_vars => FitInv'
<1> SUFFICES ASSUME IInv, FitInv, [Next]_vars PROVE FitInv'
  OBVIOUS
<1>1. CASE UNCHANGED vars
  <2>1. UNCHANGED <<templates, applications, requests, members, tab, shown, crossed>>
    BY <1>1 DEF vars
  <2>2. StoresFit'
    BY <2>1, StoresKept DEF FitInv, stores
  <2>3. TabsFit' /\ DecidersFit' /\ CleanersFit'
    BY <2>1 DEF FitInv, TabsFit, DecidersFit, CleanersFit, WithStatus
  <2>4. QED
    BY <2>2, <2>3 DEF FitInv
<1>2. ASSUME NEW c \in Tabs,
             \/ Drafts(c) \/ TemplateSteps(c) \/ ApplicationSteps(c) \/ DemoSteps(c)
             \/ RequestSteps(c) \/ CloseTab(c) \/ CallFails(c)
      PROVE  FitInv'
  <2>1. Shape /\ StoresFit /\ DecidersFit /\ CleanersFit /\ Fits(tab[c])
    BY DEF IInv, FitInv, TabsFit
  <2>2. Alone(c)
    <3>1. DOMAIN tab' = Tabs
      <4>1. IInv'
        BY <1>2, NextIInv DEF Next
      <4>2. QED
        BY <4>1 DEF IInv, Shape
    <3>2. QED
      BY <1>2, <2>1, <3>1, StepAlone DEF Alone
  <2>3. ASSUME StoresFit', Fits(tab'[c]), DecidersFit', CleanersFit'
        PROVE  FitInv'
    BY <2>2, <2>3 DEF FitInv, TabsFit, Alone
  <2>4. CASE Drafts(c)
    <3>1. UNCHANGED <<stores, history>>
      BY <2>4, DraftsHarmless
    <3>2. StoresFit' /\ UNCHANGED <<applications, shown>> /\ crossed \subseteq crossed'
      BY <2>1, <3>1, StoresKept DEF stores, history
    <3>3. QED
      BY <2>1, <2>2, <2>4, <3>2, DraftsQuiet, AsideFits
  <2>5. CASE TemplateSteps(c)
    BY <2>1, <2>2, <2>5, TemplatesQuiet, TemplatesStored, AsideFits
  <2>6. CASE DemoSteps(c) /\ ~ListPending(c)
    BY <2>1, <2>2, <2>6, DemoQuiet, DemoStored, AsideFits
  <2>7. CASE RequestSteps(c)
    BY <2>1, <2>2, <2>7, RequestsQuiet, RequestsStored, AsideFits
  <2>8. CASE CloseTab(c) \/ CallFails(c)
    <3>1. /\ UNCHANGED <<stores, history>> /\ tab[c].pc # "closed"
          /\ Fails(c) \/ Succeeds(c)
      BY <2>8 DEF CloseTab, CallFails, Busy
    <3>2. StoresFit' /\ UNCHANGED <<applications, shown>> /\ crossed \subseteq crossed'
      BY <2>1, <3>1, StoresKept DEF stores, history
    <3>3. Quiet(c)
      BY <2>1, <3>1, FailsQuiet, SucceedsQuiet
    <3>4. QED
      BY <2>1, <2>2, <3>2, <3>3, AsideFits
  <2>9. CASE ListPending(c)
    <3>1. StoresFit'
      BY <2>1, <2>9, DemoStored DEF DemoSteps
    <3>2. QED
      BY <2>1, <2>3, <2>9, <3>1, ListPendingFit
  <2>10. CASE CreateApplication(c)
    BY <2>1, <2>3, <2>10, CreateApplicationFit
  <2>11. CASE DeleteApproved(c)
    BY <2>1, <2>3, <2>11, DeleteApprovedFit
  <2>12. CASE MarkApproved(c)
    BY <2>1, <2>3, <2>12, MarkApprovedFit, MarkApprovedStored
  <2>13. CASE GetApplication(c) \/ ListApproved(c)
    <3>1. UNCHANGED <<stores, shown>>
      BY <2>13 DEF GetApplication, ListApproved, history
    <3>2. StoresFit'
      BY <2>1, <3>1, StoresKept
    <3>3. QED
      BY <2>1, <2>3, <2>13, <3>2, GetApplicationFit, ListApprovedFit
  <2>14. CASE \/ OpenRegister(c) \/ SubmitApplication(c) \/ CheckAnswers(c)
              \/ DryRunApplication(c) \/ OpenReview(c) \/ PressApprove(c) \/ DryRunMark(c)
              \/ ConfirmCleanup(c) \/ DryRunCleanup(c)
    <3>1. UNCHANGED <<stores, history>>
      BY <2>14 DEF OpenRegister, SubmitApplication, CheckAnswers, DryRunApplication,
         OpenReview, PressApprove, DryRunMark, ConfirmCleanup, DryRunCleanup, Opens
    <3>2. StoresFit' /\ UNCHANGED <<applications, shown>> /\ crossed \subseteq crossed'
      BY <2>1, <3>1, StoresKept DEF stores, history
    <3>3. Quiet(c)
      BY <2>1, <2>14, ApplyingQuiet, ReviewsQuiet
    <3>4. QED
      BY <2>1, <2>2, <3>2, <3>3, AsideFits
  <2>15. QED
    BY <1>2, <2>4, <2>5, <2>6, <2>7, <2>8, <2>9, <2>10, <2>11, <2>12, <2>13, <2>14
    DEF ApplicationSteps
<1>3. QED
  BY <1>1, <1>2 DEF Next

\* What the pages hold and the stores keep is what their readers expect, and who
\* decides or removes acts on what stands, in every state (workflowApplications.ts,
\* workflowFormTemplates.ts, permissionWorkflowRequests.ts).
THEOREM PagesFit == Spec => []FitInv
BY Inductive, InitFit, NextFit, PTL DEF Spec

LEMMA BoundIs ==
  ASSUME NEW store, NEW max \in Nat, Numbered(store, max)
  PROVE  DOMAIN store \subseteq 1 .. max
<1>1. PICK n \in Nat : n <= max /\ DOMAIN store = 1 .. n
  BY DEF Numbered
<1>2. QED
  BY <1>1

\* Every template, application and request that is stored is one that its parser
\* accepts: no page that lists its kind breaks.
THEOREM DocumentsAreValid == Spec => []TypeOK
<1>1. IInv /\ FitInv => TypeOK
  <2> SUFFICES ASSUME IInv, FitInv PROVE TypeOK
    OBVIOUS
  <2>1. Store(TemplateIds, IsTemplate, templates)
    BY DEF FitInv, StoresFit, Store
  <2>2. Store(1 .. MaxRequests, IsRequest, requests)
    <3>1. DOMAIN requests \subseteq 1 .. MaxRequests
      BY BoundIs, WorkflowAssumption DEF FitInv, StoresFit
    <3>2. QED
      BY <3>1 DEF FitInv, StoresFit, Store
  <2>3. \A c \in Tabs : tab[c].pc = "closed" \/ tab[c].page \in Pages
    BY DEF FitInv, TabsFit, Fits
  <2>4. members \subseteq Tools \X Users
    BY DEF FitInv, StoresFit
  <2>5. Store(1 .. MaxApplications, IsApplication, applications)
    <3>1. DOMAIN applications \subseteq 1 .. MaxApplications
      BY BoundIs, WorkflowAssumption DEF IInv, Shape, FitInv, StoresFit
    <3>2. QED
      BY <3>1 DEF FitInv, StoresFit, Store
  <2>6. QED
    BY <2>1, <2>2, <2>3, <2>4, <2>5 DEF TypeOK
<1>2. QED
  BY <1>1, Inductive, PagesFit, PTL

-----------------------------------------------------------------------------
(* Decisions                                                               *)

\* What a step may do to the applications that were decided, or are pending.
DecisionKept ==
  \A a \in DOMAIN applications :
    LET before == applications[a]  after == applications'[a] IN
    IF a \in DOMAIN applications'
    THEN before.status = "approved" =>
            after.status = "approved" /\ (after.by = before.by \/ a \in crossed)
    ELSE before.status = "approved"

\* Who approves what was approved has crossed with who did.
LEMMA MarkApprovedKeeps ==
  ASSUME Shape, DecidersFit, NEW c \in Tabs, MarkApproved(c)
  PROVE  DecisionKept
<1> DEFINE todo == tab[c].todo
           a == Head(todo)
<1>1. CASE UNCHANGED applications
  BY <1>1 DEF DecisionKept
<1>2. CASE /\ a \in DOMAIN applications
           /\ applications' = [applications EXCEPT ![a] = Approved(@, tab[c].user)]
  <2>1. /\ DOMAIN applications' = DOMAIN applications
        /\ applications'[a].status = "approved"
        /\ \A b \in DOMAIN applications \ {a} : applications'[b] = applications[b]
    BY <1>2, ApprovedIs
  <2>2. /\ Orderly(todo, DOMAIN shown)
        /\ Range(todo) \cap WithStatus("approved") \subseteq crossed
    BY DEF MarkApproved, Decides, DecidersFit
  <2>3. a \in Range(todo)
    <3>1. 1 \in DOMAIN todo /\ a = todo[1]
      BY <2>2, EmptySeq, LenProperties DEF Orderly
    <3>2. QED
      BY <3>1 DEF Range
  <2>4. applications[a].status = "approved" => a \in crossed
    BY <1>2, <2>2, <2>3 DEF WithStatus
  <2>5. QED
    BY <2>1, <2>4 DEF DecisionKept
<1>3. QED
  BY <1>1, <1>2 DEF MarkApproved

LEMMA NextDecisionKept == IInv /\ FitInv /\ [Next]_vars => DecisionKept
<1> SUFFICES ASSUME IInv, FitInv, [Next]_vars PROVE DecisionKept
  OBVIOUS
<1>1. CASE UNCHANGED applications
  BY <1>1 DEF DecisionKept
<1>2. CASE UNCHANGED vars
  BY <1>1, <1>2 DEF vars
<1>3. ASSUME NEW c \in Tabs,
             \/ Drafts(c) \/ TemplateSteps(c) \/ ApplicationSteps(c) \/ DemoSteps(c)
             \/ RequestSteps(c) \/ CloseTab(c) \/ CallFails(c)
      PROVE  DecisionKept
  <2>1. Shape /\ StoresFit /\ DecidersFit /\ CleanersFit /\ Fits(tab[c])
    BY DEF IInv, FitInv, TabsFit
  <2>2. CASE Drafts(c)
    BY <1>1, <2>2, DraftsHarmless DEF stores
  <2>3. CASE TemplateSteps(c)
    BY <1>1, <2>1, <2>3, TemplatesStored
  <2>4. CASE DemoSteps(c)
    BY <1>1, <2>1, <2>4, DemoStored
  <2>5. CASE RequestSteps(c)
    BY <1>1, <2>1, <2>5, RequestsStored
  <2>6. CASE CloseTab(c) \/ CallFails(c)
    BY <1>1, <2>6 DEF CloseTab, CallFails, stores
  <2>7. CASE \/ OpenRegister(c) \/ SubmitApplication(c) \/ CheckAnswers(c)
             \/ DryRunApplication(c) \/ OpenReview(c) \/ PressApprove(c)
             \/ GetApplication(c) \/ DryRunMark(c)
             \/ ConfirmCleanup(c) \/ ListApproved(c) \/ DryRunCleanup(c)
    BY <1>1, <2>7 DEF OpenRegister, SubmitApplication, CheckAnswers, DryRunApplication,
       OpenReview, PressApprove, GetApplication, DryRunMark, ConfirmCleanup, ListApproved,
       DryRunCleanup, Opens, stores
  <2>8. CASE CreateApplication(c)
    <3>1. PICK id : /\ id = 1 + Cardinality(DOMAIN shown)
                    /\ Cardinality(DOMAIN shown) < MaxApplications
                    /\ applications' = Put(applications, id, Head(tab[c].todo))
                    /\ shown' = Put(shown, id, Labels(tab[c].rows))
      BY <2>8 DEF CreateApplication
    <3>2. id \notin DOMAIN shown
      BY <2>1, <3>1, NextNumber, WorkflowAssumption DEF StoresFit
    <3>3. \A a \in DOMAIN applications :
            a \in DOMAIN applications' /\ applications'[a] = applications[a]
      BY <2>1, <3>1, <3>2 DEF Shape, Put
    <3>4. QED
      BY <3>3 DEF DecisionKept
  <2>9. CASE MarkApproved(c)
    BY <2>1, <2>9, MarkApprovedKeeps
  <2>10. CASE DeleteApproved(c)
    <3>1. /\ Cleans(tab[c])
          /\ applications' = Without(applications, Range(tab[c].todo))
      BY <2>10 DEF DeleteApproved, At, Cleans
    <3>2. Range(tab[c].todo) \cap DOMAIN applications \subseteq WithStatus("approved")
      BY <2>1, <3>1 DEF CleanersFit
    <3>3. /\ \A a \in DOMAIN applications' : applications'[a] = applications[a]
          /\ \A a \in DOMAIN applications \ DOMAIN applications' :
               applications[a].status = "approved"
      BY <3>1, <3>2 DEF Without, WithStatus
    <3>4. QED
      BY <3>3 DEF DecisionKept
  <2>11. QED
    BY <1>3, <2>2, <2>3, <2>4, <2>5, <2>6, <2>7, <2>8, <2>9, <2>10 DEF ApplicationSteps
<1>4. QED
  BY <1>2, <1>3 DEF Next

\* An approved application never is pending again, who approved it changes only
\* where two decisions overlapped, and a pending one is never removed, though a
\* decision and a removal act on lists that they read some calls earlier
\* (workflowApplications.ts, workflowDemoRoles.ts).
THEOREM DecisionsAreKept == Spec => DecisionsStand
<1>1. IInv /\ FitInv /\ [Next]_vars => [DecisionKept]_vars
  BY NextDecisionKept
<1>2. QED
  BY Inductive, PagesFit, <1>1, PTL DEF Spec, DecisionsStand, DecisionKept

=============================================================================
