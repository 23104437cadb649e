------------------------ MODULE PermissionEditor_proofs ------------------------
(***************************************************************************)
(* The editors of tool permissions.  For any settings, roles and saves, by *)
(* whomever, and any number of edits and lookups in any order: what the    *)
(* editors hold is well formed; a draft names no role that it was not      *)
(* offered, loses none that there is, shows the memberships and policies   *)
(* that its tool will require, and changes nothing of them when it is      *)
(* saved unedited.                                                         *)
(***************************************************************************)
EXTENDS Permissions_proofs, PermissionEditor

-----------------------------------------------------------------------------
(* Drafts                                                                  *)

\* What an editor holds of a helper, and of a requirement.
IsDraftHelper(h) ==
  /\ h = [member |-> h.member, type |-> h.type, role |-> h.role, policies |-> h.policies]
  /\ IsSequence(h.policies)
DraftHelpers(hs) == IsSequence(hs) /\ \A h \in ToSet(hs) : IsDraftHelper(h)
IsDraft(row) ==
  /\ row = [audience |-> row.audience, name |-> row.name, member |-> row.member,
            type |-> row.type, customized |-> row.customized, helpers |-> row.helpers]
  /\ row.type \in {"signed-in-user", "service"}
  /\ row.type = "signed-in-user" <=> row.member = SignedIn
  /\ DraftHelpers(row.helpers)
DraftWell(rows) == IsSequence(rows) /\ \A row \in ToSet(rows) : IsDraft(row)

LEMMA Replaced ==
  ASSUME NEW s, IsSequence(s), NEW i \in DOMAIN s, NEW x
  PROVE  LET t == [s EXCEPT ![i] = x] IN
         /\ IsSequence(t) /\ ToSet(t) \subseteq ToSet(s) \cup {x}
         /\ DOMAIN t = DOMAIN s /\ t[i] = x /\ \A j \in DOMAIN s \ {i} : t[j] = s[j]
<1> DEFINE t == [s EXCEPT ![i] = x]
<1>1. /\ Len(s) \in Nat /\ DOMAIN s = 1..Len(s) /\ s = [j \in 1..Len(s) |-> s[j]]
      /\ ToSet(s) = {s[j] : j \in 1..Len(s)}
  BY SequenceIs
<1>2. /\ DOMAIN t = 1..Len(s) /\ t = [j \in 1..Len(s) |-> t[j]]
      /\ \A j \in 1..Len(s) : t[j] = IF j = i THEN x ELSE s[j]
  BY <1>1, Zenon
<1> HIDE DEF t
<1>3. IsSequence(t) /\ ToSet(t) = {t[j] : j \in 1..Len(s)}
  BY <1>1, <1>2, Listed1, Zenon
<1>4. ToSet(t) \subseteq ToSet(s) \cup {x}
  BY <1>1, <1>2, <1>3
<1>5. QED
  BY <1>1, <1>2, <1>3, <1>4, Zenon DEF t

LEMMA Added ==
  ASSUME NEW s, IsSequence(s), NEW x
  PROVE  IsSequence(Append(s, x)) /\ ToSet(Append(s, x)) = ToSet(s) \cup {x}
<1>1. IsSequence(<<x>>) /\ ToSet(<<x>>) = {x}
  BY ShortSequences
<1>2. Append(s, x) = s \o <<x>>
  BY AppendIsConcat DEF IsSequence
<1>3. QED
  BY <1>1, <1>2, Appended

LEMMA Parted ==
  ASSUME NEW s, IsSequence(s), NEW m \in Nat, NEW n \in Nat, 1 <= m, n <= Len(s)
  PROVE  IsSequence(SubSeq(s, m, n)) /\ ToSet(SubSeq(s, m, n)) \subseteq ToSet(s)
<1>1. Len(s) \in Nat /\ \A j \in 1..Len(s) : s[j] \in ToSet(s)
  BY SequenceIs
<1>2. SubSeq(s, m, n) = [j \in 1..(1 + n - m) |-> s[j + m - 1]]
  BY DEF IsSequence
<1>3. CASE m <= n
  <2>1. 1 + n - m \in Nat
    BY <1>3
  <2>2. \A j \in 1..(1 + n - m) : j + m - 1 \in 1..Len(s)
    BY <1>1, <1>3
  <2> DEFINE t == SubSeq(s, m, n)
             l == 1 + n - m
  <2>3. t = [j \in 1..l |-> t[j]] /\ \A j \in 1..l : t[j] = s[j + m - 1]
    BY <1>2
  <2> HIDE DEF t
  <2>4. IsSequence(t) /\ ToSet(t) = {t[j] : j \in 1..l}
    BY <2>1, <2>3, Listed1, Zenon
  <2>5. QED
    BY <1>1, <2>2, <2>3, <2>4 DEF t
<1>4. CASE ~(m <= n)
  <2>1. 1..(1 + n - m) = {}
    BY <1>4
  <2>2. SubSeq(s, m, n) = << >>
    BY <1>2, <2>1
  <2>3. QED
    BY <2>2, ShortSequences
<1>5. QED
  BY <1>3, <1>4

LEMMA Removed ==
  ASSUME NEW s, IsSequence(s), NEW i \in DOMAIN s
  PROVE  IsSequence(Without(s, i)) /\ ToSet(Without(s, i)) \subseteq ToSet(s)
<1>1. Len(s) \in Nat /\ i \in 1..Len(s)
  BY SequenceIs
<1> DEFINE a == SubSeq(s, 1, i - 1)
           b == SubSeq(s, i + 1, Len(s))
<1>2. IsSequence(a) /\ ToSet(a) \subseteq ToSet(s)
  BY <1>1, Parted
<1>3. IsSequence(b) /\ ToSet(b) \subseteq ToSet(s)
  BY <1>1, Parted
<1>4. Without(s, i) = a \o b
  BY DEF Without, RemoveAt
<1> HIDE DEF a, b
<1>5. QED
  BY <1>2, <1>3, <1>4, Appended

LEMMA EmptyDrafts ==
  /\ IsDraftHelper(EmptyHelper) /\ IsDraft(EmptyRow)
  /\ DraftHelpers(<< >>) /\ DraftWell(<< >>) /\ DraftWell(<< EmptyRow >>)
  /\ EmptyRow.name = ""
<1>1. DraftHelpers(<< >>) /\ DraftWell(<< >>)
  BY ShortSequences DEF DraftHelpers, DraftWell
<1>2. IsDraftHelper(EmptyHelper)
  <2>1. IsSequence(<< EmptyPolicy >>)
    BY ShortSequences
  <2>2. QED
    BY <2>1 DEF IsDraftHelper, EmptyHelper, DraftHelper
<1>3. IsDraft(EmptyRow) /\ EmptyRow.name = ""
  BY <1>1 DEF IsDraft, EmptyRow, DraftRow, EditableRole, NoRole, Role
<1>4. IsSequence(<<EmptyRow>>) /\ ToSet(<<EmptyRow>>) = {EmptyRow}
  BY ShortSequences
<1>5. QED
  BY <1>1, <1>2, <1>3, <1>4 DEF DraftWell

\* What a draft is made of, if it is a row of a role.
LEMMA DraftRowIs ==
  ASSUME NEW m, NEW r, NEW customized, NEW hs, DraftHelpers(hs)
  PROVE  LET row == DraftRow(m, r, customized, hs) IN
         /\ IsDraft(row) /\ row.audience = r.domain /\ row.name = r.name
         /\ row.member = m /\ row.customized = customized /\ row.helpers = hs
         /\ row.type = IF m = SignedIn THEN "signed-in-user" ELSE "service"
BY DEF IsDraft, DraftRow, EditableRole

LEMMA DraftHelperIs ==
  ASSUME NEW m, NEW r, NEW ps, IsSequence(ps)
  PROVE  LET h == DraftHelper(m, r, ps) IN
         IsDraftHelper(h) /\ h.member = m /\ h.role = r /\ h.policies = ps
BY DEF IsDraftHelper, DraftHelper

\* The helpers that a row is displayed with.
LEMMA GeneratedDraftWell ==
  ASSUME NEW row, NEW audience
  PROVE  DraftHelpers(GeneratedDraft(row, audience))
<1> DEFINE target == ConfiguredRole(row.audience, row.name)
           rules == ExchangeRules(target, audience, None)
           hs == GeneratedHelperRows(target)
           mine(r) == Selected(rules, {k \in DOMAIN rules : rules[k].role = r})
           policiesOf(r) == [k \in DOMAIN mine(r) |-> mine(r)[k].rule]
           ds == [k \in DOMAIN hs |-> DraftHelper(hs[k].member, hs[k].role, policiesOf(hs[k].role))]
<1>1. GeneratedDraft(row, audience) = << >> \/ GeneratedDraft(row, audience) = ds
  BY DEF GeneratedDraft
<1>2. IsSequence(rules)
  BY ExchangeRulesAre
<1>3. hs = <<hs[1], hs[2]>> /\ DOMAIN hs = 1..2
  BY DEF GeneratedHelperRows
<1> HIDE DEF rules
<1>4. ASSUME NEW r PROVE IsSequence(policiesOf(r))
  <2>1. IsSequence(mine(r))
    BY <1>2, SelectedElements
  <2> DEFINE q == mine(r)
             p == policiesOf(r)
             n == Len(q)
  <2>2. n \in Nat /\ DOMAIN q = 1..n
    BY <2>1, SequenceIs
  <2>3. p = [k \in 1..n |-> p[k]]
    BY <2>2
  <2> HIDE DEF p
  <2>4. QED
    BY <2>2, <2>3, Listed1 DEF p
<1> HIDE DEF policiesOf, hs
<1>5. ds = [k \in 1..2 |-> ds[k]]
      /\ \A k \in 1..2 : ds[k] = DraftHelper(hs[k].member, hs[k].role, policiesOf(hs[k].role))
  BY <1>3
<1> HIDE DEF ds
<1>6. IsSequence(ds) /\ ToSet(ds) = {ds[k] : k \in 1..2}
  BY <1>5, Listed1, Zenon
<1>7. \A k \in 1..2 : IsDraftHelper(ds[k])
  BY <1>4, <1>5, DraftHelperIs
<1>8. QED
  BY <1>1, <1>6, <1>7, EmptyDrafts DEF DraftHelpers

LEMMA DisplayedWell ==
  ASSUME NEW row, IsDraft(row), NEW audience
  PROVE  DraftHelpers(DisplayedHelpers(row, audience))
<1>1. CASE ~row.customized
  BY <1>1, GeneratedDraftWell DEF DisplayedHelpers
<1>2. CASE row.customized
  <2> DEFINE hs == row.helpers
             n == Len(hs)
             ds == [k \in DOMAIN hs |->
                      IF hs[k].type = "mcp-service" /\ Service # None
                      THEN [hs[k] EXCEPT !.member = Service] ELSE hs[k]]
  <2>1. DisplayedHelpers(row, audience) = ds
    BY <1>2 DEF DisplayedHelpers
  <2>2. IsSequence(hs) /\ \A h \in ToSet(hs) : IsDraftHelper(h)
    BY DEF IsDraft, DraftHelpers
  <2> HIDE DEF hs
  <2>3. n \in Nat /\ DOMAIN hs = 1..n /\ \A k \in 1..n : hs[k] \in ToSet(hs)
    BY <2>2, SequenceIs
  <2> HIDE DEF n
  <2>4. /\ ds = [k \in 1..n |-> ds[k]]
        /\ \A k \in 1..n : ds[k] = hs[k] \/ ds[k] = [hs[k] EXCEPT !.member = Service]
    BY <2>3
  <2> HIDE DEF ds
  <2>5. IsSequence(ds) /\ ToSet(ds) = {ds[k] : k \in 1..n}
    BY <2>3, <2>4, Listed1
  <2>6. \A k \in 1..n : IsDraftHelper(ds[k])
    BY <2>2, <2>3, <2>4 DEF IsDraftHelper
  <2>7. QED
    BY <2>1, <2>5, <2>6 DEF DraftHelpers
<1>3. QED
  BY <1>1, <1>2

\* The requirements that a draft stands for have the form of a document's.
LEMMA ConfiguredWell ==
  ASSUME NEW rows, DraftWell(rows), NEW included \in BOOLEAN
  PROVE  RequirementsFormed(ConfiguredRows(rows, included))
<1> DEFINE n == Len(rows)
           rs == ConfiguredRows(rows, included)
           own(row) == [k \in DOMAIN row.helpers |-> ConfiguredHelper(row.helpers[k])]
           managed(row) == row.type = "signed-in-user" /\ included
<1>1. n \in Nat /\ DOMAIN rows = 1..n /\ \A i \in 1..n : IsDraft(rows[i])
  BY SequenceIs DEF DraftWell
<1> HIDE DEF n
<1>2. rs = [i \in 1..n |-> rs[i]]
      /\ \A i \in 1..n : rs[i] =
            Requirement(IF rows[i].type = "signed-in-user" THEN SignedIn ELSE rows[i].member,
                        ConfiguredRole(rows[i].audience, rows[i].name),
                        IF managed(rows[i]) THEN TRUE ELSE None,
                        IF managed(rows[i]) /\ rows[i].customized THEN own(rows[i]) ELSE None)
  BY <1>1 DEF ConfiguredRows
<1> HIDE DEF rs
<1>3. IsSequence(rs) /\ ToSet(rs) = {rs[i] : i \in 1..n}
  BY <1>1, <1>2, Listed1
<1>4. ASSUME NEW row, IsDraft(row) PROVE HelpersFormed(own(row))
  <2> DEFINE hs == row.helpers
             m == Len(hs)
             cs == own(row)
  <2>1. IsSequence(hs) /\ \A h \in ToSet(hs) : IsDraftHelper(h)
    BY <1>4 DEF IsDraft, DraftHelpers
  <2>2. m \in Nat /\ DOMAIN hs = 1..m /\ \A k \in 1..m : hs[k] \in ToSet(hs)
    BY <2>1, SequenceIs
  <2>3. cs = [k \in 1..m |-> cs[k]] /\ \A k \in 1..m : cs[k] = ConfiguredHelper(hs[k])
    BY <2>2
  <2> HIDE DEF hs, m, cs
  <2>4. IsSequence(cs) /\ ToSet(cs) = {cs[k] : k \in 1..m}
    BY <2>2, <2>3, Listed1
  <2>5. ASSUME NEW k \in 1..m
        PROVE  LET h == cs[k] IN
               /\ h = [member |-> h.member, role |-> h.role, policies |-> h.policies,
                       policy |-> h.policy]
               /\ h.policies # None => IsSequence(h.policies)
    <3>1. IsSequence(hs[k].policies)
      BY <2>1, <2>2 DEF IsDraftHelper
    <3>2. QED
      BY <2>3, <3>1 DEF ConfiguredHelper, Helper
  <2>6. QED
    BY <2>4, <2>5, Zenon DEF HelpersFormed, cs
<1> HIDE DEF own, managed
<1>5. ASSUME NEW i \in 1..n
      PROVE  LET q == rs[i] IN
             /\ q = Requirement(q.member, q.role, q.include, q.helpers) /\ IsDirectRole(q.role)
             /\ q.helpers # None => HelpersFormed(q.helpers)
  <2>1. HelpersFormed(own(rows[i]))
    BY <1>1, <1>4
  <2>2. IsDirectRole(ConfiguredRole(rows[i].audience, rows[i].name))
    BY DEF IsDirectRole, ConfiguredRole, Role
  <2>3. PICK m, inc, hs :
           /\ rs[i] = Requirement(m, ConfiguredRole(rows[i].audience, rows[i].name), inc, hs)
           /\ hs = own(rows[i]) \/ hs = None
    BY <1>2, Zenon
  <2>4. /\ rs[i].role = ConfiguredRole(rows[i].audience, rows[i].name) /\ rs[i].helpers = hs
        /\ rs[i] = Requirement(rs[i].member, rs[i].role, rs[i].include, rs[i].helpers)
    BY <2>3 DEF Requirement
  <2>5. QED
    BY <2>1, <2>2, <2>3, <2>4
<1>6. QED
  BY <1>3, <1>5 DEF RequirementsFormed, rs

\* What a page is given of a tool.
ShownWell(g) ==
  /\ IsGroup(g) /\ IsSequence(g.requirements) /\ IsSequence(g.policies)
  /\ \A x \in ToSet(g.requirements) :
       (x.source = "tool" => IsToolRow(x)) /\ (x.source = "helper" => IsHelperRow(x))

LEMMA DefinitionWell ==
  ASSUME Service # SignedIn, NEW settings, SettingsWell(settings), NEW scope, IsSequence(scope),
         NEW audience, NEW g \in DOMAIN Definition(settings, scope, audience)
  PROVE  ShownWell(Definition(settings, scope, audience)[g])
<1> DEFINE groups == ToolGroups(settings)
           default == IF settings = None THEN None ELSE settings.default
           all == WithManagedAccess(groups, default, scope)
           group == all[g]
           rows == group.requirements
<1>1. Definition(settings, scope, audience) = [x \in DOMAIN all |-> WithExpectedPolicies(all[x], audience)]
  BY DEF Definition, ToolGroups
<1>2. g \in DOMAIN all /\ Definition(settings, scope, audience)[g] = WithExpectedPolicies(group, audience)
  BY <1>1
<1>3. /\ IsGroup(group) /\ IsSequence(rows) /\ IsSequence(group.policies)
      /\ \A x \in ToSet(rows) :
           (x.source = "tool" => IsToolRow(x)) /\ (x.source = "helper" => IsHelperRow(x))
  <2>1. CASE scope # << >>
    <3>1. IsGroup(group) /\ PoliciesOf(group) /\ GroupHas(rows, RequirementsOf(settings, g), scope)
      BY <1>2, <2>1, WithManagedAccessHas
    <3>2. IsSequence(rows) /\ IsSequence(group.policies)
      BY <3>1 DEF GroupHas, PoliciesOf
    <3>3. ASSUME NEW x \in ToSet(rows)
          PROVE  (x.source = "tool" => IsToolRow(x)) /\ (x.source = "helper" => IsHelperRow(x))
      <4>1. x \in ToSet(ManagedRows(scope)) \/ IsToolRow(x) \/ IsHelperRow(x)
        BY <3>1 DEF GroupHas
      <4>2. x \in ToSet(ManagedRows(scope)) => x.source = "managed"
        BY ManagedRowIs
      <4>3. QED
        BY <4>1, <4>2 DEF IsToolRow, IsHelperRow
    <3>4. QED
      BY <3>1, <3>2, <3>3
  <2>2. CASE scope = << >>
    <3>1. all = groups
      BY <2>2 DEF WithManagedAccess
    <3>2. settings # None /\ g \in DOMAIN settings.tools
      BY <1>2, <3>1, Nowhere DEF ToolGroups
    <3>3. group = Group(settings.tools[g]) /\ RowsWell(settings.tools[g])
      BY <3>1, <3>2 DEF ToolGroups, SettingsWell
    <3>4. IsGroup(group)
      BY <3>3 DEF IsGroup, Group
    <3>5. IsSequence(group.policies)
      BY <3>3, GroupPolicies
    <3>6. IsSequence(rows) /\ \A x \in ToSet(rows) : IsToolRow(x) \/ IsHelperRow(x)
      BY <3>3, GroupRows
    <3>7. QED
      BY <3>4, <3>5, <3>6 DEF IsToolRow, IsHelperRow
  <2>3. QED
    BY <2>1, <2>2
<1> HIDE DEF all, group
<1>4. LET w == WithExpectedPolicies(group, audience) IN
      IsGroup(w) /\ w.requirements = group.requirements /\ IsSequence(w.policies)
  BY <1>3, WithExpected
<1>5. QED
  BY <1>2, <1>3, <1>4 DEF ShownWell

LEMMA ShownIsWell ==
  ASSUME NEW settings, SettingsWell(PresetEntry(preset)), SettingsWell(settings),
         Shown(settings) # None
  PROVE  ShownWell(Shown(settings))
<1> DEFINE all == Merged(PresetEntry(preset), settings)
           groups == Definition(all, EditorScope, EditorAudience)
<1>1. SettingsWell(all)
  BY MergedWell
<1>2. Service # SignedIn /\ IsSequence(EditorScope)
  BY EditorAssumption
<1> HIDE DEF all
<1>3. \A g \in DOMAIN groups : ShownWell(groups[g])
  BY <1>1, <1>2, DefinitionWell
<1> HIDE DEF groups
<1>4. \E g \in DOMAIN groups : Shown(settings) = groups[g]
  BY DEF Shown, all, groups
<1>5. QED
  BY <1>3, <1>4

\* The rows of one source are in the order of the group's.
LEMMA RowsFromAre ==
  ASSUME NEW g, IsSequence(g.requirements), NEW src
  PROVE  /\ IsSequence(RowsFrom(g, src))
         /\ ToSet(RowsFrom(g, src)) = {x \in ToSet(g.requirements) : x.source = src}
<1> DEFINE s == g.requirements
           kept == {i \in DOMAIN s : s[i].source = src}
<1>1. RowsFrom(g, src) = Selected(s, kept)
  BY DEF RowsFrom
<1>2. IsSequence(Selected(s, kept)) /\ ToSet(Selected(s, kept)) = {s[i] : i \in kept \cap DOMAIN s}
  BY SelectedElements
<1>3. {s[i] : i \in kept \cap DOMAIN s} = {x \in ToSet(s) : x.source = src}
  BY DEF ToSet
<1>4. QED
  BY <1>1, <1>2, <1>3

LEMMA DialogHelperWell ==
  ASSUME NEW row, IsHelperRow(row), NEW known, IsSequence(known)
  PROVE  /\ IsDraftHelper(DialogHelper(row, known))
         /\ DialogHelper(row, known).member = row.member
         /\ DialogHelper(row, known).role = row.role
<1> DEFINE checked == Selected(known, {k \in DOMAIN known :
                                            /\ known[k].source = "helper"
                                            /\ known[k].index = row.index
                                            /\ known[k].role = row.role})
           shown == IF checked # << >> THEN checked
                    ELSE IF row.policies = None THEN << >> ELSE row.policies
           ps == [k \in DOMAIN shown |->
                    Policy(shown[k].effect, shown[k].action, shown[k].resource)]
           n == Len(shown)
<1>1. DialogHelper(row, known) = DraftHelper(row.member, row.role, ps)
  BY DEF DialogHelper
<1>2. IsSequence(checked)
  BY SelectedElements
<1>3. IsSequence(shown)
  BY <1>2, ShortSequences DEF IsHelperRow
<1> HIDE DEF shown
<1>4. n \in Nat /\ DOMAIN shown = 1..n
  BY <1>3, SequenceIs
<1>5. ps = [k \in 1..n |-> ps[k]]
  BY <1>4
<1> HIDE DEF ps
<1>6. IsSequence(ps)
  BY <1>4, <1>5, Listed1
<1>7. QED
  BY <1>1, <1>6, DraftHelperIs

\* The draft of the dialog: a row for each that the tool requires.
LEMMA DialogRowsWell ==
  ASSUME NEW g, ShownWell(g)
  PROVE  /\ DraftWell(DialogRows(g))
         /\ \A row \in ToSet(DialogRows(g)) : \E x \in ToSet(g.requirements) :
              x.source = "tool" /\ row.audience = x.role.domain /\ row.name = x.role.name
<1> DEFINE rows == RowsFrom(g, "tool")
           helpers == RowsFrom(g, "helper")
           of(i) == Selected(helpers, {k \in DOMAIN helpers : helpers[k].index = rows[i].index})
           drafts(i) == [k \in DOMAIN of(i) |-> DialogHelper(of(i)[k], g.policies)]
           all == DialogRows(g)
           n == Len(rows)
<1>1. IsSequence(rows) /\ ToSet(rows) = {x \in ToSet(g.requirements) : x.source = "tool"}
  BY RowsFromAre DEF ShownWell
<1>2. IsSequence(helpers) /\ ToSet(helpers) = {x \in ToSet(g.requirements) : x.source = "helper"}
  BY RowsFromAre DEF ShownWell
<1>3. all = [i \in DOMAIN rows |->
               DraftRow(rows[i].configured, rows[i].role,
                        rows[i].customized \/ rows[i].include = FALSE, drafts(i))]
  BY DEF DialogRows
<1> HIDE DEF rows, helpers, all
<1>4. n \in Nat /\ DOMAIN rows = 1..n /\ \A i \in 1..n : rows[i] \in ToSet(rows)
  BY <1>1, SequenceIs
<1> HIDE DEF n
<1>5. ASSUME NEW i \in 1..n PROVE DraftHelpers(drafts(i))
  <2> DEFINE hs == of(i)
             m == Len(hs)
             ds == drafts(i)
  <2>1. IsSequence(hs) /\ ToSet(hs) \subseteq ToSet(helpers)
    <3>1. /\ IsSequence(hs)
          /\ ToSet(hs) = {helpers[k] : k \in {j \in DOMAIN helpers : helpers[j].index = rows[i].index}
                                             \cap DOMAIN helpers}
      BY <1>2, SelectedElements
    <3>2. QED
      BY <3>1 DEF ToSet
  <2>2. m \in Nat /\ DOMAIN hs = 1..m /\ \A k \in 1..m : hs[k] \in ToSet(hs)
    BY <2>1, SequenceIs, Zenon
  <2>3. \A k \in 1..m : IsHelperRow(hs[k])
    BY <1>2, <2>1, <2>2 DEF ShownWell
  <2>4. ds = [k \in 1..m |-> ds[k]] /\ \A k \in 1..m : ds[k] = DialogHelper(hs[k], g.policies)
    BY <2>2
  <2> HIDE DEF hs, m, ds
  <2>5. IsSequence(ds) /\ ToSet(ds) = {ds[k] : k \in 1..m}
    BY <2>2, <2>4, Listed1
  <2>6. \A k \in 1..m : IsDraftHelper(ds[k])
    BY <2>3, <2>4, DialogHelperWell DEF ShownWell
  <2>7. QED
    BY <2>5, <2>6, Zenon DEF DraftHelpers, ds
<1> HIDE DEF drafts
<1>6. all = [i \in 1..n |-> all[i]]
      /\ \A i \in 1..n : \E customized :
           all[i] = DraftRow(rows[i].configured, rows[i].role, customized, drafts(i))
  BY <1>3, <1>4
<1>7. IsSequence(all) /\ ToSet(all) = {all[i] : i \in 1..n}
  BY <1>4, <1>6, Listed1
<1>8. ASSUME NEW i \in 1..n
      PROVE  /\ IsDraft(all[i])
             /\ all[i].audience = rows[i].role.domain /\ all[i].name = rows[i].role.name
  <2>1. PICK customized :
          all[i] = DraftRow(rows[i].configured, rows[i].role, customized, drafts(i))
    BY <1>6
  <2>2. QED
    BY <1>5, <2>1, DraftRowIs
<1>9. QED
  BY <1>1, <1>4, <1>7, <1>8 DEF DraftWell, all

-----------------------------------------------------------------------------
(* The wizard and the documents                                            *)

LEMMA WizardRowsWell ==
  ASSUME NEW rs, RowsWell(rs)
  PROVE  DraftWell(WizardRows(rs))
<1> DEFINE rows == WizardRows(rs)
           n == Len(rs)
           hs(i) == IF rs[i].helpers = None THEN << >> ELSE rs[i].helpers
           drafts(i) == [k \in DOMAIN hs(i) |->
                           DraftHelper(hs(i)[k].member, hs(i)[k].role, HelperPolicies(hs(i)[k]))]
<1>1. n \in Nat /\ DOMAIN rs = 1..n /\ \A i \in 1..n : rs[i] \in ToSet(rs)
  BY SequenceIs DEF RowsWell, RequirementsFormed
<1> HIDE DEF n
<1>2. rows = [i \in 1..n |-> rows[i]]
      /\ \A i \in 1..n : \E customized :
           rows[i] = DraftRow(rs[i].member, rs[i].role, customized, drafts(i))
  BY <1>1 DEF WizardRows
<1> HIDE DEF rows
<1>3. IsSequence(rows) /\ ToSet(rows) = {rows[i] : i \in 1..n}
  BY <1>1, <1>2, Listed1
<1>4. ASSUME NEW i \in 1..n PROVE DraftHelpers(drafts(i))
  <2> DEFINE s == hs(i)
             m == Len(s)
             ds == drafts(i)
  <2>1. IsSequence(s) /\ \A h \in ToSet(s) : h.policies # None => IsSequence(h.policies)
    <3>1. CASE rs[i].helpers = None
      BY <3>1, ShortSequences
    <3>2. CASE rs[i].helpers # None
      <4>1. HelpersFormed(rs[i].helpers)
        BY <1>1, <3>2 DEF RowsWell, HelpersWell
      <4>2. QED
        BY <3>2, <4>1 DEF HelpersFormed
    <3>3. QED
      BY <3>1, <3>2
  <2>2. m \in Nat /\ DOMAIN s = 1..m /\ \A k \in 1..m : s[k] \in ToSet(s)
    BY <2>1, SequenceIs
  <2>3. ds = [k \in 1..m |-> ds[k]]
        /\ \A k \in 1..m : ds[k] = DraftHelper(s[k].member, s[k].role, HelperPolicies(s[k]))
    BY <2>2
  <2> HIDE DEF s, m, ds
  <2>4. IsSequence(ds) /\ ToSet(ds) = {ds[k] : k \in 1..m}
    BY <2>2, <2>3, Listed1
  <2>5. \A k \in 1..m : IsSequence(HelperPolicies(s[k]))
    BY <2>1, <2>2, ShortSequences DEF HelperPolicies
  <2>6. \A k \in 1..m : IsDraftHelper(ds[k])
    BY <2>3, <2>5, DraftHelperIs
  <2>7. DraftHelpers(ds)
    BY <2>4, <2>6 DEF DraftHelpers
  <2>8. QED
    BY <2>7 DEF ds
<1> HIDE DEF drafts
<1>5. \A i \in 1..n : IsDraft(rows[i])
  BY <1>2, <1>4, DraftRowIs
<1>6. QED
  BY <1>3, <1>5 DEF DraftWell, rows

\* Settings in a document: those of finitely many tools.
StoredWell(s) ==
  SettingsWell(s) /\ (s # None => IsFiniteSet(DOMAIN s.tools))

\* A tool of the wizard.
IsWizardTool(t) ==
  /\ t = [tool |-> t.tool, rows |-> t.rows, cached |-> t.cached, touched |-> t.touched]
  /\ DraftWell(t.rows) /\ (t.cached # None => IsDraft(t.cached))
WizardTools(ts) == IsSequence(ts) /\ \A t \in ToSet(ts) : IsWizardTool(t)

LEMMA NamesListed ==
  ASSUME NEW S, IsFiniteSet(S)
  PROVE  Cardinality(S) \in Nat /\ SetToSeq(S) \in [1..Cardinality(S) -> S]
<1>1. Cardinality(S) \in Nat /\ ExistsBijection(1..Cardinality(S), S)
  BY FS_CardinalityType
<1>2. PICK f : f \in Bijection(1..Cardinality(S), S)
  BY <1>1 DEF ExistsBijection
<1>3. f \in [1..Cardinality(S) -> S] /\ IsInjective(f)
  BY <1>2 DEF Bijection, Injection, IsInjective
<1>4. QED
  BY <1>1, <1>3 DEF SetToSeq

LEMMA WizardDraftWell ==
  ASSUME NEW settings, StoredWell(settings)
  PROVE  WizardTools([i \in DOMAIN WizardDraft(settings) |->
                        [tool |-> WizardDraft(settings)[i].tool,
                         rows |-> WizardDraft(settings)[i].rows,
                         cached |-> None, touched |-> FALSE]])
<1> DEFINE draft == WizardDraft(settings)
           ts == [i \in DOMAIN draft |-> [tool |-> draft[i].tool, rows |-> draft[i].rows,
                                          cached |-> None, touched |-> FALSE]]
<1>1. CASE settings = None
  <2>1. draft = << >>
    BY <1>1 DEF WizardDraft
  <2>2. ts = << >>
    BY <2>1
  <2>3. QED
    BY <2>2, ShortSequences DEF WizardTools
<1>2. CASE settings # None
  <2> DEFINE S == DOMAIN settings.tools
             n == Cardinality(S)
             names == SetToSeq(S)
  <2>1. n \in Nat /\ names \in [1..n -> S]
    BY <1>2, NamesListed DEF StoredWell
  <2>2. draft = [i \in DOMAIN names |->
                   [tool |-> names[i], rows |-> WizardRows(settings.tools[names[i]])]]
    BY <1>2 DEF WizardDraft
  <2> HIDE DEF n, names, draft
  <2>3. DOMAIN draft = 1..n
        /\ \A i \in 1..n : names[i] \in S /\ draft[i].rows = WizardRows(settings.tools[names[i]])
    BY <2>1, <2>2
  <2>4. ts = [i \in 1..n |-> ts[i]]
        /\ \A i \in 1..n : ts[i] = [tool |-> draft[i].tool, rows |-> draft[i].rows,
                                    cached |-> None, touched |-> FALSE]
    BY <2>3
  <2> HIDE DEF ts
  <2>5. IsSequence(ts) /\ ToSet(ts) = {ts[i] : i \in 1..n}
    BY <2>1, <2>4, Listed1
  <2>6. ASSUME NEW i \in 1..n PROVE IsWizardTool(ts[i])
    <3>1. RowsWell(settings.tools[names[i]])
      BY <1>2, <2>3 DEF StoredWell, SettingsWell
    <3>2. DraftWell(draft[i].rows)
      BY <2>3, <3>1, WizardRowsWell
    <3>3. QED
      BY <2>4, <3>2 DEF IsWizardTool
  <2>7. QED
    BY <2>5, <2>6, Zenon DEF WizardTools, ts, draft
<1>3. QED
  BY <1>1, <1>2

\* The document of a draft has the form of one.
LEMMA WizardSettingsFormed ==
  ASSUME NEW ts, WizardTools(ts), NEW default
  PROVE  LET s == WizardSettings(ts, TRUE, default) IN
         /\ IsFiniteSet(DOMAIN s.tools)
         /\ \A t \in DOMAIN s.tools :
              \E rs : s.tools[t] = Tool(rs) /\ RequirementsFormed(rs)
<1> DEFINE n == Len(ts)
           names == {ts[i].tool : i \in DOMAIN ts}
           first(t) == CHOOSE i \in DOMAIN ts : ts[i].tool = t
           rs(t) == ConfiguredRows(ts[first(t)].rows, TRUE)
           tools == [t \in names |-> Tool(rs(t))]
<1>1. n \in Nat /\ DOMAIN ts = 1..n /\ \A i \in 1..n : IsWizardTool(ts[i])
  BY SequenceIs DEF WizardTools
<1>2. IsFiniteSet(names)
  <2>1. IsFiniteSet(1..n)
    BY <1>1, FS_Interval
  <2> DEFINE f == [i \in 1..n |-> ts[i].tool]
  <2>2. f \in Surjection(1..n, names)
    BY <1>1 DEF Surjection
  <2>3. QED
    BY <2>1, <2>2, FS_Surjection
<1>3. ASSUME NEW t \in names PROVE RequirementsFormed(rs(t))
  <2>1. \E i \in DOMAIN ts : ts[i].tool = t
    OBVIOUS
  <2>2. first(t) \in DOMAIN ts
    BY <2>1
  <2> HIDE DEF first
  <2>3. DraftWell(ts[first(t)].rows)
    BY <1>1, <2>2 DEF IsWizardTool
  <2>4. QED
    BY <2>3, ConfiguredWell, Zenon
<1>4. /\ WizardSettings(ts, TRUE, default) = [default |-> default, tools |-> tools]
      /\ WizardSettings(ts, TRUE, default).tools = tools
  BY DEF WizardSettings
<1> HIDE DEF rs, names
<1>5. DOMAIN tools = names /\ \A t \in names : tools[t] = Tool(rs(t))
  OBVIOUS
<1> HIDE DEF tools
<1>6. QED
  BY <1>2, <1>3, <1>4, <1>5, Zenon

-----------------------------------------------------------------------------
(* The editors: what they hold is well formed, and names known roles       *)

\* A role menu, and that it offers what is known.
IsMenu(m) == m = [audience |-> m.audience, names |-> m.names, status |-> m.status,
                  lookup |-> m.lookup, asked |-> m.asked]
Offers(m, known) == \A n \in m.names : ConfiguredRole(m.audience, n) \in known
LookedUpFor(m, row) ==
  row.name # "" /\ row.audience # "" => m.lookup = <<row.audience, row.name>>
\* A draft that names no other role.
NamesOf(rows, known) ==
  \A row \in ToSet(rows) : row.name # "" => ConfiguredRole(row.audience, row.name) \in known

\* A save: what it sends has been accepted when it is about to write.
IsPut(p) ==
  /\ p = [pc |-> p.pc, tools |-> p.tools, default |-> p.default, seen |-> p.seen]
  /\ p.pc \in {"asked", "write"} =>
       IsFiniteSet(DOMAIN p.tools) /\ \A t \in DOMAIN p.tools : RequirementsFormed(p.tools[t])
  /\ p.pc = "write" => (\A t \in DOMAIN p.tools : ToolValid(Tool(p.tools[t]))) /\ StoredWell(p.seen)

ServerWell ==
  /\ SettingsWell(PresetEntry(preset)) /\ StoredWell(stored)
  /\ \A r \in roles : IsDirectRole(r)
  /\ put = [e \in Editors |-> put[e]] /\ \A e \in Editors : IsPut(put[e])
DisplayWell ==
  /\ display = [group |-> display.group, loading |-> display.loading]
  /\ display.group # None => ShownWell(display.group)
DialogForm ==
  /\ dialog = [open |-> dialog.open, editing |-> dialog.editing, saving |-> dialog.saving,
               rows |-> dialog.rows]
  /\ began = [group |-> began.group, clean |-> began.clean]
  /\ ~dialog.editing => dialog.rows = << >>
DialogDraft == DraftWell(dialog.rows) /\ NamesOf(dialog.rows, listed \cup Began)
DialogMenus ==
  /\ DOMAIN selects = DOMAIN dialog.rows
  /\ \A i \in DOMAIN selects :
       IsMenu(selects[i]) /\ Offers(selects[i], listed) /\ LookedUpFor(selects[i], dialog.rows[i])
WizardWell ==
  /\ wizard = [open |-> wizard.open, saving |-> wizard.saving, default |-> wizard.default,
               tools |-> wizard.tools]
  /\ WizardTools(wizard.tools)

\* Nothing is in it but what has been read, edited in a menu or typed, at any step.
EditorWell ==
  /\ ServerWell /\ DisplayWell /\ DialogForm /\ DialogDraft /\ DialogMenus /\ WizardWell
  /\ edits \in Nat

\* A lookup does not lose what the menu is for.
LEMMA LoadedMenu ==
  ASSUME NEW m, IsMenu(m), NEW known, Offers(m, known), NEW audience, NEW force
  PROVE  LET l == LoadRoles(m, audience, force) IN
         IsMenu(l) /\ Offers(l, known) /\ l.lookup = m.lookup
<1> DEFINE names == IF m.audience = audience THEN m.names ELSE {}
           l == [audience |-> audience, names |-> names, status |-> "loading",
                 lookup |-> m.lookup, asked |-> audience]
<1>1. LoadRoles(m, audience, force) = m \/ LoadRoles(m, audience, force) = l
  BY DEF LoadRoles, IsMenu
<1>2. IsMenu(l) /\ Offers(l, known) /\ l.lookup = m.lookup
  BY DEF IsMenu, Offers
<1>3. QED
  BY <1>1, <1>2

LEMMA LookedUpMenu ==
  ASSUME NEW m, IsMenu(m), NEW known, Offers(m, known), NEW row
  PROVE  LET l == InitialLookup(m, row) IN
         IsMenu(l) /\ Offers(l, known) /\ LookedUpFor(l, row)
<1> DEFINE n == [m EXCEPT !.lookup = <<row.audience, row.name>>]
<1>1. CASE row.name = "" \/ row.audience = "" \/ m.lookup = <<row.audience, row.name>>
  BY <1>1 DEF InitialLookup, LookedUpFor
<1>2. CASE ~(row.name = "" \/ row.audience = "" \/ m.lookup = <<row.audience, row.name>>)
  <2>1. InitialLookup(m, row) = LoadRoles(n, row.audience, FALSE)
    BY <1>2 DEF InitialLookup
  <2>2. n = [audience |-> m.audience, names |-> m.names, status |-> m.status,
             lookup |-> <<row.audience, row.name>>, asked |-> m.asked]
    BY DEF IsMenu
  <2>3. IsMenu(n) /\ Offers(n, known) /\ n.lookup = <<row.audience, row.name>>
    BY <2>2 DEF IsMenu, Offers
  <2> HIDE DEF n
  <2>4. LET l == LoadRoles(n, row.audience, FALSE) IN
        IsMenu(l) /\ Offers(l, known) /\ l.lookup = n.lookup
    BY <2>3, LoadedMenu, Zenon
  <2>5. QED
    BY <2>1, <2>3, <2>4 DEF LookedUpFor
<1>3. QED
  BY <1>1, <1>2

LEMMA MenusOfRows ==
  ASSUME NEW old, NEW rows, NEW known,
         \A i \in DOMAIN old : IsMenu(old[i]) /\ Offers(old[i], known)
  PROVE  LET menus == Menus(old, rows) IN
         /\ DOMAIN menus = DOMAIN rows
         /\ \A i \in DOMAIN menus :
              IsMenu(menus[i]) /\ Offers(menus[i], known) /\ LookedUpFor(menus[i], rows[i])
<1> DEFINE before(i) == IF i \in DOMAIN old THEN old[i] ELSE NoSelect
<1>1. Menus(old, rows) = [i \in DOMAIN rows |-> InitialLookup(before(i), rows[i])]
  BY DEF Menus
<1>2. IsMenu(NoSelect) /\ Offers(NoSelect, known)
  BY DEF IsMenu, Offers, NoSelect
<1>3. \A i : IsMenu(before(i)) /\ Offers(before(i), known)
  BY <1>2
<1> HIDE DEF before
<1>4. QED
  BY <1>1, <1>3, LookedUpMenu

-----------------------------------------------------------------------------
(* The dialog's steps                                                      *)

\* A draft that is replaced by another one.
LEMMA DraftBecomes ==
  ASSUME DialogForm, DialogMenus, dialog.editing, NEW rows, DraftWell(rows),
         NamesOf(rows, listed \cup Began), NEW clean,
         Draft(rows, clean), UNCHANGED listed
  PROVE  DialogForm' /\ DialogDraft' /\ DialogMenus'
<1>1. /\ dialog' = [dialog EXCEPT !.rows = rows] /\ selects' = Menus(selects, rows)
      /\ began' = [began EXCEPT !.clean = clean]
  BY DEF Draft
<1>2. /\ dialog' = [open |-> dialog.open, editing |-> dialog.editing,
                     saving |-> dialog.saving, rows |-> rows]
      /\ dialog'.editing = dialog.editing /\ dialog'.rows = rows
  BY <1>1, Zenon DEF DialogForm
<1>3. began' = [group |-> began.group, clean |-> clean] /\ began'.group = began.group
  BY <1>1 DEF DialogForm
<1>4. DialogForm'
  BY <1>2, <1>3 DEF DialogForm
<1>5. Began' = Began /\ dialog'.rows = rows
  BY <1>2, <1>3 DEF Began
<1>6. DialogDraft'
  BY <1>5 DEF DialogDraft
<1>7. /\ DOMAIN selects' = DOMAIN rows
      /\ \A i \in DOMAIN selects' : /\ IsMenu(selects'[i]) /\ Offers(selects'[i], listed)
                                    /\ LookedUpFor(selects'[i], rows[i])
  BY <1>1, MenusOfRows, Zenon DEF DialogMenus
<1>8. DialogMenus'
  BY <1>5, <1>7 DEF DialogMenus
<1>9. QED
  BY <1>4, <1>6, <1>8

\* One that ends.
LEMMA EditingEnds ==
  ASSUME NEW d, d = [open |-> d.open, editing |-> d.editing, saving |-> d.saving, rows |-> d.rows],
         NotEditing(d)
  PROVE  DialogForm' /\ DialogDraft' /\ DialogMenus'
<1>1. /\ dialog' = [open |-> d.open, editing |-> FALSE, saving |-> d.saving, rows |-> << >>]
      /\ selects' = << >> /\ began' = [group |-> None, clean |-> FALSE]
  BY Zenon DEF NotEditing
<1>2. DialogForm'
  BY <1>1 DEF DialogForm
<1>3. dialog'.rows = << >>
  BY <1>1
<1>4. DraftWell(<< >>) /\ NamesOf(<< >>, listed' \cup Began')
  BY EmptyDrafts, ShortSequences DEF NamesOf
<1>5. DialogDraft'
  BY <1>3, <1>4 DEF DialogDraft
<1>6. DialogMenus'
  BY <1>1, <1>3, Nowhere DEF DialogMenus
<1>7. QED
  BY <1>2, <1>5, <1>6

\* One that begins: each row is one of what the page shows.
LEMMA BeginsWell ==
  ASSUME DisplayWell, DialogForm, BeginEditing
  PROVE  DialogForm' /\ DialogDraft' /\ DialogMenus'
<1> DEFINE g == display.group
           rows == IF g = None THEN << EmptyRow >> ELSE DialogRows(g)
<1>1. /\ dialog' = [dialog EXCEPT !.editing = TRUE, !.rows = rows]
      /\ selects' = Menus(<< >>, rows) /\ began' = [group |-> g, clean |-> TRUE]
  BY DEF BeginEditing
<1> HIDE DEF rows
<1>2. dialog' = [open |-> dialog.open, editing |-> TRUE, saving |-> dialog.saving, rows |-> rows]
  BY <1>1, Zenon DEF DialogForm
<1>3. DialogForm' /\ dialog'.rows = rows /\ began'.group = g
  BY <1>1, <1>2, Zenon DEF DialogForm
<1>4. DraftWell(rows) /\ NamesOf(rows, Began')
  <2>1. CASE g = None
    <3>1. rows = << EmptyRow >>
      BY <2>1 DEF rows
    <3>2. ToSet(<< EmptyRow >>) = {EmptyRow}
      BY ShortSequences
    <3>3. QED
      BY <3>1, <3>2, EmptyDrafts DEF NamesOf
  <2>2. CASE g # None
    <3>1. rows = DialogRows(g) /\ ShownWell(g)
      BY <2>2 DEF rows, DisplayWell
    <3>2. Began' = {ConfiguredRole(x.role.domain, x.role.name) :
                      x \in {r \in ToSet(g.requirements) : r.source = "tool"}}
      BY <1>3, <2>2 DEF Began
    <3>3. ASSUME NEW row \in ToSet(rows)
          PROVE  ConfiguredRole(row.audience, row.name) \in Began'
      <4>1. PICK x \in ToSet(g.requirements) :
               x.source = "tool" /\ row.audience = x.role.domain /\ row.name = x.role.name
        BY <3>1, DialogRowsWell
      <4>2. QED
        BY <3>2, <4>1
    <3>4. QED
      BY <3>1, <3>3, DialogRowsWell DEF NamesOf
  <2>3. QED
    BY <2>1, <2>2
<1>5. DialogDraft'
  BY <1>3, <1>4 DEF DialogDraft, NamesOf
<1>6. /\ DOMAIN selects' = DOMAIN rows
      /\ \A i \in DOMAIN selects' : /\ IsMenu(selects'[i]) /\ Offers(selects'[i], listed')
                                    /\ LookedUpFor(selects'[i], rows[i])
  BY <1>1, MenusOfRows, Nowhere, Zenon
<1>7. DialogMenus'
  BY <1>3, <1>6 DEF DialogMenus
<1>8. QED
  BY <1>3, <1>5, <1>7

DialogWell == DialogForm /\ DialogDraft /\ DialogMenus

\* Rows with other fields.
IsRow(row) ==
  row = [audience |-> row.audience, name |-> row.name, member |-> row.member,
         type |-> row.type, customized |-> row.customized, helpers |-> row.helpers]

LEMMA RowWithRole ==
  ASSUME NEW row, IsRow(row), NEW a, NEW n
  PROVE  [row EXCEPT !.audience = a, !.name = n] =
           [audience |-> a, name |-> n, member |-> row.member,
            type |-> row.type, customized |-> row.customized, helpers |-> row.helpers]
<1>1. PICK q : q = [row EXCEPT !.audience = a]
  BY Zenon
<1>2. q = [audience |-> a, name |-> row.name, member |-> row.member,
           type |-> row.type, customized |-> row.customized, helpers |-> row.helpers]
  BY <1>1 DEF IsRow
<1>3. [q EXCEPT !.name = n] =
        [audience |-> a, name |-> n, member |-> row.member,
         type |-> row.type, customized |-> row.customized, helpers |-> row.helpers]
  BY <1>2
<1>4. [row EXCEPT !.audience = a, !.name = n] = [[row EXCEPT !.audience = a] EXCEPT !.name = n]
  OBVIOUS
<1>5. QED
  BY <1>1, <1>3, <1>4

LEMMA RowWithHelpers ==
  ASSUME NEW row, IsRow(row), NEW c, NEW hs
  PROVE  [row EXCEPT !.customized = c, !.helpers = hs] =
           [audience |-> row.audience, name |-> row.name, member |-> row.member,
            type |-> row.type, customized |-> c, helpers |-> hs]
<1>1. PICK q : q = [row EXCEPT !.customized = c]
  BY Zenon
<1>2. q = [audience |-> row.audience, name |-> row.name, member |-> row.member,
           type |-> row.type, customized |-> c, helpers |-> row.helpers]
  BY <1>1 DEF IsRow
<1>3. [q EXCEPT !.helpers = hs] =
        [audience |-> row.audience, name |-> row.name, member |-> row.member,
         type |-> row.type, customized |-> c, helpers |-> hs]
  BY <1>2
<1>4. [row EXCEPT !.customized = c, !.helpers = hs]
        = [[row EXCEPT !.customized = c] EXCEPT !.helpers = hs]
  OBVIOUS
<1>5. QED
  BY <1>1, <1>3, <1>4

WithMember(row, type, c, hs, m) ==
  [row EXCEPT !.type = type, !.customized = c, !.helpers = hs, !.member = m]

LEMMA RowWithMember ==
  ASSUME NEW row, IsRow(row), NEW type, NEW c, NEW hs, NEW m
  PROVE  LET new == WithMember(row, type, c, hs, m) IN
         /\ IsRow(new) /\ new.audience = row.audience /\ new.name = row.name
         /\ new.member = m /\ new.type = type /\ new.helpers = hs
<1>1. PICK q : q = [row EXCEPT !.type = type]
  BY Zenon
<1>2. q = [audience |-> row.audience, name |-> row.name, member |-> row.member,
           type |-> type, customized |-> row.customized, helpers |-> row.helpers]
  BY <1>1 DEF IsRow
<1>3. IsRow(q)
  BY <1>2 DEF IsRow
<1>4. PICK p : p = [q EXCEPT !.customized = c, !.helpers = hs]
  OBVIOUS
<1>5. p = [audience |-> row.audience, name |-> row.name, member |-> row.member,
           type |-> type, customized |-> c, helpers |-> hs]
  BY <1>2, <1>3, <1>4, RowWithHelpers
<1>6. [p EXCEPT !.member = m] =
        [audience |-> row.audience, name |-> row.name, member |-> m,
         type |-> type, customized |-> c, helpers |-> hs]
  BY <1>5
<1>7. WithMember(row, type, c, hs, m)
        = [[[row EXCEPT !.type = type] EXCEPT !.customized = c, !.helpers = hs]
             EXCEPT !.member = m]
  BY DEF WithMember
<1>8. QED
  BY <1>1, <1>4, <1>6, <1>7 DEF IsRow

LEMMA RowHas ==
  ASSUME DialogDraft, NEW i \in DOMAIN dialog.rows
  PROVE  /\ IsDraft(dialog.rows[i])
         /\ dialog.rows[i].name # "" =>
              ConfiguredRole(dialog.rows[i].audience, dialog.rows[i].name) \in listed \cup Began
<1>1. IsSequence(dialog.rows)
  BY DEF DialogDraft, DraftWell
<1>2. dialog.rows[i] \in ToSet(dialog.rows)
  BY <1>1, SequenceIs
<1>3. QED
  BY <1>2 DEF DialogDraft, DraftWell, NamesOf

\* An edit puts a draft that is well formed in the place of the other.
LEMMA EditedWell ==
  ASSUME DialogWell, NEW rows, Edit(rows), DraftWell(rows), NamesOf(rows, listed \cup Began),
         UNCHANGED listed
  PROVE  DialogWell'
BY DraftBecomes, Zenon DEF DialogWell, Edit

LEMMA RowEdited ==
  ASSUME DialogWell, NEW i \in DOMAIN dialog.rows, NEW row, IsDraft(row),
         row.name # "" => ConfiguredRole(row.audience, row.name) \in listed \cup Began,
         Edit(Updated(i, row))
  PROVE  DialogWell'
<1>1. IsSequence(dialog.rows)
  BY DEF DialogWell, DialogDraft, DraftWell
<1>2. /\ IsSequence(Updated(i, row))
      /\ ToSet(Updated(i, row)) \subseteq ToSet(dialog.rows) \cup {row}
  BY <1>1, Replaced DEF Updated
<1>3. DraftWell(Updated(i, row)) /\ NamesOf(Updated(i, row), listed \cup Began)
  BY <1>2 DEF DialogWell, DialogDraft, DraftWell, NamesOf
<1>4. UNCHANGED listed
  BY DEF Edit
<1>5. QED
  BY <1>3, <1>4, EditedWell

LEMMA RowsEdited ==
  ASSUME DialogWell, ChangeAccessMode \/ AddRow \/ \E i \in DOMAIN dialog.rows : RemoveRow(i)
  PROVE  DialogWell'
<1>1. \A rows : Edit(rows) => UNCHANGED listed
  BY DEF Edit
<1>2. /\ IsSequence(dialog.rows) /\ \A row \in ToSet(dialog.rows) : IsDraft(row)
      /\ NamesOf(dialog.rows, listed \cup Began)
  BY DEF DialogWell, DialogDraft, DraftWell
<1>3. CASE ChangeAccessMode
  <2>1. Edit(<< >>) \/ Edit(<< EmptyRow >>)
    BY <1>3 DEF ChangeAccessMode
  <2>2. ToSet(<< >>) = {} /\ ToSet(<< EmptyRow >>) = {EmptyRow}
    BY ShortSequences
  <2>3. /\ NamesOf(<< >>, listed \cup Began) /\ NamesOf(<< EmptyRow >>, listed \cup Began)
    BY <2>2, EmptyDrafts DEF NamesOf
  <2>4. QED
    BY <1>1, <2>1, <2>3, EmptyDrafts, EditedWell
<1>4. CASE AddRow
  <2> DEFINE rows == Append(dialog.rows, EmptyRow)
  <2>1. Edit(rows)
    BY <1>4 DEF AddRow
  <2>2. IsSequence(rows) /\ ToSet(rows) = ToSet(dialog.rows) \cup {EmptyRow}
    BY <1>2, Added
  <2> HIDE DEF rows
  <2>3. DraftWell(rows) /\ NamesOf(rows, listed \cup Began)
    BY <1>2, <2>2, EmptyDrafts DEF DraftWell, NamesOf
  <2>4. QED
    BY <1>1, <2>1, <2>3, EditedWell
<1>5. ASSUME NEW i \in DOMAIN dialog.rows, RemoveRow(i) PROVE DialogWell'
  <2> DEFINE rows == Without(dialog.rows, i)
  <2>1. Edit(rows)
    BY <1>5 DEF RemoveRow
  <2>2. IsSequence(rows) /\ ToSet(rows) \subseteq ToSet(dialog.rows)
    BY <1>2, Removed
  <2> HIDE DEF rows
  <2>3. DraftWell(rows) /\ NamesOf(rows, listed \cup Began)
    BY <1>2, <2>2 DEF DraftWell, NamesOf
  <2>4. QED
    BY <1>1, <2>1, <2>3, EditedWell
<1>6. QED
  BY <1>3, <1>4, <1>5

LEMMA FieldsEdited ==
  ASSUME DialogWell, NEW i \in DOMAIN dialog.rows,
         SetAudience(i) \/ PickRole(i) \/ SetMemberType(i) \/ SetMember(i)
  PROVE  DialogWell'
<1> DEFINE row == dialog.rows[i]
<1>1. /\ IsDraft(row)
      /\ row.name # "" => ConfiguredRole(row.audience, row.name) \in listed \cup Began
  BY RowHas DEF DialogWell
<1> HIDE DEF row
<1>2. row = [audience |-> row.audience, name |-> row.name, member |-> row.member,
             type |-> row.type, customized |-> row.customized, helpers |-> row.helpers]
  BY <1>1 DEF IsDraft
<1>3. CASE SetAudience(i)
  <2>1. PICK a \in Audiences : Edit(Updated(i, [row EXCEPT !.audience = a, !.name = ""]))
    BY <1>3 DEF SetAudience, row
  <2> DEFINE new == [row EXCEPT !.audience = a, !.name = ""]
  <2>2. new = [audience |-> a, name |-> "", member |-> row.member, type |-> row.type,
               customized |-> row.customized, helpers |-> row.helpers]
    BY <1>2, RowWithRole DEF IsRow
  <2>3. IsDraft(new) /\ new.name = ""
    BY <1>1, <2>2 DEF IsDraft
  <2>4. QED
    BY <2>1, <2>3, RowEdited
<1>4. CASE PickRole(i)
  <2>1. PICK n \in Options(i) \ {row.name} : Edit(Updated(i, [row EXCEPT !.name = n]))
    BY <1>4 DEF PickRole, row
  <2> DEFINE new == [row EXCEPT !.name = n]
  <2>2. new = [audience |-> row.audience, name |-> n, member |-> row.member, type |-> row.type,
               customized |-> row.customized, helpers |-> row.helpers]
    BY <1>2
  <2>3. IsDraft(new) /\ new.name = n /\ new.audience = row.audience
    BY <1>1, <2>2 DEF IsDraft
  <2>4. n \in MenuState(i).names
    BY <2>1 DEF Options, row
  <2>5. selects[i].audience = row.audience /\ n \in selects[i].names
    BY <2>4 DEF MenuState, NoSelect, row
  <2>6. ConfiguredRole(row.audience, n) \in listed
    BY <2>5 DEF DialogWell, DialogMenus, Offers
  <2> HIDE DEF new
  <2>7. ConfiguredRole(new.audience, new.name) \in listed \cup Began
    BY <2>3, <2>6
  <2>8. QED
    BY <2>1, <2>3, <2>7, RowEdited DEF new
<1>5. CASE SetMemberType(i)
  <2>1. PICK type \in {"signed-in-user", "service"} :
          Edit(Updated(i, [row EXCEPT !.type = type, !.customized = FALSE, !.helpers = << >>,
                                      !.member = IF type = "service" THEN "" ELSE SignedIn]))
    BY <1>5 DEF SetMemberType, row
  <2>2. PICK c, m, hs :
          /\ m = (IF type = "service" THEN "" ELSE SignedIn) /\ hs = << >>
          /\ Edit(Updated(i, WithMember(row, type, c, hs, m)))
    BY <2>1, Zenon DEF WithMember
  <2> DEFINE new == WithMember(row, type, c, hs, m)
  <2>3. IsRow(row)
    BY <1>2 DEF IsRow
  <2>4. /\ IsRow(new) /\ new.audience = row.audience /\ new.name = row.name
        /\ new.member = m /\ new.type = type /\ new.helpers = hs
    BY <2>3, RowWithMember
  <2> HIDE DEF new
  <2>5. IsDraft(new)
    BY <2>2, <2>4, EmptyDrafts DEF IsRow, IsDraft, SignedIn
  <2>6. QED
    BY <1>1, <2>2, <2>4, <2>5, RowEdited DEF new
<1>6. CASE SetMember(i)
  <2>1. row.type = "service" /\ Edit(Updated(i, [row EXCEPT !.member = Gateway]))
    BY <1>6 DEF SetMember, row
  <2> DEFINE new == [row EXCEPT !.member = Gateway]
  <2>2. new = [audience |-> row.audience, name |-> row.name, member |-> Gateway,
               type |-> row.type, customized |-> row.customized, helpers |-> row.helpers]
    BY <1>2
  <2>3. IsDraft(new) /\ new.name = row.name /\ new.audience = row.audience
    BY <1>1, <2>1, <2>2 DEF IsDraft, SignedIn, Gateway
  <2> HIDE DEF new
  <2>4. QED
    BY <1>1, <2>1, <2>3, RowEdited DEF new
<1>7. QED
  BY <1>3, <1>4, <1>5, <1>6

\* Helpers of the requirement's own, or generated ones again.
LEMMA HelpersChanged ==
  ASSUME DialogWell, NEW i \in DOMAIN dialog.rows, NEW customized, NEW hs, DraftHelpers(hs),
         Edit(Updated(i, [dialog.rows[i] EXCEPT !.customized = customized, !.helpers = hs]))
  PROVE  DialogWell'
<1> DEFINE row == dialog.rows[i]
           new == [row EXCEPT !.customized = customized, !.helpers = hs]
<1>1. /\ IsDraft(row)
      /\ row.name # "" => ConfiguredRole(row.audience, row.name) \in listed \cup Began
  BY RowHas DEF DialogWell
<1>2. Edit(Updated(i, new))
  OBVIOUS
<1> HIDE DEF row
<1>3. row = [audience |-> row.audience, name |-> row.name, member |-> row.member,
             type |-> row.type, customized |-> row.customized, helpers |-> row.helpers]
  BY <1>1 DEF IsDraft
<1>4. new = [audience |-> row.audience, name |-> row.name, member |-> row.member,
             type |-> row.type, customized |-> customized, helpers |-> hs]
  <2>1. IsRow(row)
    BY <1>3 DEF IsRow
  <2>2. QED
    BY <2>1, RowWithHelpers
<1>5. IsDraft(new) /\ new.name = row.name /\ new.audience = row.audience
  BY <1>1, <1>4 DEF IsDraft
<1> HIDE DEF new
<1>6. QED
  BY <1>1, <1>2, <1>5, RowEdited

LEMMA PolicyEditsWell ==
  ASSUME NEW ps, IsSequence(ps), NEW qs \in PolicyEdits(ps)
  PROVE  IsSequence(qs)
<1>1. CASE \E k \in DOMAIN ps : qs = [ps EXCEPT ![k].effect = IF @ = "ALLOW" THEN "DENY" ELSE "ALLOW"]
  <2>1. PICK k \in DOMAIN ps :
          qs = [ps EXCEPT ![k] = [ps[k] EXCEPT !.effect = IF @ = "ALLOW" THEN "DENY" ELSE "ALLOW"]]
    BY <1>1, Zenon
  <2> DEFINE p == [ps[k] EXCEPT !.effect = IF @ = "ALLOW" THEN "DENY" ELSE "ALLOW"]
  <2>2. IsSequence([ps EXCEPT ![k] = p])
    <3> HIDE DEF p
    <3>1. QED
      BY Replaced
  <2>3. QED
    BY <2>1, <2>2
<1>2. CASE \E k \in DOMAIN ps : qs = [ps EXCEPT ![k] = TypedHelper.policies[1]]
  <2>1. PICK k \in DOMAIN ps : qs = [ps EXCEPT ![k] = TypedHelper.policies[1]]
    BY <1>2, Zenon
  <2> DEFINE p == TypedHelper.policies[1]
  <2>2. IsSequence([ps EXCEPT ![k] = p])
    <3> HIDE DEF p
    <3>1. QED
      BY Replaced
  <2>3. QED
    BY <2>1, <2>2
<1>3. CASE \E k \in DOMAIN ps : qs = Without(ps, k)
  BY <1>3, Removed
<1>4. CASE qs = Append(ps, EmptyPolicy)
  BY <1>4, Added
<1>5. QED
  BY <1>1, <1>2, <1>3, <1>4 DEF PolicyEdits

LEMMA HelperEditsWell ==
  ASSUME NEW h, IsDraftHelper(h), NEW new \in HelperEdits(h)
  PROVE  IsDraftHelper(new)
<1>1. h = [member |-> h.member, type |-> h.type, role |-> h.role, policies |-> h.policies]
      /\ IsSequence(h.policies)
  BY DEF IsDraftHelper
<1>2. \E m, type, r : new = [member |-> m, type |-> type, role |-> r, policies |-> h.policies]
  <2>1. CASE \E type \in {"gateway", "mcp-service", "custom"} :
               new = [h EXCEPT !.type = type, !.member = HelperMember(type)]
    <3>1. PICK type : new = [h EXCEPT !.type = type, !.member = HelperMember(type)]
      BY <2>1
    <3>2. new = [member |-> HelperMember(type), type |-> type, role |-> h.role,
                 policies |-> h.policies]
      BY <1>1, <3>1, Zenon
    <3>3. QED
      BY <3>2, Zenon
  <2>2. CASE new = [h EXCEPT !.role = TypedHelper.role]
    <3>1. new = [member |-> h.member, type |-> h.type, role |-> TypedHelper.role,
                 policies |-> h.policies]
      BY <1>1, <2>2
    <3>2. QED
      BY <3>1, Zenon
  <2>3. CASE new = [h EXCEPT !.member = TypedHelper.member]
    <3>1. new = [member |-> TypedHelper.member, type |-> h.type, role |-> h.role,
                 policies |-> h.policies]
      BY <1>1, <2>3
    <3>2. QED
      BY <3>1, Zenon
  <2>4. QED
    BY <2>1, <2>2, <2>3 DEF HelperEdits
<1>3. QED
  BY <1>1, <1>2 DEF IsDraftHelper

LEMMA HelpersEdited ==
  ASSUME DialogWell, NEW i \in DOMAIN dialog.rows, EditHelper(i) \/ AddHelper(i) \/ ResetHelpers(i)
  PROVE  DialogWell'
<1> DEFINE hs == Helpers(i)
<1>1. DraftHelpers(hs)
  BY RowHas, DisplayedWell DEF DialogWell, Helpers
<1>2. IsSequence(hs) /\ \A k \in DOMAIN hs : IsDraftHelper(hs[k])
  BY <1>1, SequenceIs DEF DraftHelpers
<1> HIDE DEF hs
<1>3. ASSUME NEW gs, DraftHelpers(gs), Customize(i, gs) PROVE DialogWell'
  BY <1>3, HelpersChanged DEF Customize
<1>4. ASSUME NEW k \in DOMAIN hs, NEW h, IsDraftHelper(h), UpdateHelper(i, k, h) PROVE DialogWell'
  <2> DEFINE gs == [hs EXCEPT ![k] = h]
  <2>1. Customize(i, gs)
    BY <1>4 DEF UpdateHelper, hs
  <2>2. IsSequence(gs) /\ ToSet(gs) \subseteq ToSet(hs) \cup {h}
    BY <1>2, Replaced, Zenon
  <2> HIDE DEF gs
  <2>3. DraftHelpers(gs)
    BY <1>1, <1>4, <2>2 DEF DraftHelpers
  <2>4. QED
    BY <1>3, <2>1, <2>3
<1>5. CASE EditHelper(i)
  <2>1. PICK k \in DOMAIN hs :
          \/ \E h \in HelperEdits(hs[k]) : UpdateHelper(i, k, h)
          \/ \E ps \in PolicyEdits(hs[k].policies) :
                UpdateHelper(i, k, [hs[k] EXCEPT !.policies = ps])
          \/ Customize(i, Without(hs, k))
    BY <1>5, Zenon DEF EditHelper, hs
  <2>2. ASSUME NEW h \in HelperEdits(hs[k]), UpdateHelper(i, k, h) PROVE DialogWell'
    BY <1>2, <1>4, <2>2, HelperEditsWell
  <2>3. ASSUME NEW ps \in PolicyEdits(hs[k].policies),
               UpdateHelper(i, k, [hs[k] EXCEPT !.policies = ps])
        PROVE  DialogWell'
    <3>1. IsDraftHelper(hs[k]) /\ IsSequence(ps)
      BY <1>2, PolicyEditsWell DEF IsDraftHelper
    <3> DEFINE h == [hs[k] EXCEPT !.policies = ps]
    <3>2. h = [member |-> hs[k].member, type |-> hs[k].type, role |-> hs[k].role, policies |-> ps]
      BY <3>1 DEF IsDraftHelper
    <3>3. IsDraftHelper(h)
      BY <3>1, <3>2 DEF IsDraftHelper
    <3>4. QED
      BY <1>4, <2>3, <3>3
  <2>4. ASSUME Customize(i, Without(hs, k)) PROVE DialogWell'
    <3>1. DraftHelpers(Without(hs, k))
      BY <1>1, <1>2, Removed DEF DraftHelpers
    <3>2. QED
      BY <1>3, <2>4, <3>1
  <2>5. QED
    BY <2>1, <2>2, <2>3, <2>4, Zenon
<1>6. CASE AddHelper(i)
  <2>1. Customize(i, Append(hs, EmptyHelper))
    BY <1>6 DEF AddHelper, hs
  <2>2. IsSequence(Append(hs, EmptyHelper)) /\ ToSet(Append(hs, EmptyHelper)) = ToSet(hs) \cup {EmptyHelper}
    BY <1>2, Added
  <2>3. DraftHelpers(Append(hs, EmptyHelper))
    BY <1>1, <2>2, EmptyDrafts DEF DraftHelpers
  <2>4. QED
    BY <1>3, <2>1, <2>3
<1>7. CASE ResetHelpers(i)
  <2> DEFINE gs == GeneratedDraft(dialog.rows[i], EditorAudience)
  <2>1. Edit(Updated(i, [dialog.rows[i] EXCEPT !.customized = FALSE, !.helpers = gs]))
    BY <1>7 DEF ResetHelpers
  <2>2. DraftHelpers(gs)
    BY GeneratedDraftWell
  <2> HIDE DEF gs
  <2>3. QED
    BY <2>1, <2>2, HelpersChanged
<1>8. QED
  BY <1>5, <1>6, <1>7

\* The menu of a lookup that has ended.
EndedMenu(m, names, status) ==
  [m EXCEPT !.audience = m.asked, !.names = names, !.status = status, !.asked = ""]

LEMMA EndedMenuIs ==
  ASSUME NEW m, IsMenu(m), NEW names, NEW status
  PROVE  LET e == EndedMenu(m, names, status) IN
         IsMenu(e) /\ e.audience = m.asked /\ e.names = names
<1>1. PICK p : p = [m EXCEPT !.audience = m.asked]
  BY Zenon
<1>2. p = [audience |-> m.asked, names |-> m.names, status |-> m.status,
           lookup |-> m.lookup, asked |-> m.asked]
  BY <1>1 DEF IsMenu
<1>3. PICK q : q = [p EXCEPT !.names = names]
  BY Zenon
<1>4. q = [audience |-> m.asked, names |-> names, status |-> m.status,
           lookup |-> m.lookup, asked |-> m.asked]
  BY <1>2, <1>3
<1>5. PICK r : r = [q EXCEPT !.status = status]
  BY Zenon
<1>6. r = [audience |-> m.asked, names |-> names, status |-> status,
           lookup |-> m.lookup, asked |-> m.asked]
  BY <1>4, <1>5
<1>7. ASSUME NEW nobody
      PROVE  [r EXCEPT !.asked = nobody] = [audience |-> m.asked, names |-> names, status |-> status,
                                            lookup |-> m.lookup, asked |-> nobody]
  BY <1>6
<1>8. EndedMenu(m, names, status) = [r EXCEPT !.asked = ""]
  BY <1>1, <1>3, <1>5 DEF EndedMenu
<1>9. QED
  BY <1>7, <1>8 DEF IsMenu

LEMMA NamelessRow ==
  ASSUME NEW row, IsDraft(row)
  PROVE  LET new == [row EXCEPT !.name = ""] IN IsDraft(new) /\ new.name = ""
<1>1. ASSUME NEW n
      PROVE  [row EXCEPT !.name = n] =
               [audience |-> row.audience, name |-> n, member |-> row.member,
                type |-> row.type, customized |-> row.customized, helpers |-> row.helpers]
  BY DEF IsDraft
<1>2. [row EXCEPT !.name = ""] =
         [audience |-> row.audience, name |-> "", member |-> row.member,
          type |-> row.type, customized |-> row.customized, helpers |-> row.helpers]
  BY <1>1
<1>3. QED
  BY <1>2 DEF IsDraft

LEMMA OpenMenuKeeps ==
  ASSUME DialogWell, NEW i, NEW force, OpenMenu(i, force)
  PROVE  DialogWell'
<1> DEFINE l == LoadRoles(selects[i], dialog.rows[i].audience, force)
<1>1. i \in DOMAIN selects /\ selects' = [selects EXCEPT ![i] = l]
      /\ UNCHANGED <<dialog, began, listed>>
  BY DEF OpenMenu
<1>2. IsMenu(l) /\ Offers(l, listed) /\ l.lookup = selects[i].lookup
  BY <1>1, LoadedMenu DEF DialogWell, DialogMenus
<1> HIDE DEF l
<1>3. DOMAIN selects' = DOMAIN selects
      /\ \A j \in DOMAIN selects : selects'[j] = IF j = i THEN l ELSE selects[j]
  BY <1>1
<1>4. DialogMenus'
  BY <1>1, <1>2, <1>3 DEF DialogWell, DialogMenus, LookedUpFor
<1>5. QED
  BY <1>1, <1>4 DEF DialogWell, DialogForm, DialogDraft, Began

LEMMA RolesFailedKeeps ==
  ASSUME DialogWell, NEW i, RolesFailed(i)
  PROVE  DialogWell'
<1> DEFINE m == EndedMenu(selects[i], {}, "error")
           menus == [selects EXCEPT ![i] = m]
<1>1. i \in DOMAIN selects /\ UNCHANGED <<dialog, began, listed>>
  BY DEF RolesFailed
<1>2. selects' = menus
  BY DEF RolesFailed, EndedMenu
<1>3. IsMenu(selects[i]) /\ LookedUpFor(selects[i], dialog.rows[i])
  BY <1>1 DEF DialogWell, DialogMenus
<1>4. IsMenu(m) /\ m.names = {}
  BY <1>3, EndedMenuIs
<1>5. m.lookup = selects[i].lookup
  BY <1>3 DEF EndedMenu, IsMenu
<1> HIDE DEF m
<1>6. DOMAIN selects' = DOMAIN selects
      /\ \A j \in DOMAIN selects : selects'[j] = IF j = i THEN m ELSE selects[j]
  BY <1>1, <1>2
<1>7. DialogMenus'
  BY <1>1, <1>3, <1>4, <1>5, <1>6 DEF DialogWell, DialogMenus, LookedUpFor, Offers
<1>8. QED
  BY <1>1, <1>7 DEF DialogWell, DialogForm, DialogDraft, Began

\* What a row has lost is not known of it any more, and what was listed is.
LEMMA RolesAnsweredKeeps ==
  ASSUME ServerWell, DialogWell, NEW i, RolesAnswered(i)
  PROVE  DialogWell'
<1> DEFINE asked == selects[i].asked
           names == SelectableNames(asked)
           gone == dialog.rows[i].name \notin names \cup {""}
           rows == IF gone THEN [dialog.rows EXCEPT ![i].name = ""] ELSE dialog.rows
           m == EndedMenu(selects[i], names, "ready")
           menus == [selects EXCEPT ![i] = m]
<1>1. /\ i \in DOMAIN selects
      /\ dialog' = [dialog EXCEPT !.rows = rows]
      /\ began' = [began EXCEPT !.clean = @ /\ ~gone]
      /\ listed' = listed \cup {r \in roles : r.domain = asked}
  BY DEF RolesAnswered
<1>2. selects' = Menus(menus, rows)
  BY DEF RolesAnswered, EndedMenu
<1>3. i \in DOMAIN dialog.rows /\ IsMenu(selects[i])
  BY <1>1 DEF DialogWell, DialogMenus
<1>4. IsMenu(m) /\ m.audience = asked /\ m.names = names
  BY <1>3, EndedMenuIs
<1>5. \A n \in names : ConfiguredRole(asked, n) \in listed'
  <2>1. ASSUME NEW n \in names PROVE ConfiguredRole(asked, n) \in listed'
    <3>1. PICK r \in roles : r.domain = asked /\ r.name = n
      BY DEF SelectableNames
    <3>2. r = ConfiguredRole(asked, n)
      BY <3>1 DEF ServerWell, IsDirectRole, ConfiguredRole
    <3>3. QED
      BY <1>1, <3>1, <3>2
  <2>2. QED
    BY <2>1
<1> HIDE DEF m, names
<1>6. \A j \in DOMAIN menus : IsMenu(menus[j]) /\ Offers(menus[j], listed')
  <2>1. /\ DOMAIN menus = DOMAIN selects
        /\ \A j \in DOMAIN selects : menus[j] = IF j = i THEN m ELSE selects[j]
    BY <1>1
  <2>2. Offers(m, listed')
    BY <1>4, <1>5 DEF Offers
  <2>3. \A j \in DOMAIN selects : IsMenu(selects[j]) /\ Offers(selects[j], listed')
    BY <1>1 DEF DialogWell, DialogMenus, Offers
  <2>4. QED
    BY <1>4, <2>1, <2>2, <2>3
<1> HIDE DEF menus
<1>7. DraftWell(rows) /\ NamesOf(rows, listed' \cup Began)
  <2>1. DraftWell(dialog.rows) /\ NamesOf(dialog.rows, listed' \cup Began)
    BY <1>1 DEF DialogWell, DialogDraft, NamesOf
  <2>2. CASE gone
    <3> DEFINE new == [dialog.rows[i] EXCEPT !.name = ""]
    <3>1. rows = [dialog.rows EXCEPT ![i] = new]
      BY <2>2
    <3>2. IsDraft(dialog.rows[i])
      BY <1>3, RowHas DEF DialogWell
    <3>4. IsDraft(new) /\ new.name = ""
      BY <3>2, NamelessRow
    <3> HIDE DEF new
    <3>5. IsSequence(rows) /\ ToSet(rows) \subseteq ToSet(dialog.rows) \cup {new}
      <4>1. IsSequence(dialog.rows)
        BY <2>1 DEF DraftWell
      <4>2. LET t == [dialog.rows EXCEPT ![i] = new] IN
            IsSequence(t) /\ ToSet(t) \subseteq ToSet(dialog.rows) \cup {new}
        BY <1>3, <4>1, Replaced
      <4>3. QED
        BY <3>1, <4>2
    <3>6. QED
      BY <2>1, <3>4, <3>5 DEF DraftWell, NamesOf
  <2>3. CASE ~gone
    BY <2>1, <2>3
  <2>4. QED
    BY <2>2, <2>3
<1> HIDE DEF rows, gone
<1>8. dialog' = [open |-> dialog.open, editing |-> dialog.editing, saving |-> dialog.saving,
                 rows |-> rows]
      /\ dialog'.editing = dialog.editing /\ dialog'.rows = rows
  BY <1>1 DEF DialogWell, DialogForm
<1>9. began' = [group |-> began.group, clean |-> began.clean /\ ~gone] /\ began'.group = began.group
  BY <1>1 DEF DialogWell, DialogForm
<1>10. dialog.editing
  <2>1. ~dialog.editing => dialog.rows = << >>
    BY DEF DialogWell, DialogForm
  <2>2. QED
    BY <1>3, <2>1, Nowhere
<1>11. DialogForm'
  BY <1>8, <1>9, <1>10 DEF DialogForm
<1>12. DialogDraft'
  BY <1>7, <1>8, <1>9 DEF DialogDraft, Began
<1>13. /\ DOMAIN selects' = DOMAIN rows
       /\ \A j \in DOMAIN selects' : /\ IsMenu(selects'[j]) /\ Offers(selects'[j], listed')
                                     /\ LookedUpFor(selects'[j], rows[j])
  BY <1>2, <1>6, MenusOfRows
<1>14. DialogMenus'
  BY <1>8, <1>13 DEF DialogMenus
<1>15. QED
  BY <1>11, <1>12, <1>14 DEF DialogWell

-----------------------------------------------------------------------------
(* The wizard's steps                                                      *)

LEMMA WizardBecomes ==
  ASSUME WizardWell, NEW ts, WizardTools(ts), wizard' = [wizard EXCEPT !.tools = ts]
  PROVE  WizardWell'
<1>1. wizard' = [open |-> wizard.open, saving |-> wizard.saving, default |-> wizard.default,
                 tools |-> ts]
  BY DEF WizardWell
<1>2. QED
  BY <1>1 DEF WizardWell

\* A tool of the wizard with other fields.
NamedTool(t, name, touched) == [t EXCEPT !.tool = name, !.touched = touched]
EditedTool(t, rows, cached, touched) ==
  [t EXCEPT !.rows = rows, !.cached = cached, !.touched = touched]

LEMMA NamedToolIs ==
  ASSUME NEW t, IsWizardTool(t), NEW name, NEW touched
  PROVE  IsWizardTool(NamedTool(t, name, touched))
<1>1. PICK p : p = [t EXCEPT !.tool = name]
  BY Zenon
<1>2. p = [tool |-> name, rows |-> t.rows, cached |-> t.cached, touched |-> t.touched]
  BY <1>1 DEF IsWizardTool
<1>3. [p EXCEPT !.touched = touched] =
        [tool |-> name, rows |-> t.rows, cached |-> t.cached, touched |-> touched]
  BY <1>2
<1>4. NamedTool(t, name, touched) = [p EXCEPT !.touched = touched]
  BY <1>1 DEF NamedTool
<1>5. QED
  BY <1>3, <1>4 DEF IsWizardTool

LEMMA EditedToolIs ==
  ASSUME NEW t, IsWizardTool(t), NEW rows, DraftWell(rows), NEW cached, IsDraft(cached),
         NEW touched
  PROVE  IsWizardTool(EditedTool(t, rows, cached, touched))
<1>1. PICK p : p = [t EXCEPT !.rows = rows]
  BY Zenon
<1>2. p = [tool |-> t.tool, rows |-> rows, cached |-> t.cached, touched |-> t.touched]
  BY <1>1 DEF IsWizardTool
<1>3. PICK q : q = [p EXCEPT !.cached = cached]
  BY Zenon
<1>4. q = [tool |-> t.tool, rows |-> rows, cached |-> cached, touched |-> t.touched]
  BY <1>2, <1>3
<1>5. [q EXCEPT !.touched = touched] =
        [tool |-> t.tool, rows |-> rows, cached |-> cached, touched |-> touched]
  BY <1>4
<1>6. EditedTool(t, rows, cached, touched) = [q EXCEPT !.touched = touched]
  BY <1>1, <1>3 DEF EditedTool
<1>7. QED
  BY <1>5, <1>6 DEF IsWizardTool

\* A step changes one tool.
LEMMA ToolBecomes ==
  ASSUME WizardWell, NEW i \in DOMAIN wizard.tools, NEW t, IsWizardTool(t),
         wizard' = [wizard EXCEPT !.tools = [wizard.tools EXCEPT ![i] = t]]
  PROVE  WizardWell'
<1> DEFINE ts == [wizard.tools EXCEPT ![i] = t]
<1>1. IsSequence(wizard.tools) /\ \A x \in ToSet(wizard.tools) : IsWizardTool(x)
  BY DEF WizardWell, WizardTools
<1>2. IsSequence(ts) /\ ToSet(ts) \subseteq ToSet(wizard.tools) \cup {t}
  BY <1>1, Replaced
<1>3. WizardTools(ts)
  BY <1>1, <1>2 DEF WizardTools
<1>4. QED
  BY <1>3, WizardBecomes

LEMMA WizardHas ==
  ASSUME WizardWell, NEW i \in DOMAIN wizard.tools
  PROVE  IsWizardTool(wizard.tools[i])
BY SequenceIs DEF WizardWell, WizardTools

LEMMA ToolEdited ==
  ASSUME WizardWell, NEW i \in DOMAIN wizard.tools, NEW rows, DraftWell(rows),
         NEW row, IsDraft(row), WizardEdit(WithTool(i, row, rows))
  PROVE  WizardWell'
<1> DEFINE ts == wizard.tools
           t == EditedTool(ts[i], rows, row, TRUE)
<1>1. wizard' = WithTool(i, row, rows)
  BY DEF WizardEdit
<1>2. WithTool(i, row, rows) = [wizard EXCEPT !.tools = [ts EXCEPT ![i] = t]]
  <2>1. wizard = [open |-> wizard.open, saving |-> wizard.saving, default |-> wizard.default,
                  tools |-> ts]
    BY DEF WizardWell
  <2>2. ASSUME NEW w, w = [open |-> wizard.open, saving |-> wizard.saving,
                           default |-> wizard.default, tools |-> w.tools],
               NEW s
        PROVE  [w EXCEPT !.tools = s] =
                 [open |-> wizard.open, saving |-> wizard.saving,
                  default |-> wizard.default, tools |-> s]
    BY <2>2
  <2>3. PICK v : v = [wizard EXCEPT !.tools[i].rows = rows]
    BY Zenon
  <2>4. v = [open |-> wizard.open, saving |-> wizard.saving, default |-> wizard.default,
             tools |-> [ts EXCEPT ![i] = [ts[i] EXCEPT !.rows = rows]]]
    BY <2>1, <2>2, <2>3
  <2>5. PICK w : w = [v EXCEPT !.tools[i].cached = row]
    BY Zenon
  <2>6. v.tools = [ts EXCEPT ![i] = [ts[i] EXCEPT !.rows = rows]]
    BY <2>4
  <2>7. w = [open |-> wizard.open, saving |-> wizard.saving, default |-> wizard.default,
             tools |-> [v.tools EXCEPT ![i] = [v.tools[i] EXCEPT !.cached = row]]]
    BY <2>4, <2>5
  <2>8. w.tools = [v.tools EXCEPT ![i] = [v.tools[i] EXCEPT !.cached = row]]
    BY <2>7
  <2>9. [w EXCEPT !.tools[i].touched = TRUE] =
           [open |-> wizard.open, saving |-> wizard.saving, default |-> wizard.default,
            tools |-> [w.tools EXCEPT ![i] = [w.tools[i] EXCEPT !.touched = TRUE]]]
    BY <2>7, <2>8
  <2>10. [w.tools EXCEPT ![i] = [w.tools[i] EXCEPT !.touched = TRUE]] = [ts EXCEPT ![i] = t]
    BY <2>6, <2>8, Zenon DEF EditedTool
  <2>11. WithTool(i, row, rows) = [w EXCEPT !.tools[i].touched = TRUE]
    BY <2>3, <2>5 DEF WithTool
  <2>12. [wizard EXCEPT !.tools = [ts EXCEPT ![i] = t]] =
           [open |-> wizard.open, saving |-> wizard.saving, default |-> wizard.default,
            tools |-> [ts EXCEPT ![i] = t]]
    BY <2>1, <2>2, Zenon
  <2>13. QED
    BY <2>9, <2>10, <2>11, <2>12, Zenon
<1>3. IsWizardTool(t)
  BY WizardHas, EditedToolIs, Zenon
<1> HIDE DEF t
<1>4. QED
  BY <1>1, <1>2, <1>3, ToolBecomes

LEMMA FixedIs ==
  ASSUME NEW row, IsDraft(row)
  PROVE  IsDraft(FixedRequirement(row))
<1> DEFINE new == FixedRequirement(row)
<1>1. PICK type, c, hs, m :
        /\ type = "signed-in-user" /\ hs = << >> /\ m = SignedIn
        /\ new = WithMember(row, type, c, hs, m)
  BY Zenon DEF FixedRequirement, WithMember
<1>2. IsRow(row)
  BY DEF IsDraft, IsRow
<1> HIDE DEF new
<1>3. IsRow(new) /\ new.member = m /\ new.type = type /\ new.helpers = hs
  BY <1>1, <1>2, RowWithMember
<1>4. IsDraft(new)
  BY <1>1, <1>3, EmptyDrafts DEF IsDraft, IsRow
<1>5. QED
  BY <1>4 DEF new

LEMMA OneRow == ASSUME NEW row, IsDraft(row) PROVE DraftWell(<<row>>)
<1>1. IsSequence(<<row>>) /\ ToSet(<<row>>) = {row}
  BY ShortSequences
<1>2. QED
  BY <1>1 DEF DraftWell

LEMMA PrimaryEdited ==
  ASSUME WizardWell, NEW i \in DOMAIN wizard.tools, NEW a, NEW n, SetPrimary(i, a, n)
  PROVE  WizardWell'
<1> DEFINE rows == wizard.tools[i].rows
           new == [rows[1] EXCEPT !.audience = a, !.name = n]
           row == FixedRequirement(new)
<1>1. rows # << >> /\ DraftWell(rows)
  BY WizardHas, Zenon DEF SetPrimary, IsWizardTool
<1>2. 1 \in DOMAIN rows
  BY <1>1, SequenceIs DEF DraftWell
<1>3. IsDraft(rows[1])
  BY <1>1, <1>2, SequenceIs DEF DraftWell
<1>4. new = [audience |-> a, name |-> n, member |-> rows[1].member, type |-> rows[1].type,
             customized |-> rows[1].customized, helpers |-> rows[1].helpers]
  <2>1. IsRow(rows[1])
    BY <1>3 DEF IsDraft, IsRow
  <2>2. QED
    BY <2>1, RowWithRole
<1>5. IsDraft(new)
  BY <1>3, <1>4 DEF IsDraft
<1>6. WizardEdit(WithTool(i, row, <<row>>))
  BY DEF SetPrimary
<1> HIDE DEF new
<1>7. IsDraft(row)
  BY <1>5, FixedIs
<1> HIDE DEF row
<1>8. QED
  BY <1>6, <1>7, OneRow, ToolEdited

LEMMA RequiredToggled ==
  ASSUME WizardWell, NEW i \in DOMAIN wizard.tools, ToggleRequired(i)
  PROVE  WizardWell'
<1> DEFINE t == wizard.tools[i]
           known == IF t.cached # None THEN t.cached ELSE EmptyRow
           before == IF t.rows = << >> THEN known ELSE t.rows[1]
           first == FixedRequirement(before)
<1>1. IF t.rows = << >> THEN WizardEdit(WithTool(i, first, <<first>>))
      ELSE WizardEdit(WithTool(i, first, << >>))
  BY DEF ToggleRequired
<1>2. IsWizardTool(t)
  BY WizardHas
<1>3. IsDraft(known)
  BY <1>2, EmptyDrafts DEF IsWizardTool
<1>4. IsDraft(before)
  <2>1. t.rows # << >> => 1 \in DOMAIN t.rows /\ IsDraft(t.rows[1])
    BY <1>2, SequenceIs DEF IsWizardTool, DraftWell
  <2>2. QED
    BY <1>3, <2>1
<1> HIDE DEF before
<1>5. IsDraft(first)
  BY <1>4, FixedIs
<1> HIDE DEF first
<1>6. DraftWell(<<first>>) /\ DraftWell(<< >>)
  BY <1>5, OneRow, EmptyDrafts
<1>7. QED
  BY <1>1, <1>5, <1>6, ToolEdited

LEMMA ToolsEdited ==
  ASSUME WizardWell, AddTool \/ SetDefault \/ \E i \in DOMAIN wizard.tools : NameTool(i) \/ RemoveTool(i)
  PROVE  WizardWell'
<1>1. IsSequence(wizard.tools) /\ \A x \in ToSet(wizard.tools) : IsWizardTool(x)
  BY DEF WizardWell, WizardTools
<1>2. CASE AddTool
  <2> DEFINE new == [tool |-> "", rows |-> << >>, cached |-> None, touched |-> TRUE]
             ts == Append(wizard.tools, new)
  <2>1. wizard' = [wizard EXCEPT !.tools = ts]
    BY <1>2 DEF AddTool, WizardEdit
  <2>2. IsWizardTool(new)
    BY EmptyDrafts DEF IsWizardTool
  <2> HIDE DEF new
  <2>3. IsSequence(ts) /\ ToSet(ts) = ToSet(wizard.tools) \cup {new}
    BY <1>1, Added
  <2>4. WizardTools(ts)
    BY <1>1, <2>2, <2>3 DEF WizardTools
  <2>5. QED
    BY <2>1, <2>4, WizardBecomes, Zenon
<1>3. CASE SetDefault
  <2> DEFINE d == IF wizard.default = "none" THEN "not-defined" ELSE "none"
  <2>1. wizard' = [wizard EXCEPT !.default = d]
    BY <1>3 DEF SetDefault, WizardEdit
  <2> HIDE DEF d
  <2>2. wizard' = [open |-> wizard.open, saving |-> wizard.saving, default |-> d,
                   tools |-> wizard.tools]
    BY <2>1 DEF WizardWell
  <2>3. QED
    BY <2>2 DEF WizardWell
<1>4. ASSUME NEW i \in DOMAIN wizard.tools, NameTool(i) PROVE WizardWell'
  <2>1. PICK name : WizardEdit([wizard EXCEPT !.tools[i].tool = name,
                                              !.tools[i].touched = TRUE])
    BY <1>4 DEF NameTool
  <2> DEFINE ts == wizard.tools
             t == NamedTool(ts[i], name, TRUE)
  <2>2. wizard = [open |-> wizard.open, saving |-> wizard.saving, default |-> wizard.default,
                  tools |-> ts]
    BY DEF WizardWell
  <2>3. PICK v : v = [wizard EXCEPT !.tools[i].tool = name]
    BY Zenon
  <2>4. v = [open |-> wizard.open, saving |-> wizard.saving, default |-> wizard.default,
             tools |-> [ts EXCEPT ![i] = [ts[i] EXCEPT !.tool = name]]]
    BY <2>2, <2>3
  <2>5. v.tools = [ts EXCEPT ![i] = [ts[i] EXCEPT !.tool = name]]
    BY <2>4
  <2>6. [v EXCEPT !.tools[i].touched = TRUE] =
           [open |-> wizard.open, saving |-> wizard.saving, default |-> wizard.default,
            tools |-> [v.tools EXCEPT ![i] = [v.tools[i] EXCEPT !.touched = TRUE]]]
    BY <2>4
  <2>7. [v.tools EXCEPT ![i] = [v.tools[i] EXCEPT !.touched = TRUE]] = [ts EXCEPT ![i] = t]
    BY <2>5, Zenon DEF NamedTool
  <2>8. wizard' = [v EXCEPT !.tools[i].touched = TRUE]
    BY <2>1, <2>3 DEF WizardEdit
  <2>9. IsWizardTool(t)
    BY WizardHas, NamedToolIs, Zenon
  <2> HIDE DEF t
  <2>10. [wizard EXCEPT !.tools = [ts EXCEPT ![i] = t]] =
           [open |-> wizard.open, saving |-> wizard.saving, default |-> wizard.default,
            tools |-> [ts EXCEPT ![i] = t]]
    BY <2>2
  <2>11. wizard' = [wizard EXCEPT !.tools = [ts EXCEPT ![i] = t]]
    BY <2>6, <2>7, <2>8, <2>10, Zenon
  <2>12. QED
    BY <2>9, <2>11, ToolBecomes
<1>5. ASSUME NEW i \in DOMAIN wizard.tools, RemoveTool(i) PROVE WizardWell'
  <2> DEFINE ts == Without(wizard.tools, i)
  <2>1. wizard' = [wizard EXCEPT !.tools = ts]
    BY <1>5 DEF RemoveTool, WizardEdit, Without
  <2>2. IsSequence(ts) /\ ToSet(ts) \subseteq ToSet(wizard.tools)
    BY <1>1, Removed
  <2>3. WizardTools(ts)
    BY <1>1, <2>2 DEF WizardTools
  <2> HIDE DEF ts
  <2>4. QED
    BY <2>1, <2>3, WizardBecomes
<1>6. QED
  BY <1>2, <1>3, <1>4, <1>5

LEMMA WizardOpened ==
  ASSUME ServerWell, OpenWizard \/ LeaveWizard
  PROVE  WizardWell'
<1>1. CASE LeaveWizard
  <2>1. wizard' = NoWizard /\ WizardTools(<< >>)
    BY <1>1, ShortSequences DEF LeaveWizard, WizardTools
  <2>2. QED
    BY <2>1 DEF WizardWell, NoWizard
<1>2. CASE OpenWizard
  <2> DEFINE ts == [i \in DOMAIN WizardDraft(stored) |->
                      [tool |-> WizardDraft(stored)[i].tool,
                       rows |-> WizardDraft(stored)[i].rows,
                       cached |-> None, touched |-> FALSE]]
  <2>1. wizard' = [open |-> TRUE, saving |-> FALSE, default |-> WizardDefault(stored),
                   tools |-> ts]
    BY <1>2 DEF OpenWizard
  <2>2. WizardTools(ts)
    BY WizardDraftWell DEF ServerWell
  <2> HIDE DEF ts
  <2>3. QED
    BY <2>1, <2>2 DEF WizardWell
<1>3. QED
  BY <1>1, <1>2

\* What the dialog has stays well formed when more becomes known.
LEMMA MoreListed ==
  ASSUME DialogWell, UNCHANGED <<dialog, selects, began>>, listed \subseteq listed'
  PROVE  DialogWell'
BY DEF DialogWell, DialogForm, DialogDraft, DialogMenus, NamesOf, Offers, Began

LEMMA WizardKeeps ==
  ASSUME ServerWell, DialogWell, WizardWell,
         \/ OpenWizard \/ LeaveWizard \/ AddTool \/ SetDefault
         \/ \E i \in DOMAIN wizard.tools :
               \/ NameTool(i) \/ RemoveTool(i) \/ ToggleRequired(i) \/ SetPrimaryAudience(i)
               \/ SetPrimaryRole(i)
  PROVE  /\ DialogWell' /\ WizardWell'
         /\ UNCHANGED <<server, display, dialog, began, lookups>>
<1> DEFINE kept == UNCHANGED <<server, display, dialog, selects, began, lookups>>
<1>1. WizardWell' /\ kept /\ listed \subseteq listed'
  <2>1. CASE OpenWizard \/ LeaveWizard
    <3>1. kept /\ listed' = listed
      BY <2>1 DEF OpenWizard, LeaveWizard, counters
    <3>2. QED
      BY <2>1, <3>1, WizardOpened
  <2>2. CASE AddTool \/ SetDefault \/ \E i \in DOMAIN wizard.tools : NameTool(i) \/ RemoveTool(i)
    <3>1. kept /\ listed' = listed
      BY <2>2 DEF AddTool, SetDefault, NameTool, RemoveTool, WizardEdit
    <3>2. QED
      BY <2>2, <3>1, ToolsEdited
  <2>3. ASSUME NEW i \in DOMAIN wizard.tools, ToggleRequired(i)
        PROVE  WizardWell' /\ kept /\ listed \subseteq listed'
    <3>1. kept /\ listed' = listed
      BY <2>3 DEF ToggleRequired, WizardEdit
    <3>2. QED
      BY <2>3, <3>1, RequiredToggled
  <2>4. ASSUME NEW i \in DOMAIN wizard.tools, SetPrimaryAudience(i)
        PROVE  WizardWell' /\ kept /\ listed \subseteq listed'
    <3>1. PICK a \in Audiences : SetPrimary(i, a, "")
      BY <2>4 DEF SetPrimaryAudience
    <3>2. kept /\ listed' = listed
      BY <2>4, <3>1 DEF SetPrimaryAudience, SetPrimary, WizardEdit
    <3>3. QED
      BY <3>1, <3>2, PrimaryEdited
  <2>5. ASSUME NEW i \in DOMAIN wizard.tools, SetPrimaryRole(i)
        PROVE  WizardWell' /\ kept /\ listed \subseteq listed'
    <3>1. PICK a, n : SetPrimary(i, a, n)
      BY <2>5 DEF SetPrimaryRole
    <3>2. kept
      BY <3>1 DEF SetPrimary, WizardEdit
    <3>3. listed \subseteq listed'
      BY <2>5 DEF SetPrimaryRole
    <3>4. QED
      BY <3>1, <3>2, <3>3, PrimaryEdited
  <2>6. QED
    BY <2>1, <2>2, <2>3, <2>4, <2>5
<1>2. QED
  BY <1>1, MoreListed

-----------------------------------------------------------------------------
(* The saves                                                               *)

IsPutRecord(p) == p = [pc |-> p.pc, tools |-> p.tools, default |-> p.default, seen |-> p.seen]

LEMMA PutTools ==
  ASSUME NEW p, IsPutRecord(p), NEW pc, NEW ts
  PROVE  [p EXCEPT !.pc = pc, !.tools = ts] =
           [pc |-> pc, tools |-> ts, default |-> p.default, seen |-> p.seen]
<1>1. PICK q : q = [p EXCEPT !.pc = pc]
  BY Zenon
<1>2. q = [pc |-> pc, tools |-> p.tools, default |-> p.default, seen |-> p.seen]
  BY <1>1 DEF IsPutRecord
<1>3. [q EXCEPT !.tools = ts] = [pc |-> pc, tools |-> ts, default |-> p.default, seen |-> p.seen]
  BY <1>2
<1>4. [p EXCEPT !.pc = pc, !.tools = ts] = [q EXCEPT !.tools = ts]
  BY <1>1
<1>5. QED
  BY <1>3, <1>4

LEMMA PutDocument ==
  ASSUME NEW p, IsPutRecord(p), NEW pc, NEW ts, NEW d, NEW new,
         new = [p EXCEPT !.pc = pc, !.tools = ts, !.default = d]
  PROVE  new = [pc |-> pc, tools |-> ts, default |-> d, seen |-> p.seen]
<1>1. PICK r : r = [p EXCEPT !.pc = pc, !.tools = ts]
  OBVIOUS
<1>2. r = [pc |-> pc, tools |-> ts, default |-> p.default, seen |-> p.seen]
  BY <1>1, PutTools
<1>3. [r EXCEPT !.default = d] = [pc |-> pc, tools |-> ts, default |-> d, seen |-> p.seen]
  BY <1>2
<1>4. [p EXCEPT !.pc = pc, !.tools = ts, !.default = d] = [r EXCEPT !.default = d]
  BY <1>1
<1>5. QED
  BY <1>3, <1>4

LEMMA PutSeen ==
  ASSUME NEW p, IsPutRecord(p), NEW pc, NEW seen
  PROVE  [p EXCEPT !.pc = pc, !.seen = seen] =
           [pc |-> pc, tools |-> p.tools, default |-> p.default, seen |-> seen]
<1>1. PICK q : q = [p EXCEPT !.pc = pc]
  BY Zenon
<1>2. q = [pc |-> pc, tools |-> p.tools, default |-> p.default, seen |-> p.seen]
  BY <1>1 DEF IsPutRecord
<1>3. [q EXCEPT !.seen = seen] =
        [pc |-> pc, tools |-> p.tools, default |-> p.default, seen |-> seen]
  BY <1>2
<1>4. [p EXCEPT !.pc = pc, !.seen = seen] = [q EXCEPT !.seen = seen]
  BY <1>1
<1>5. QED
  BY <1>3, <1>4

\* One editor's save changes.
LEMMA PutBecomes ==
  ASSUME ServerWell, NEW e \in Editors, NEW p, IsPut(p), put' = [put EXCEPT ![e] = p],
         UNCHANGED <<preset, stored, roles>>
  PROVE  ServerWell'
<1>1. put = [x \in Editors |-> put[x]] /\ \A x \in Editors : IsPut(put[x])
  BY DEF ServerWell
<1>2. put' = [x \in Editors |-> put'[x]] /\ \A x \in Editors : put'[x] = IF x = e THEN p ELSE put[x]
  BY <1>1
<1>3. \A x \in Editors : IsPut(put'[x])
  BY <1>1, <1>2
<1>4. QED
  BY <1>2, <1>3 DEF ServerWell

LEMMA SettledPut ==
  ASSUME NEW pc \in {"idle", "saved", "refused"}
  PROVE  IsPut([NoPut EXCEPT !.pc = pc])
<1>1. [NoPut EXCEPT !.pc = pc] = [pc |-> pc, tools |-> << >>, default |-> None, seen |-> None]
  BY DEF NoPut
<1>2. QED
  BY <1>1 DEF IsPut

LEMMA SettledKeeps ==
  ASSUME ServerWell, NEW e \in Editors, NEW pc \in {"idle", "saved", "refused"}, Settled(e, pc),
         UNCHANGED <<preset, roles>>, StoredWell(stored')
  PROVE  ServerWell'
<1> DEFINE p == [NoPut EXCEPT !.pc = pc]
<1>1. IsPut(p)
  BY SettledPut
<1>2. put' = [put EXCEPT ![e] = p]
  BY DEF Settled
<1> HIDE DEF p
<1>3. put = [x \in Editors |-> put[x]] /\ \A x \in Editors : IsPut(put[x])
  BY DEF ServerWell
<1>4. put' = [x \in Editors |-> put'[x]] /\ \A x \in Editors : put'[x] = IF x = e THEN p ELSE put[x]
  BY <1>2, <1>3
<1>5. \A x \in Editors : IsPut(put'[x])
  BY <1>1, <1>3, <1>4
<1>6. QED
  BY <1>4, <1>5 DEF ServerWell

\* Requirements that were accepted.
LEMMA ParsedRowsWell ==
  ASSUME NEW rs, RequirementsFormed(rs), ToolValid(Tool(rs))
  PROVE  RowsWell(ParsedTool(Tool(rs)))
<1>1. Tool(rs).requirements = rs /\ Tool(rs).helpers = None
  BY DEF Tool
<1>2. QED
  BY <1>1, ParsedToolWell

LEMMA MergedStored ==
  ASSUME NEW base, NEW over, StoredWell(base), StoredWell(over)
  PROVE  StoredWell(Merged(base, over))
<1>1. CASE base = None \/ over = None
  BY <1>1 DEF Merged
<1>2. CASE base # None /\ over # None
  <2>1. DOMAIN Merged(base, over).tools = DOMAIN base.tools \cup DOMAIN over.tools
    BY <1>2 DEF Merged
  <2>2. IsFiniteSet(DOMAIN base.tools \cup DOMAIN over.tools)
    BY <1>2, FS_Union, Zenon DEF StoredWell
  <2>3. QED
    BY <2>1, <2>2, MergedWell DEF StoredWell
<1>3. QED
  BY <1>1, <1>2

\* The draft is what the dialog sends, and the wizard sends all its tools.
LEMMA DialogSent ==
  ASSUME ServerWell, DialogWell, SaveDialog
  PROVE  ServerWell'
<1> DEFINE p == [NoPut EXCEPT !.pc = "asked", !.tools = ForEdited(Body)]
<1>1. put' = [put EXCEPT !["dialog"] = p] /\ UNCHANGED <<preset, stored, roles>>
  BY DEF SaveDialog
<1>2. RequirementsFormed(Body)
  BY ConfiguredWell, Zenon DEF Body, DialogWell, DialogDraft
<1>3. /\ DOMAIN ForEdited(Body) = {Edited} /\ IsFiniteSet({Edited})
      /\ ForEdited(Body)[Edited] = Body
  BY FS_Singleton, Zenon DEF ForEdited
<1>4. p = [pc |-> "asked", tools |-> ForEdited(Body), default |-> None, seen |-> None]
  <2>1. IsPutRecord(NoPut) /\ NoPut.default = None /\ NoPut.seen = None
    BY DEF NoPut, IsPutRecord
  <2>2. ASSUME NEW pc, NEW ts
        PROVE  [NoPut EXCEPT !.pc = pc, !.tools = ts] =
                      [pc |-> pc, tools |-> ts, default |-> NoPut.default, seen |-> NoPut.seen]
    BY <2>1, PutTools
  <2>3. QED
    BY <2>1, <2>2, Zenon
<1>5. IsPut(p)
  BY <1>2, <1>3, <1>4, Zenon DEF IsPut
<1> HIDE DEF p
<1>6. "dialog" \in Editors
  BY DEF Editors
<1>7. QED
  BY <1>1, <1>5, <1>6, PutBecomes, Zenon

\* What the wizard sends.
Sent(ts, default) == WizardSettings(ts, TRUE, default)
LEMMA WizardDocument ==
  ASSUME NEW ts, WizardTools(ts), NEW default
  PROVE  /\ IsFiniteSet(DOMAIN Sent(ts, default).tools)
         /\ \A t \in DOMAIN Sent(ts, default).tools :
              \E rs : Sent(ts, default).tools[t] = Tool(rs) /\ RequirementsFormed(rs)
BY WizardSettingsFormed, Zenon DEF Sent

LEMMA WizardSent ==
  ASSUME ServerWell, WizardWell, SaveWizard
  PROVE  ServerWell' /\ WizardWell'
<1> DEFINE s == Sent(wizard.tools, wizard.default)
           p == [NoPut EXCEPT !.pc = "asked", !.tools = Parsed(s).tools,
                              !.default = Parsed(s).default]
<1>1. put' = [put EXCEPT !["wizard"] = p] /\ UNCHANGED <<preset, stored, roles>>
      /\ wizard' = [wizard EXCEPT !.saving = TRUE]
      /\ WizardValid(wizard.tools, TRUE, wizard.default)
  BY Zenon DEF SaveWizard, Sent
<1>2. /\ IsFiniteSet(DOMAIN s.tools)
      /\ \A t \in DOMAIN s.tools : \E rs : s.tools[t] = Tool(rs) /\ RequirementsFormed(rs)
  <2>1. WizardTools(wizard.tools)
    BY DEF WizardWell
  <2>2. QED
    BY <2>1, WizardDocument
<1>3. \A t \in DOMAIN s.tools : ToolValid(s.tools[t])
  <2>1. CASE wizard.tools = << >>
    <3>1. DOMAIN s.tools = {wizard.tools[i].tool : i \in DOMAIN wizard.tools}
      BY DEF WizardSettings, Sent
    <3>2. QED
      BY <2>1, <3>1, Nowhere
  <2>2. CASE SettingsValid(s)
    BY <2>2 DEF SettingsValid
  <2>3. QED
    BY <1>1, <2>1, <2>2, Zenon DEF WizardValid, Sent
<1>4. DOMAIN Parsed(s).tools = DOMAIN s.tools
      /\ \A t \in DOMAIN s.tools : Parsed(s).tools[t] = ParsedTool(s.tools[t])
  BY DEF Parsed
<1> HIDE DEF s
<1>5. \A t \in DOMAIN Parsed(s).tools : RequirementsFormed(Parsed(s).tools[t])
  <2>1. ASSUME NEW t \in DOMAIN s.tools PROVE RequirementsFormed(ParsedTool(s.tools[t]))
    BY <1>2, <1>3, ParsedRowsWell DEF RowsWell
  <2>2. QED
    BY <1>4, <2>1
<1>6. p = [pc |-> "asked", tools |-> Parsed(s).tools, default |-> Parsed(s).default, seen |-> None]
  <2>1. IsPutRecord(NoPut) /\ NoPut.seen = None
    BY DEF NoPut, IsPutRecord
  <2>2. p = [pc |-> "asked", tools |-> Parsed(s).tools, default |-> Parsed(s).default,
             seen |-> NoPut.seen]
    BY <2>1, PutDocument
  <2>3. QED
    BY <2>1, <2>2
<1>7. IsPut(p)
  BY <1>2, <1>4, <1>5, <1>6, Zenon DEF IsPut
<1> HIDE DEF p
<1>8. "wizard" \in Editors
  BY DEF Editors
<1>9. ServerWell'
  BY <1>1, <1>7, <1>8, PutBecomes, Zenon
<1>10. wizard' = [open |-> wizard.open, saving |-> TRUE, default |-> wizard.default,
                  tools |-> wizard.tools]
  BY <1>1, Zenon DEF WizardWell
<1>11. WizardWell'
  BY <1>10 DEF WizardWell
<1>12. QED
  BY <1>9, <1>11

\* What a save has read and been sent is what it writes.
LEMMA PutKeeps ==
  ASSUME ServerWell, NEW e \in Editors, PutReads(e) \/ PutWrites(e) \/ PutFails(e)
  PROVE  ServerWell'
<1> DEFINE p == put[e]
<1>1. IsPut(p) /\ StoredWell(stored)
  BY DEF ServerWell
<1>2. /\ DOMAIN PutBody(e).tools = DOMAIN p.tools
      /\ \A t \in DOMAIN p.tools : PutBody(e).tools[t] = Tool(p.tools[t])
  BY DEF PutBody
<1>3. CASE PutReads(e)
  <2>1. p.pc = "asked" /\ UNCHANGED <<preset, stored, roles>>
    BY <1>3 DEF PutReads
  <2>2. CASE SettingsValid(PutBody(e))
    <3> DEFINE new == [p EXCEPT !.pc = "write", !.seen = stored]
    <3>1. put' = [put EXCEPT ![e].pc = "write", ![e].seen = stored]
      BY <1>3, <2>2 DEF PutReads
    <3>2. put' = [put EXCEPT ![e] = new]
      BY <3>1, Zenon DEF ServerWell
    <3>3. \A t \in DOMAIN p.tools : ToolValid(Tool(p.tools[t]))
      BY <1>2, <2>2 DEF SettingsValid
    <3>4. new = [pc |-> "write", tools |-> p.tools, default |-> p.default, seen |-> stored]
      <4>1. \A pc, seen : [p EXCEPT !.pc = pc, !.seen = seen] =
                            [pc |-> pc, tools |-> p.tools, default |-> p.default, seen |-> seen]
        BY <1>1, PutSeen DEF IsPut, IsPutRecord
      <4>2. QED
        BY <4>1, Zenon
    <3>5. IsPut(new)
      BY <1>1, <2>1, <3>3, <3>4 DEF IsPut
    <3> HIDE DEF new
    <3>6. QED
      BY <2>1, <3>2, <3>5, PutBecomes, Zenon
  <2>3. CASE ~SettingsValid(PutBody(e))
    <3>1. Settled(e, "refused")
      BY <1>3, <2>3 DEF PutReads
    <3>2. QED
      BY <1>1, <2>1, <3>1, SettledKeeps
  <2>4. QED
    BY <2>2, <2>3
<1>4. CASE PutWrites(e)
  <2> DEFINE before == IF p.seen = None THEN [default |-> None, tools |-> << >>] ELSE p.seen
             mine == Parsed(PutBody(e))
             over == [default |-> None, tools |-> mine.tools]
  <2>1. /\ p.pc = "write" /\ Settled(e, "saved") /\ UNCHANGED <<preset, roles>>
        /\ stored' = mine \/ stored' = Merged(before, over)
    BY <1>4 DEF PutWrites
  <2>2. /\ IsFiniteSet(DOMAIN p.tools) /\ StoredWell(p.seen)
        /\ \A t \in DOMAIN p.tools : RequirementsFormed(p.tools[t]) /\ ToolValid(Tool(p.tools[t]))
    BY <1>1, <2>1 DEF IsPut
  <2>3. /\ DOMAIN mine.tools = DOMAIN p.tools
        /\ \A t \in DOMAIN p.tools : mine.tools[t] = ParsedTool(Tool(p.tools[t]))
    BY <1>2 DEF Parsed
  <2> HIDE DEF mine
  <2>4. \A t \in DOMAIN mine.tools : RowsWell(mine.tools[t])
    BY <2>2, <2>3, ParsedRowsWell
  <2>5. StoredWell(mine) /\ StoredWell(over)
    BY <2>2, <2>3, <2>4 DEF StoredWell, SettingsWell
  <2>6. StoredWell(before)
    BY <2>2, Nowhere, FS_EmptySet DEF StoredWell, SettingsWell
  <2> HIDE DEF over, before
  <2>7. StoredWell(stored')
    BY <2>1, <2>5, <2>6, MergedStored
  <2>8. QED
    BY <2>1, <2>7, SettledKeeps
<1>5. CASE PutFails(e)
  <2>1. Settled(e, "refused") /\ UNCHANGED <<preset, stored, roles>>
    BY <1>5 DEF PutFails
  <2>2. QED
    BY <1>1, <2>1, SettledKeeps
<1>6. QED
  BY <1>3, <1>4, <1>5

-----------------------------------------------------------------------------
(* Every step keeps it                                                     *)

\* The dialog's edits.
DialogEdits ==
  \/ ChangeAccessMode \/ AddRow
  \/ \E i \in DOMAIN dialog.rows :
        \/ RemoveRow(i) \/ SetAudience(i) \/ PickRole(i) \/ SetMemberType(i) \/ SetMember(i)
        \/ EditHelper(i) \/ AddHelper(i) \/ ResetHelpers(i)
WizardEdits ==
  \/ AddTool \/ SetDefault
  \/ \E i \in DOMAIN wizard.tools :
        \/ NameTool(i) \/ RemoveTool(i) \/ ToggleRequired(i) \/ SetPrimaryAudience(i)
        \/ SetPrimaryRole(i)
MenuSteps ==
  \E i \in DOMAIN selects :
     (\E force \in BOOLEAN : OpenMenu(i, force)) \/ RolesAnswered(i) \/ RolesFailed(i)

LEMMA EditorSteps ==
  ASSUME EditorNext
  PROVE  \/ RefreshPage \/ Load
         \/ OpenDialog \/ CloseDialog \/ BeginEditing \/ CancelEditing
         \/ DialogEdits \/ MenuSteps \/ OpenWizard \/ LeaveWizard \/ WizardEdits
         \/ SaveDialog \/ SaveWizard \/ DialogAnswered \/ WizardAnswered
         \/ \E e \in Editors : PutReads(e) \/ PutWrites(e) \/ PutFails(e)
         \/ RoleChanges
BY DEF EditorNext, DialogEdits, MenuSteps, WizardEdits

LEMMA EditsAre ==
  ASSUME DialogEdits
  PROVE  \E rows : Edit(rows)
<1>1. CASE ChangeAccessMode \/ AddRow
  BY <1>1 DEF ChangeAccessMode, AddRow
<1>2. ASSUME NEW i \in DOMAIN dialog.rows,
             RemoveRow(i) \/ SetAudience(i) \/ PickRole(i) \/ SetMemberType(i) \/ SetMember(i)
      PROVE  \E rows : Edit(rows)
  BY <1>2, Zenon DEF RemoveRow, SetAudience, PickRole, SetMemberType, SetMember
<1>3. ASSUME NEW i \in DOMAIN dialog.rows, EditHelper(i) \/ AddHelper(i) \/ ResetHelpers(i)
      PROVE  \E rows : Edit(rows)
  BY <1>3, Zenon DEF EditHelper, AddHelper, ResetHelpers, UpdateHelper, Customize
<1>4. QED
  BY <1>1, <1>2, <1>3 DEF DialogEdits

LEMMA EditFrame ==
  ASSUME NEW rows, Edit(rows)
  PROVE  UNCHANGED <<server, display, wizard, listed>> /\ edits' = edits + 1
BY DEF Edit

LEMMA DialogEditKeeps ==
  ASSUME DialogWell, DialogEdits
  PROVE  DialogWell'
<1>1. CASE ChangeAccessMode \/ AddRow
  BY <1>1, RowsEdited
<1>2. ASSUME NEW i \in DOMAIN dialog.rows, RemoveRow(i)
      PROVE  DialogWell'
  BY <1>2, RowsEdited
<1>3. ASSUME NEW i \in DOMAIN dialog.rows,
             SetAudience(i) \/ PickRole(i) \/ SetMemberType(i) \/ SetMember(i)
      PROVE  DialogWell'
  BY <1>3, FieldsEdited
<1>4. ASSUME NEW i \in DOMAIN dialog.rows, EditHelper(i) \/ AddHelper(i) \/ ResetHelpers(i)
      PROVE  DialogWell'
  BY <1>4, HelpersEdited
<1>5. QED
  BY <1>1, <1>2, <1>3, <1>4 DEF DialogEdits

LEMMA MenuKeeps ==
  ASSUME ServerWell, DialogWell, MenuSteps
  PROVE  DialogWell' /\ UNCHANGED <<server, display, wizard, edits>>
<1>1. DialogWell'
  BY OpenMenuKeeps, RolesFailedKeeps, RolesAnsweredKeeps DEF MenuSteps
<1>2. UNCHANGED <<server, display, wizard, edits>>
  BY DEF MenuSteps, OpenMenu, RolesAnswered, RolesFailed, counters
<1>3. QED
  BY <1>1, <1>2

\* Opening the dialog, closing it, and the answer to a save.
LEMMA DialogEnds ==
  ASSUME DialogWell, OpenDialog \/ CloseDialog \/ CancelEditing
  PROVE  DialogWell' /\ UNCHANGED <<server, display, wizard, edits>>
<1>1. UNCHANGED <<server, display, wizard, edits>>
  BY DEF OpenDialog, CloseDialog, CancelEditing, counters
<1>2. PICK open : \/ NotEditing(dialog) \/ NotEditing([dialog EXCEPT !.open = open])
  BY Zenon DEF OpenDialog, CloseDialog, CancelEditing
<1>3. dialog = [open |-> dialog.open, editing |-> dialog.editing, saving |-> dialog.saving,
                rows |-> dialog.rows]
  BY DEF DialogWell, DialogForm
<1>4. CASE NotEditing(dialog)
  BY <1>1, <1>3, <1>4, EditingEnds DEF DialogWell
<1>5. CASE NotEditing([dialog EXCEPT !.open = open])
  <2> DEFINE d == [dialog EXCEPT !.open = open]
  <2>1. d = [open |-> open, editing |-> dialog.editing, saving |-> dialog.saving,
             rows |-> dialog.rows]
    BY <1>3
  <2>2. d = [open |-> d.open, editing |-> d.editing, saving |-> d.saving, rows |-> d.rows]
    BY <2>1
  <2> HIDE DEF d
  <2>3. NotEditing(d)
    BY <1>5 DEF d
  <2>4. QED
    BY <1>1, <2>2, <2>3, EditingEnds DEF DialogWell
<1>6. QED
  BY <1>2, <1>4, <1>5

\* The rows stay as they are while a save is begun or refused.
LEMMA SavingKept ==
  ASSUME DialogWell, NEW saving, dialog' = [dialog EXCEPT !.saving = saving],
         UNCHANGED <<selects, began, listed>>
  PROVE  DialogWell'
<1>1. dialog' = [open |-> dialog.open, editing |-> dialog.editing, saving |-> saving,
                 rows |-> dialog.rows]
  BY DEF DialogWell, DialogForm
<1>2. dialog'.editing = dialog.editing /\ dialog'.rows = dialog.rows
  BY <1>1
<1>3. DialogForm'
  BY <1>1, <1>2 DEF DialogWell, DialogForm
<1>4. DialogDraft' /\ DialogMenus'
  BY <1>2 DEF DialogWell, DialogDraft, DialogMenus, Began
<1>5. QED
  BY <1>3, <1>4 DEF DialogWell

LEMMA AnswerEnds ==
  ASSUME ServerWell, DisplayWell, DialogWell, DialogAnswered
  PROVE  ServerWell' /\ DisplayWell' /\ DialogWell'
<1>1. /\ Settled("dialog", "idle")
      /\ UNCHANGED <<preset, stored, roles, wizard, listed, counters, roleChanges>>
  BY DEF DialogAnswered
<1>2. ServerWell'
  <2>1. "dialog" \in Editors /\ StoredWell(stored')
    BY <1>1 DEF Editors, ServerWell
  <2>2. QED
    BY <1>1, <2>1, SettledKeeps
<1>3. dialog = [open |-> dialog.open, editing |-> dialog.editing, saving |-> dialog.saving,
                rows |-> dialog.rows]
  BY DEF DialogWell, DialogForm
<1>4. PICK saving, loading :
        \/ /\ NotEditing([dialog EXCEPT !.saving = saving])
           /\ display' = [display EXCEPT !.loading = loading]
        \/ dialog' = [dialog EXCEPT !.saving = saving] /\ UNCHANGED <<selects, began, display>>
  BY Zenon DEF DialogAnswered
<1>5. CASE NotEditing([dialog EXCEPT !.saving = saving])
           /\ display' = [display EXCEPT !.loading = loading]
  <2> DEFINE d == [dialog EXCEPT !.saving = saving]
  <2>1. d = [open |-> dialog.open, editing |-> dialog.editing, saving |-> saving,
             rows |-> dialog.rows]
    BY <1>3
  <2>2. d = [open |-> d.open, editing |-> d.editing, saving |-> d.saving, rows |-> d.rows]
    BY <2>1
  <2> HIDE DEF d
  <2>3. NotEditing(d)
    BY <1>5 DEF d
  <2>4. DialogWell'
    BY <2>2, <2>3, EditingEnds DEF DialogWell
  <2>5. display' = [group |-> display.group, loading |-> loading]
    BY <1>5 DEF DisplayWell
  <2>6. DisplayWell'
    BY <2>5 DEF DisplayWell
  <2>7. QED
    BY <1>2, <2>4, <2>6
<1>6. CASE dialog' = [dialog EXCEPT !.saving = saving] /\ UNCHANGED <<selects, began, display>>
  BY <1>1, <1>2, <1>6, SavingKept DEF DisplayWell
<1>7. QED
  BY <1>4, <1>5, <1>6

LEMMA WizardAnswerEnds ==
  ASSUME ServerWell, WizardWell, WizardAnswered
  PROVE  ServerWell' /\ WizardWell'
<1>1. /\ Settled("wizard", "idle") /\ UNCHANGED <<preset, stored, roles>>
      /\ wizard' = NoWizard \/ wizard' = [wizard EXCEPT !.saving = FALSE]
  BY DEF WizardAnswered
<1>2. ServerWell'
  <2>1. "wizard" \in Editors /\ StoredWell(stored')
    BY <1>1 DEF Editors, ServerWell
  <2>2. QED
    BY <1>1, <2>1, SettledKeeps
<1>3. CASE wizard' = NoWizard
  <2>1. WizardTools(<< >>)
    BY ShortSequences DEF WizardTools
  <2>2. QED
    BY <1>2, <1>3, <2>1 DEF WizardWell, NoWizard
<1>4. CASE wizard' = [wizard EXCEPT !.saving = FALSE]
  <2>1. wizard' = [open |-> wizard.open, saving |-> FALSE, default |-> wizard.default,
                   tools |-> wizard.tools]
    BY <1>4, Zenon DEF WizardWell
  <2>2. QED
    BY <1>2, <2>1 DEF WizardWell
<1>5. QED
  BY <1>1, <1>3, <1>4

LEMMA PageReads ==
  ASSUME ServerWell, DisplayWell, RefreshPage \/ Load
  PROVE  DisplayWell' /\ UNCHANGED <<server, dialog, selects, wizard, began, listed>>
<1>1. UNCHANGED <<server, dialog, selects, wizard, began, listed>>
  BY DEF RefreshPage, Load
<1>2. CASE RefreshPage
  <2>1. display' = [group |-> display.group, loading |-> TRUE]
    BY <1>2, Zenon DEF RefreshPage, DisplayWell
  <2>2. QED
    BY <1>1, <2>1 DEF DisplayWell
<1>3. CASE Load
  <2>1. PICK g : /\ g = None \/ g = Shown(stored)
                 /\ display' = [group |-> g, loading |-> FALSE]
    BY <1>3, Zenon DEF Load
  <2>2. g # None => ShownWell(g)
    BY <2>1, ShownIsWell DEF ServerWell, StoredWell
  <2>3. QED
    BY <1>1, <2>1, <2>2 DEF DisplayWell
<1>4. QED
  BY <1>2, <1>3

LEMMA RolesKeepServer ==
  ASSUME ServerWell, RoleChanges
  PROVE  ServerWell'
<1>1. PICK r \in Volatile : roles' = IF r \in roles THEN roles \ {r} ELSE roles \cup {r}
  BY DEF RoleChanges
<1>2. IsDirectRole(r)
  BY EditorAssumption
<1>3. QED
  BY <1>1, <1>2 DEF RoleChanges, ServerWell

\* What a step leaves alone stays as it was.
LEMMA ServerKept == ASSUME ServerWell, UNCHANGED server PROVE ServerWell'
BY DEF ServerWell, server
LEMMA DisplayKept == ASSUME DisplayWell, UNCHANGED display PROVE DisplayWell'
BY DEF DisplayWell
LEMMA WizardKept == ASSUME WizardWell, UNCHANGED wizard PROVE WizardWell'
BY DEF WizardWell

LEMMA EditsCounted == ASSUME edits \in Nat, EditorNext PROVE edits' \in Nat
<1>1. edits' = edits \/ edits' = edits + 1
  <2>1. CASE DialogEdits
    BY <2>1, EditsAre, EditFrame
  <2>2. CASE MenuSteps
    BY <2>2 DEF MenuSteps, OpenMenu, RolesAnswered, RolesFailed, counters
  <2>3. CASE WizardEdits
    <3>1. \E w : WizardEdit(w)
      BY <2>3, Zenon DEF WizardEdits, AddTool, SetDefault, NameTool, RemoveTool, ToggleRequired,
                         SetPrimaryAudience, SetPrimaryRole, SetPrimary
    <3>2. QED
      BY <3>1 DEF WizardEdit
  <2>4. CASE \/ RefreshPage \/ Load \/ OpenDialog \/ CloseDialog \/ BeginEditing \/ CancelEditing
             \/ OpenWizard \/ LeaveWizard
    BY <2>4 DEF RefreshPage, Load, OpenDialog, CloseDialog, BeginEditing, CancelEditing,
                OpenWizard, LeaveWizard, counters
  <2>5. CASE \/ SaveDialog \/ SaveWizard \/ DialogAnswered \/ WizardAnswered
             \/ \E e \in Editors : PutReads(e) \/ PutWrites(e) \/ PutFails(e)
             \/ RoleChanges
    BY <2>5, Zenon DEF SaveDialog, SaveWizard, DialogAnswered, WizardAnswered, PutReads, PutWrites,
                PutFails, RoleChanges, counters
  <2>6. QED
    BY <2>1, <2>2, <2>3, <2>4, <2>5, EditorSteps
<1>2. QED
  BY <1>1

LEMMA InitEditor == EditorInit => EditorWell
<1> SUFFICES ASSUME EditorInit PROVE EditorWell
  OBVIOUS
<1>1. PICK s \in EditorStarts : preset = s.preset /\ stored = PresetEntry(s.stored)
  BY DEF EditorInit
<1>2. \A x \in {s.preset, s.stored} : PresetEntryValid(x) /\ SettingsFormed(x)
  BY EditorAssumption
<1>3. ASSUME NEW x \in {s.preset, s.stored}
      PROVE  StoredWell(PresetEntry(x))
  <2>1. CASE x = None
    BY <2>1 DEF PresetEntry, StoredWell, SettingsWell
  <2>2. CASE x # None
    <3>1. SettingsFormed(x) /\ SettingsValid(x)
      BY <1>2, <2>2 DEF PresetEntryValid
    <3>2. SettingsWell(Parsed(x)) /\ PresetEntry(x) = Parsed(x)
      BY <2>2, <3>1, ParsedWell DEF PresetEntry
    <3>3. DOMAIN Parsed(x).tools = DOMAIN x.tools
      BY DEF Parsed
    <3>4. IsFiniteSet(DOMAIN x.tools)
      BY <2>2, <3>1 DEF SettingsFormed
    <3>5. QED
      BY <3>2, <3>3, <3>4 DEF StoredWell
  <2>3. QED
    BY <2>1, <2>2
<1>4. StoredWell(PresetEntry(preset)) /\ StoredWell(stored)
  BY <1>1, <1>3
<1>5. roles = DirectRoles /\ \A r \in DirectRoles : IsDirectRole(r)
  BY DEF EditorInit, DirectRoles, IsDirectRole, Role
<1>6. put = [e \in Editors |-> put[e]] /\ \A e \in Editors : put[e] = NoPut
  BY DEF EditorInit
<1>7. IsPut(NoPut)
  BY DEF IsPut, NoPut
<1>8. ServerWell
  BY <1>4, <1>5, <1>6, <1>7 DEF ServerWell, StoredWell
<1>9. DisplayWell
  <2>1. display = [group |-> Shown(stored), loading |-> FALSE]
    BY DEF EditorInit
  <2>2. Shown(stored) # None => ShownWell(Shown(stored))
    BY <1>4, ShownIsWell DEF StoredWell
  <2>3. QED
    BY <2>1, <2>2 DEF DisplayWell
<1>10. /\ dialog = [open |-> FALSE, editing |-> FALSE, saving |-> FALSE, rows |-> << >>]
       /\ selects = << >> /\ began = [group |-> None, clean |-> FALSE]
       /\ wizard = NoWizard /\ edits = 0
  BY DEF EditorInit
<1>11. dialog.rows = << >> /\ DraftWell(<< >>) /\ NamesOf(<< >>, listed \cup Began)
  BY <1>10, EmptyDrafts, ShortSequences DEF NamesOf
<1>12. DialogForm
  BY <1>10 DEF DialogForm
<1>13. DialogDraft
  BY <1>11 DEF DialogDraft
<1>14. DialogMenus
  BY <1>10, <1>11, Nowhere DEF DialogMenus
<1>15. WizardWell
  <2>1. WizardTools(<< >>)
    BY ShortSequences DEF WizardTools
  <2>2. QED
    BY <1>10, <2>1 DEF WizardWell, NoWizard
<1>16. QED
  BY <1>8, <1>9, <1>10, <1>12, <1>13, <1>14, <1>15 DEF EditorWell

LEMMA EditorKeeps == EditorWell /\ [EditorNext]_editorVars => EditorWell'
<1> SUFFICES ASSUME EditorWell, [EditorNext]_editorVars PROVE EditorWell'
  OBVIOUS
<1>1. ServerWell /\ DisplayWell /\ DialogWell /\ WizardWell /\ edits \in Nat
  BY DEF EditorWell, DialogWell
<1> DEFINE good == ServerWell' /\ DisplayWell' /\ DialogWell' /\ WizardWell'
<1>2. CASE UNCHANGED editorVars
  <2>1. UNCHANGED <<server, display, dialog, selects, wizard, began, listed, edits>>
    BY <1>2 DEF editorVars, server
  <2>2. DialogWell'
    BY <1>1, <2>1, MoreListed
  <2>3. QED
    BY <1>1, <2>1, <2>2, ServerKept, DisplayKept, WizardKept DEF EditorWell, DialogWell
<1>3. CASE EditorNext
  <2>1. CASE RefreshPage \/ Load
    <3>1. DisplayWell' /\ UNCHANGED <<server, dialog, selects, wizard, began, listed>>
      BY <1>1, <2>1, PageReads
    <3>2. DialogWell'
      BY <1>1, <3>1, MoreListed
    <3>3. good
      BY <1>1, <3>1, <3>2, ServerKept, WizardKept
    <3>4. QED
      BY <1>1, <1>3, <3>3, EditsCounted DEF EditorWell, DialogWell
  <2>2. CASE OpenDialog \/ CloseDialog \/ CancelEditing \/ MenuSteps
    <3>1. DialogWell' /\ UNCHANGED <<server, display, wizard>>
      BY <1>1, <2>2, DialogEnds, MenuKeeps
    <3>2. good
      BY <1>1, <3>1, ServerKept, DisplayKept, WizardKept
    <3>3. QED
      BY <1>1, <1>3, <3>2, EditsCounted DEF EditorWell, DialogWell
  <2>3. CASE BeginEditing
    <3>1. DialogWell' /\ UNCHANGED <<server, display, wizard>>
      BY <1>1, <2>3, BeginsWell DEF DialogWell, BeginEditing
    <3>2. good
      BY <1>1, <3>1, ServerKept, DisplayKept, WizardKept
    <3>3. QED
      BY <1>1, <1>3, <3>2, EditsCounted DEF EditorWell, DialogWell
  <2>4. CASE DialogEdits
    <3>1. DialogWell' /\ UNCHANGED <<server, display, wizard>>
      BY <1>1, <2>4, DialogEditKeeps, EditsAre, EditFrame
    <3>2. good
      BY <1>1, <3>1, ServerKept, DisplayKept, WizardKept
    <3>3. QED
      BY <1>1, <1>3, <3>2, EditsCounted DEF EditorWell, DialogWell
  <2>5. CASE OpenWizard \/ LeaveWizard \/ WizardEdits
    <3>1. DialogWell' /\ WizardWell' /\ UNCHANGED <<server, display>>
      BY <1>1, <2>5, WizardKeeps DEF WizardEdits
    <3>2. good
      BY <1>1, <3>1, ServerKept, DisplayKept
    <3>3. QED
      BY <1>1, <1>3, <3>2, EditsCounted DEF EditorWell, DialogWell
  <2>6. CASE SaveDialog
    <3>1. dialog' = [dialog EXCEPT !.saving = TRUE]
          /\ UNCHANGED <<display, selects, wizard, began, listed>>
      BY <2>6 DEF SaveDialog
    <3>2. DialogWell'
      BY <1>1, <3>1, SavingKept
    <3>3. good
      BY <1>1, <2>6, <3>1, <3>2, DialogSent, DisplayKept, WizardKept
    <3>4. QED
      BY <1>1, <1>3, <3>3, EditsCounted DEF EditorWell, DialogWell
  <2>7. CASE SaveWizard \/ WizardAnswered
    <3>1. UNCHANGED <<display, dialog, selects, began, listed>>
      BY <2>7, Zenon DEF SaveWizard, WizardAnswered
    <3>2. DialogWell'
      BY <1>1, <3>1, MoreListed
    <3>3. ServerWell' /\ WizardWell'
      BY <1>1, <2>7, WizardSent, WizardAnswerEnds
    <3>4. good
      BY <1>1, <3>1, <3>2, <3>3, DisplayKept
    <3>5. QED
      BY <1>1, <1>3, <3>4, EditsCounted DEF EditorWell, DialogWell
  <2>8. CASE DialogAnswered
    <3>1. UNCHANGED wizard
      BY <2>8 DEF DialogAnswered
    <3>2. good
      BY <1>1, <2>8, <3>1, AnswerEnds, WizardKept
    <3>3. QED
      BY <1>1, <1>3, <3>2, EditsCounted DEF EditorWell, DialogWell
  <2>9. CASE RoleChanges \/ \E e \in Editors : PutReads(e) \/ PutWrites(e) \/ PutFails(e)
    <3>1. UNCHANGED <<display, dialog, selects, wizard, began, listed>>
      BY <2>9, Zenon DEF RoleChanges, PutReads, PutWrites, PutFails
    <3>2. DialogWell'
      BY <1>1, <3>1, MoreListed
    <3>3. ServerWell'
      BY <1>1, <2>9, RolesKeepServer, PutKeeps
    <3>4. good
      BY <1>1, <3>1, <3>2, <3>3, DisplayKept, WizardKept
    <3>5. QED
      BY <1>1, <1>3, <3>4, EditsCounted DEF EditorWell, DialogWell
  <2>10. QED
    BY <1>3, <2>1, <2>2, <2>3, <2>4, <2>5, <2>6, <2>7, <2>8, <2>9, EditorSteps
<1>4. QED
  BY <1>2, <1>3

\* What the editors hold is well formed at every step: drafts, menus, what the
\* page shows, and the settings that a save has read or is about to write.
THEOREM EditorAlwaysWell == EditorSpec => []EditorWell
<1>1. QED
  BY InitEditor, EditorKeeps, PTL DEF EditorSpec

\* A draft of the dialog names no role but those of the requirements that
\* editing began with and those that a lookup in the same domain answered,
\* whatever lookups were late, refused or replaced, and however rows moved to
\* the menus of others (AthenzRoleSelect.tsx, PermissionRequestDialog.tsx).
THEOREM EditorRoleFromList == EditorSpec => []RoleFromList
<1>1. EditorWell => RoleFromList
  BY RowHas DEF EditorWell, RoleFromList
<1>2. QED
  BY <1>1, EditorAlwaysWell, PTL

\* A row that an answer has taken the role from.
LEMMA RoleTaken ==
  ASSUME ServerWell, DialogWell, NEW j \in DOMAIN selects, RolesAnswered(j),
         NEW i \in DOMAIN dialog.rows, dialog.rows[i].audience # "", dialog.rows[i].name # "",
         dialog'.rows[i].name = ""
  PROVE  \/ ConfiguredRole(dialog.rows[i].audience, dialog.rows[i].name) \notin roles
         \/ /\ selects[i].lookup = <<dialog.rows[i].audience, dialog.rows[i].name>>
            /\ selects[i].asked # dialog.rows[i].audience
<1> DEFINE names == SelectableNames(selects[j].asked)
           gone == dialog.rows[j].name \notin names \cup {""}
           rows == IF gone THEN [dialog.rows EXCEPT ![j].name = ""] ELSE dialog.rows
<1>1. dialog' = [dialog EXCEPT !.rows = rows]
  BY DEF RolesAnswered
<1>2. dialog'.rows = rows
  BY <1>1 DEF DialogWell, DialogForm
<1>3. gone /\ i = j
  <2>1. gone
    BY <1>2
  <2>2. rows = [dialog.rows EXCEPT ![j].name = ""]
    BY <2>1
  <2>3. i # j => rows[i] = dialog.rows[i]
    BY <2>2
  <2>4. QED
    BY <1>2, <2>1, <2>3
<1>4. i \in DOMAIN selects /\ selects[i].lookup = <<dialog.rows[i].audience, dialog.rows[i].name>>
  BY DEF DialogWell, DialogMenus, LookedUpFor
<1>5. CASE selects[i].asked = dialog.rows[i].audience
  <2> DEFINE r == ConfiguredRole(dialog.rows[i].audience, dialog.rows[i].name)
  <2>1. r.domain = dialog.rows[i].audience /\ r.name = dialog.rows[i].name
    BY DEF ConfiguredRole, Role
  <2>2. r \in roles => r.name \in names
    BY <1>3, <1>5, <2>1 DEF SelectableNames
  <2>3. QED
    BY <1>3, <2>1, <2>2
<1>6. QED
  BY <1>4, <1>5

\* A step that is no edit of the user takes a role from a row of the draft only
\* if Athenz does not have the role, or if the row has moved up to the menu of a
\* row of the same role that waits for an answer for another domain.
THEOREM EditorRoleLostOnlyIfGone == EditorSpec => RoleLostOnlyIfGone
<1> DEFINE kept == \A i \in DOMAIN dialog.rows \cap DOMAIN dialog'.rows :
             LET row == dialog.rows[i] IN
             edits' = edits /\ row.audience # "" /\ row.name # "" /\ dialog'.rows[i].name = ""
               => \/ ConfiguredRole(row.audience, row.name) \notin roles
                  \/ selects[i].lookup = <<row.audience, row.name>>
                     /\ selects[i].asked # row.audience
<1>1. EditorWell /\ [EditorNext]_editorVars => [kept]_editorVars
  <2> SUFFICES ASSUME EditorWell, EditorNext PROVE kept
    OBVIOUS
  <2>1. ServerWell /\ DialogWell /\ edits \in Nat
    BY DEF EditorWell, DialogWell
  <2>2. CASE edits' = edits + 1
    <3>1. edits' # edits
      BY <2>1, <2>2
    <3>2. QED
      BY <3>1
  <2>3. CASE dialog'.rows = dialog.rows \/ dialog'.rows = << >> \/ dialog.rows = << >>
    BY <2>3, Nowhere
  <2>4. CASE DialogEdits
    BY <2>2, <2>4, EditsAre, EditFrame
  <2>5. CASE \/ RefreshPage \/ Load \/ OpenWizard \/ LeaveWizard \/ WizardEdits \/ SaveWizard
             \/ WizardAnswered \/ RoleChanges
             \/ \E e \in Editors : PutReads(e) \/ PutWrites(e) \/ PutFails(e)
    <3>1. CASE OpenWizard \/ LeaveWizard \/ WizardEdits
      <4>1. dialog' = dialog
        BY <2>1, <3>1, WizardKeeps DEF EditorWell, WizardEdits
      <4>2. QED
        BY <2>3, <4>1
    <3>2. CASE \/ RefreshPage \/ Load \/ SaveWizard \/ WizardAnswered \/ RoleChanges
               \/ \E e \in Editors : PutReads(e) \/ PutWrites(e) \/ PutFails(e)
      <4>1. dialog' = dialog
        BY <3>2, Zenon DEF RefreshPage, Load, SaveWizard, WizardAnswered, RoleChanges, PutReads,
                    PutWrites, PutFails
      <4>2. QED
        BY <2>3, <4>1
    <3>3. QED
      BY <2>5, <3>1, <3>2
  <2>6. CASE OpenDialog \/ CloseDialog \/ CancelEditing \/ DialogAnswered \/ SaveDialog
    <3>1. CASE OpenDialog \/ CloseDialog \/ CancelEditing
      <4>1. PICK d : dialog' = [d EXCEPT !.editing = FALSE, !.rows = << >>]
                     /\ DOMAIN d = DOMAIN dialog
        BY <3>1 DEF OpenDialog, CloseDialog, CancelEditing, NotEditing
      <4>2. "rows" \in DOMAIN dialog
        BY <2>1 DEF DialogWell, DialogForm
      <4>3. dialog'.rows = << >>
        BY <4>1, <4>2
      <4>4. QED
        BY <2>3, <4>3
    <3>2. CASE DialogAnswered
      <4>1. PICK saving : \/ NotEditing([dialog EXCEPT !.saving = saving])
                          \/ dialog' = [dialog EXCEPT !.saving = saving]
        BY <3>2, Zenon DEF DialogAnswered
      <4>2. [dialog EXCEPT !.saving = saving] =
               [open |-> dialog.open, editing |-> dialog.editing, saving |-> saving,
                rows |-> dialog.rows]
        BY <2>1 DEF DialogWell, DialogForm
      <4>3. dialog'.rows = << >> \/ dialog'.rows = dialog.rows
        BY <4>1, <4>2, Zenon DEF NotEditing
      <4>4. QED
        BY <2>3, <4>3
    <3>3. CASE SaveDialog
      <4>1. dialog' = [dialog EXCEPT !.saving = TRUE]
        BY <3>3 DEF SaveDialog
      <4>2. dialog'.rows = dialog.rows
        BY <2>1, <4>1 DEF DialogWell, DialogForm
      <4>3. QED
        BY <2>3, <4>2
    <3>4. QED
      BY <2>6, <3>1, <3>2, <3>3
  <2>7. CASE BeginEditing
    <3>1. dialog.rows = << >>
      BY <2>1, <2>7 DEF BeginEditing, DialogWell, DialogForm
    <3>2. QED
      BY <2>3, <3>1
  <2>8. CASE MenuSteps
    <3>1. PICK j \in DOMAIN selects :
            (\E force \in BOOLEAN : OpenMenu(j, force)) \/ RolesAnswered(j) \/ RolesFailed(j)
      BY <2>8 DEF MenuSteps
    <3>2. CASE (\E force \in BOOLEAN : OpenMenu(j, force)) \/ RolesFailed(j)
      <4>1. dialog' = dialog
        BY <3>2 DEF OpenMenu, RolesFailed
      <4>2. QED
        BY <2>3, <4>1
    <3>3. CASE RolesAnswered(j)
      BY <2>1, <3>3, RoleTaken
    <3>4. QED
      BY <3>1, <3>2, <3>3
  <2>9. QED
    BY <2>4, <2>5, <2>6, <2>7, <2>8, EditorSteps
<1>2. QED
  BY <1>1, EditorAlwaysWell, PTL DEF EditorSpec, RoleLostOnlyIfGone

-----------------------------------------------------------------------------
(* What the page requires once a draft is stored                           *)

JagRule(t) == Policy("ALLOW", "zts.jag_exchange", <<t.domain, t.name>>)
TargetRule(t, audience) ==
  Policy("ALLOW", "zts.token_target_exchange", <<t.domain, audience, t.name>>)
SourceRule(t, audience) == Policy("ALLOW", "zts.token_source_exchange", <<audience, t.domain>>)
RuleFor(r, rule) == [role |-> r, rule |-> rule]
JagRow(x) == PolicyRow(JagRule(x.role), HelperRole(x.role, "jag"), "helper", x.index)
TargetRow(x, audience) ==
  PolicyRow(TargetRule(x.role, audience), HelperRole(x.role, "target"), "helper", x.index)

LEMMA RulesAre ==
  ASSUME NEW target, NEW audience, NEW sourceRole
  PROVE  LET rules == ExchangeRules(target, audience, sourceRole) IN
         /\ IsSequence(rules)
         /\ 1 \in DOMAIN rules /\ rules[1] = RuleFor(HelperRole(target, "jag"), JagRule(target))
         /\ ToSet(rules) =
              {RuleFor(HelperRole(target, "jag"), JagRule(target)),
               RuleFor(HelperRole(target, "target"), TargetRule(target, audience))}
              \cup IF sourceRole = None THEN {}
                   ELSE {RuleFor(sourceRole, SourceRule(target, audience))}
<1> DEFINE a == RuleFor(HelperRole(target, "jag"), JagRule(target))
           b == RuleFor(sourceRole, SourceRule(target, audience))
           c == RuleFor(HelperRole(target, "target"), TargetRule(target, audience))
           middle == IF sourceRole = None THEN << >> ELSE <<b>>
           rules == <<a>> \o middle \o <<c>>
<1>1. ExchangeRules(target, audience, sourceRole) = rules
  BY DEF ExchangeRules, RuleFor, JagRule, SourceRule, TargetRule
<1> HIDE DEF a, b, c
<1>2. IsSequence(middle) /\ ToSet(middle) = IF sourceRole = None THEN {} ELSE {b}
  BY ShortSequences, Zenon
<1>3. IsSequence(<<a>>) /\ ToSet(<<a>>) = {a} /\ IsSequence(<<c>>) /\ ToSet(<<c>>) = {c}
  BY ShortSequences
<1> HIDE DEF middle
<1>4. IsSequence(<<a>> \o middle) /\ ToSet(<<a>> \o middle) = {a} \cup ToSet(middle)
  BY <1>2, <1>3, Appended
<1>5. IsSequence(rules) /\ ToSet(rules) = {a} \cup ToSet(middle) \cup {c}
  BY <1>3, <1>4, Appended
<1>6. 1 \in DOMAIN rules /\ rules[1] = a
  <2> DEFINE U == {a} \cup ToSet(middle) \cup {c}
  <2>1. middle \in Seq(U) /\ <<a>> \in Seq(U) /\ <<c>> \in Seq(U)
    BY <1>2 DEF IsSequence
  <2> HIDE DEF U
  <2>2. <<a>> \o middle \in Seq(U) /\ Len(<<a>> \o middle) = 1 + Len(middle)
        /\ (<<a>> \o middle)[1] = a
    BY <2>1
  <2>3. QED
    BY <2>1, <2>2
<1>7. ToSet(rules) = {a, c} \cup IF sourceRole = None THEN {} ELSE {b}
  BY <1>2, <1>5
<1> HIDE DEF rules
<1>8. QED
  BY <1>1, <1>5, <1>6, <1>7 DEF a, b, c

\* What a row is expected to have: the rules that its own role is exchanged by,
\* as a helper's if a tool requires it.
ExpectedFrom(p, row, audience) ==
  \/ row.source = "tool" /\ (p = JagRow(row) \/ p = TargetRow(row, audience))
  \/ p.source = "managed" /\ p.action = "zts.token_source_exchange"
  \/ row.source # "tool" /\ p.source = "managed" /\ PolicyKey(p) = PolicyKey(JagRow(row))

LEMMA ExpectedRows ==
  ASSUME NEW row, NEW audience, NEW sourceRole
  PROVE  LET expected == ToSet(ExpectedOf(row, audience, sourceRole)) IN
         /\ \A p \in expected : row.configured = SignedIn /\ ExpectedFrom(p, row, audience)
         /\ row.configured = SignedIn /\ row.source = "tool" =>
              JagRow(row) \in expected /\ TargetRow(row, audience) \in expected
<1> DEFINE known == IF row.source = "tool" THEN sourceRole ELSE None
           rules == ExchangeRules(row.role, audience, known)
           sourceOf(k) == IF row.source = "tool" /\ rules[k].rule.action # "zts.token_source_exchange"
                          THEN "helper" ELSE "managed"
           rowFor(k) == PolicyRow(rules[k].rule, rules[k].role, sourceOf(k), row.index)
           expected == ExpectedOf(row, audience, sourceRole)
           n == Len(rules)
           jag == RuleFor(HelperRole(row.role, "jag"), JagRule(row.role))
           target == RuleFor(HelperRole(row.role, "target"), TargetRule(row.role, audience))
           src == RuleFor(known, SourceRule(row.role, audience))
<1>1. expected = IF row.configured # SignedIn THEN << >>
                 ELSE IF row.source = "tool" THEN [k \in DOMAIN rules |-> rowFor(k)]
                 ELSE << rowFor(1) >>
  BY DEF ExpectedOf
<1>2. /\ IsSequence(rules) /\ 1 \in DOMAIN rules /\ rules[1] = jag
      /\ ToSet(rules) = {jag, target} \cup IF known = None THEN {} ELSE {src}
  BY RulesAre
<1>3. /\ jag.rule = JagRule(row.role) /\ jag.role = HelperRole(row.role, "jag")
      /\ target.rule = TargetRule(row.role, audience) /\ target.role = HelperRole(row.role, "target")
      /\ src.rule = SourceRule(row.role, audience)
      /\ jag.rule.action # "zts.token_source_exchange"
      /\ target.rule.action # "zts.token_source_exchange"
      /\ src.rule.action = "zts.token_source_exchange"
  BY DEF RuleFor, JagRule, TargetRule, SourceRule, Policy
<1> HIDE DEF rules, jag, target, src
<1>4. n \in Nat /\ DOMAIN rules = 1..n /\ ToSet(rules) = {rules[k] : k \in 1..n}
  BY <1>2, SequenceIs, Zenon
<1> HIDE DEF expected, n
<1>5. CASE row.configured # SignedIn
  <2>1. expected = << >> /\ ToSet(<< >>) = {}
    BY <1>1, <1>5, ShortSequences
  <2>2. QED
    BY <1>5, <2>1 DEF expected
<1>6. CASE row.configured = SignedIn /\ row.source = "tool"
  <2>1. expected = [k \in 1..n |-> rowFor(k)]
    BY <1>1, <1>4, <1>6
  <2>2. ASSUME NEW k \in 1..n
        PROVE  /\ ExpectedFrom(rowFor(k), row, audience)
               /\ rules[k] = jag => rowFor(k) = JagRow(row)
               /\ rules[k] = target => rowFor(k) = TargetRow(row, audience)
    <3>1. rules[k] \in {jag, target, src}
      BY <1>2, <1>4
    <3>2. CASE rules[k] = jag
      <4>1. rowFor(k) = JagRow(row)
        BY <1>3, <1>6, <3>2 DEF JagRow
      <4>2. rules[k] = target => rowFor(k) = TargetRow(row, audience)
        BY <1>3, <1>6 DEF TargetRow
      <4> HIDE DEF rowFor
      <4>3. QED
        BY <1>6, <4>1, <4>2 DEF ExpectedFrom
    <3>3. CASE rules[k] = target
      <4>1. rowFor(k) = TargetRow(row, audience)
        BY <1>3, <1>6, <3>3 DEF TargetRow
      <4>2. rules[k] = jag => rowFor(k) = JagRow(row)
        BY <1>3, <1>6 DEF JagRow
      <4> HIDE DEF rowFor
      <4>3. QED
        BY <1>6, <4>1, <4>2 DEF ExpectedFrom
    <3>4. CASE rules[k] = src /\ rules[k] # jag /\ rules[k] # target
      <4>1. rowFor(k).source = "managed" /\ rowFor(k).action = "zts.token_source_exchange"
        BY <1>3, <3>4 DEF PolicyRow
      <4> HIDE DEF rowFor
      <4>2. QED
        BY <3>4, <4>1 DEF ExpectedFrom
    <3>5. QED
      BY <3>1, <3>2, <3>3, <3>4
  <2> HIDE DEF rowFor
  <2>3. expected = [k \in 1..n |-> expected[k]] /\ \A k \in 1..n : expected[k] = rowFor(k)
    BY <2>1
  <2>4. ToSet(expected) = {expected[k] : k \in 1..n}
    BY <1>4, <2>3, Listed1
  <2>5. (\E k \in 1..n : rules[k] = jag) /\ (\E k \in 1..n : rules[k] = target)
    BY <1>2, <1>4
  <2>6. JagRow(row) \in ToSet(expected) /\ TargetRow(row, audience) \in ToSet(expected)
    BY <2>2, <2>3, <2>4, <2>5
  <2>7. QED
    BY <1>6, <2>2, <2>3, <2>4, <2>6 DEF expected
<1>7. CASE row.configured = SignedIn /\ row.source # "tool"
  <2>1. expected = << rowFor(1) >>
    BY <1>1, <1>7
  <2>2. ToSet(expected) = {rowFor(1)}
    BY <2>1, ShortSequences
  <2>3. rowFor(1).source = "managed" /\ PolicyKey(rowFor(1)) = PolicyKey(JagRow(row))
    BY <1>2, <1>3, <1>7 DEF PolicyRow, JagRow, PolicyKey
  <2> HIDE DEF rowFor
  <2>4. QED
    BY <1>7, <2>2, <2>3 DEF ExpectedFrom, expected
<1>8. QED
  BY <1>5, <1>6, <1>7

\* An expected policy stands for a row, and not in the place of a helper's own.
Stands(p, g) ==
  /\ p.role \in {row.role : row \in ToSet(g.requirements)}
  /\ p.source = "helper" => <<p.index, p.role>> \notin CustomizedRoles(g)
AllExpected(g, audience) ==
  UNION {ToSet(ExpectedOf(x, audience, SourceRoleOf(g))) : x \in ToSet(g.requirements)}

\* The policies that are added are expected and stand, and each that does is
\* there, added or before.
LEMMA AddedPolicies ==
  ASSUME NEW g, IsGroup(g), IsSequence(g.requirements), IsSequence(g.policies),
         NEW audience, audience # None
  PROVE  LET w == WithExpectedPolicies(g, audience) IN
         /\ w.requirements = g.requirements
         /\ ToSet(g.policies) \subseteq ToSet(w.policies)
         /\ \A p \in ToSet(w.policies) :
              p \in ToSet(g.policies) \/ (p \in AllExpected(g, audience) /\ Stands(p, g))
         /\ \A p \in AllExpected(g, audience) : Stands(p, g) =>
              \E q \in ToSet(w.policies) :
                 PolicyKey(q) = PolicyKey(p)
                 /\ (q \in ToSet(g.policies) \/ q \in AllExpected(g, audience))
<1> DEFINE rows == g.requirements
           n == Len(rows)
           parts == [i \in DOMAIN rows |-> ExpectedOf(rows[i], audience, SourceRoleOf(g))]
           expected == FlattenSeq(parts)
           w == WithExpectedPolicies(g, audience)
<1>1. n \in Nat /\ DOMAIN rows = 1..n /\ ToSet(rows) = {rows[i] : i \in 1..n}
  BY SequenceIs
<1> HIDE DEF n
<1>2. parts = [i \in 1..n |-> parts[i]]
      /\ \A i \in 1..n : parts[i] = ExpectedOf(rows[i], audience, SourceRoleOf(g))
  BY <1>1
<1> HIDE DEF parts
<1>3. \A i \in 1..n : IsSequence(parts[i])
  BY <1>2, ExpectedOfRow
<1>4. IsSequence(expected) /\ ToSet(expected) = UNION {ToSet(parts[i]) : i \in 1..n}
  BY <1>1, <1>2, <1>3, Concatenated, Zenon
<1>5. ToSet(expected) = AllExpected(g, audience)
  BY <1>1, <1>2, <1>4 DEF AllExpected
<1> DEFINE present == {PolicyKey(p) : p \in ToSet(g.policies)}
           applies(k) ==
              /\ ~Unlisted(expected[k], {row.role : row \in ToSet(g.requirements)})
              /\ expected[k].source = "helper" =>
                    <<expected[k].index, expected[k].role>> \notin CustomizedRoles(g)
           first(k) == \A j \in 1 .. k - 1 :
                          applies(j) => PolicyKey(expected[j]) # PolicyKey(expected[k])
           kept == {k \in DOMAIN expected :
                      applies(k) /\ PolicyKey(expected[k]) \notin present /\ first(k)}
           added == Selected(expected, kept)
           m == Len(expected)
<1>6. w = [g EXCEPT !.policies = @ \o added]
  BY DEF WithExpectedPolicies, Adopted, parts
<1> HIDE DEF expected
<1>7. \A k : applies(k) <=> Stands(expected[k], g)
  BY DEF Unlisted, Stands
<1>8. m \in Nat /\ DOMAIN expected = 1..m /\ ToSet(expected) = {expected[k] : k \in 1..m}
  BY <1>4, SequenceIs, Zenon
<1> HIDE DEF applies, m
<1>9. /\ \A k \in kept : k \in 1..m /\ applies(k)
      /\ \A k \in 1..m : applies(k) /\ PolicyKey(expected[k]) \notin present /\ first(k) => k \in kept
  BY <1>8
<1> HIDE DEF kept
<1>10. IsSequence(added) /\ ToSet(added) = {expected[k] : k \in kept \cap DOMAIN expected}
  BY <1>4, SelectedElements
<1> HIDE DEF added
<1>11. w = [requirements |-> rows, policies |-> g.policies \o added]
  BY <1>6, Zenon DEF IsGroup
<1>12. ToSet(g.policies \o added) = ToSet(g.policies) \cup ToSet(added)
  BY <1>10, Appended
<1>13. w.requirements = rows /\ ToSet(w.policies) = ToSet(g.policies) \cup ToSet(added)
  BY <1>11, <1>12
<1>14. \A p \in ToSet(added) : p \in ToSet(expected) /\ Stands(p, g)
  BY <1>7, <1>8, <1>9, <1>10
<1>15. ASSUME NEW p \in ToSet(expected), Stands(p, g)
       PROVE  \E q \in ToSet(g.policies) \cup ToSet(added) :
                PolicyKey(q) = PolicyKey(p) /\ (q \in ToSet(g.policies) \/ q \in ToSet(expected))
  <2>1. CASE PolicyKey(p) \in present
    BY <2>1
  <2>2. CASE PolicyKey(p) \notin present
    <3> DEFINE S == {j \in 1..m : applies(j) /\ PolicyKey(expected[j]) = PolicyKey(p)}
    <3>1. S # {} /\ S \in SUBSET Nat
      BY <1>7, <1>8, <1>15
    <3> HIDE DEF S
    <3>2. PICK k \in S : \A j \in S : k <= j
      BY <3>1, Least
    <3>3. k \in 1..m /\ applies(k) /\ PolicyKey(expected[k]) = PolicyKey(p)
      BY <3>2 DEF S
    <3>4. first(k)
      <4>1. ASSUME NEW j \in 1 .. k - 1, applies(j), PolicyKey(expected[j]) = PolicyKey(expected[k])
            PROVE  FALSE
        <5>1. j \in 1..m /\ j < k
          BY <1>8, <3>3
        <5>2. j \in S
          BY <3>3, <4>1, <5>1 DEF S
        <5>3. k <= j
          BY <3>2, <5>2
        <5>4. QED
          BY <3>3, <5>1, <5>3
      <4>2. QED
        BY <4>1
    <3>5. k \in kept
      BY <1>9, <2>2, <3>3, <3>4
    <3>6. expected[k] \in ToSet(added) /\ expected[k] \in ToSet(expected)
      BY <1>8, <1>10, <3>3, <3>5
    <3>7. QED
      BY <3>3, <3>6
  <2>3. QED
    BY <2>1, <2>2
<1> HIDE DEF w, rows
<1>16. \A p \in ToSet(w.policies) :
         p \in ToSet(g.policies) \/ (p \in AllExpected(g, audience) /\ Stands(p, g))
  <2>1. ASSUME NEW p \in ToSet(added) PROVE p \in AllExpected(g, audience) /\ Stands(p, g)
    <3>1. p \in ToSet(expected) /\ Stands(p, g)
      BY <1>14
    <3>2. QED
      BY <1>5, <3>1
  <2>2. QED
    BY <1>13, <2>1
<1>17. \A p \in AllExpected(g, audience) : Stands(p, g) =>
         \E q \in ToSet(w.policies) :
            PolicyKey(q) = PolicyKey(p)
            /\ (q \in ToSet(g.policies) \/ q \in AllExpected(g, audience))
  BY <1>5, <1>13, <1>15
<1>18. w.requirements = g.requirements /\ ToSet(g.policies) \subseteq ToSet(w.policies)
  BY <1>13 DEF rows
<1>19. QED
  BY <1>16, <1>17, <1>18 DEF w

RoleOf(row) == ConfiguredRole(row.audience, row.name)
IsNamed(row) == row.audience # "" /\ row.name # ""
IsSigned(row) == row.type = "signed-in-user"

LEMMA Pair ==
  ASSUME NEW a, NEW b
  PROVE  DOMAIN <<a, b>> = 1..2 /\ <<a, b>>[1] = a /\ <<a, b>>[2] = b
OBVIOUS

LEMMA OneOrTwo ==
  ASSUME NEW k \in 1..2
  PROVE  k = 1 \/ k = 2
OBVIOUS

LEMMA HelperIs ==
  ASSUME NEW m, NEW r, NEW ps
  PROVE  Helper(m, r, ps).member = m /\ Helper(m, r, ps).role = r /\ Helper(m, r, ps).policies = ps
BY DEF Helper

LEMMA RuleForIs ==
  ASSUME NEW r, NEW p
  PROVE  RuleFor(r, p).role = r /\ RuleFor(r, p).rule = p
BY DEF RuleFor

LEMMA GeneratedHelpersAre ==
  ASSUME NEW r
  PROVE  LET hs == GeneratedHelperRows(r) IN
         /\ DOMAIN hs = 1..2
         /\ hs[1].member = Gateway /\ hs[1].role = HelperRole(r, "jag") /\ hs[1].policies = None
         /\ hs[2].member = Service /\ hs[2].role = HelperRole(r, "target") /\ hs[2].policies = None
<1> DEFINE a == Helper(Gateway, HelperRole(r, "jag"), None)
           b == Helper(Service, HelperRole(r, "target"), None)
<1>1. /\ a.member = Gateway /\ a.role = HelperRole(r, "jag") /\ a.policies = None
      /\ b.member = Service /\ b.role = HelperRole(r, "target") /\ b.policies = None
  BY HelperIs
<1>2. GeneratedHelperRows(r) = <<a, b>>
  BY DEF GeneratedHelperRows
<1> HIDE DEF a, b
<1>3. QED
  BY <1>1, <1>2, Pair

\* The rules of one role, out of those for a target.
RulesOf(rules, r) ==
  LET mine == Selected(rules, {k \in DOMAIN rules : rules[k].role = r}) IN
  [k \in DOMAIN mine |-> mine[k].rule]
LEMMA RulesOfRole ==
  ASSUME NEW rules, IsSequence(rules), NEW r
  PROVE  /\ IsSequence(RulesOf(rules, r))
         /\ ToSet(RulesOf(rules, r)) = {x.rule : x \in {y \in ToSet(rules) : y.role = r}}
<1> DEFINE q == Selected(rules, {k \in DOMAIN rules : rules[k].role = r})
           p == RulesOf(rules, r)
           n == Len(q)
<1>1. IsSequence(q)
      /\ ToSet(q) = {rules[k] : k \in {j \in DOMAIN rules : rules[j].role = r} \cap DOMAIN rules}
  BY SelectedElements
<1>2. ToSet(q) = {y \in ToSet(rules) : y.role = r}
  BY <1>1, Zenon DEF ToSet
<1>3. p = [k \in DOMAIN q |-> q[k].rule]
  BY DEF RulesOf
<1> HIDE DEF q, p
<1>4. n \in Nat /\ DOMAIN q = 1..n /\ ToSet(q) = {q[k] : k \in 1..n}
  BY <1>1, SequenceIs, Zenon
<1> HIDE DEF n
<1>5. p = [k \in 1..n |-> p[k]] /\ \A k \in 1..n : p[k] = q[k].rule
  BY <1>3, <1>4
<1>6. IsSequence(p) /\ ToSet(p) = {p[k] : k \in 1..n}
  BY <1>4, <1>5, Listed1
<1>7. {p[k] : k \in 1..n} = {q[k].rule : k \in 1..n}
  BY <1>5
<1>8. {q[k].rule : k \in 1..n} = {x.rule : x \in {q[k] : k \in 1..n}}
  OBVIOUS
<1>9. QED
  BY <1>2, <1>4, <1>6, <1>7, <1>8, Zenon DEF p

\* The helpers that are generated for a role: one for each of its two rules.
LEMMA GeneratedFor ==
  ASSUME NEW target, IsDirectRole(target), NEW audience
  PROVE  LET rules == ExchangeRules(target, audience, None) IN
         /\ ToSet(RulesOf(rules, HelperRole(target, "jag"))) = {JagRule(target)}
         /\ ToSet(RulesOf(rules, HelperRole(target, "target"))) = {TargetRule(target, audience)}
<1> DEFINE rules == ExchangeRules(target, audience, None)
           jag == HelperRole(target, "jag")
           tgt == HelperRole(target, "target")
           a == RuleFor(jag, JagRule(target))
           b == RuleFor(tgt, TargetRule(target, audience))
<1>1. jag # tgt
  BY DEF HelperRole, IsDirectRole, Role
<1>2. IsSequence(rules) /\ ToSet(rules) = {a, b} \cup {}
  BY RulesAre
<1>3. a.role = jag /\ a.rule = JagRule(target) /\ b.role = tgt /\ b.rule = TargetRule(target, audience)
  BY RuleForIs
<1> HIDE DEF rules, jag, tgt, a, b
<1>4. {y \in ToSet(rules) : y.role = jag} = {a} /\ {y \in ToSet(rules) : y.role = tgt} = {b}
  BY <1>1, <1>2, <1>3
<1>5. {x.rule : x \in {a}} = {a.rule} /\ {x.rule : x \in {b}} = {b.rule}
  OBVIOUS
<1>6. /\ ToSet(RulesOf(rules, jag)) = {JagRule(target)}
      /\ ToSet(RulesOf(rules, tgt)) = {TargetRule(target, audience)}
  BY <1>2, <1>3, <1>4, <1>5, RulesOfRole
<1>7. QED
  BY <1>6 DEF rules, jag, tgt

LEMMA GeneratedIs ==
  ASSUME Service # None, NEW audience, audience # None, NEW row, IsNamed(row)
  PROVE  LET hs == GeneratedDraft(row, audience) IN
         /\ DOMAIN hs = 1..2 /\ hs = [k \in 1..2 |-> hs[k]]
         /\ hs[1].member = Gateway /\ hs[1].role = HelperRole(RoleOf(row), "jag")
         /\ ToSet(hs[1].policies) = {JagRule(RoleOf(row))}
         /\ hs[2].member = Service /\ hs[2].role = HelperRole(RoleOf(row), "target")
         /\ ToSet(hs[2].policies) = {TargetRule(RoleOf(row), audience)}
<1> DEFINE target == RoleOf(row)
           rules == ExchangeRules(target, audience, None)
           hs == GeneratedHelperRows(target)
           drafted(k) == DraftHelper(hs[k].member, hs[k].role, RulesOf(rules, hs[k].role))
           ds == [k \in DOMAIN hs |-> drafted(k)]
<1>1. RoleValid(target) /\ IsDirectRole(target)
  BY DEF IsNamed, RoleValid, IsDirectRole, RoleOf, ConfiguredRole, Role
<1>2. GeneratedDraft(row, audience) = ds
  BY <1>1 DEF GeneratedDraft, RoleOf, RulesOf
<1> HIDE DEF target
<1>3. /\ ToSet(RulesOf(rules, HelperRole(target, "jag"))) = {JagRule(target)}
      /\ ToSet(RulesOf(rules, HelperRole(target, "target"))) = {TargetRule(target, audience)}
  BY <1>1, GeneratedFor
<1>4. /\ DOMAIN hs = 1..2
      /\ hs[1].member = Gateway /\ hs[1].role = HelperRole(target, "jag")
      /\ hs[2].member = Service /\ hs[2].role = HelperRole(target, "target")
  BY GeneratedHelpersAre
<1>11. IsSequence(rules)
  BY RulesAre
<1> HIDE DEF hs, rules
<1>5. ASSUME NEW k \in 1..2
      PROVE  /\ drafted(k).member = hs[k].member /\ drafted(k).role = hs[k].role
             /\ drafted(k).policies = RulesOf(rules, hs[k].role)
  <2>1. IsSequence(RulesOf(rules, hs[k].role))
    BY <1>11, RulesOfRole
  <2>2. QED
    BY <2>1, DraftHelperIs
<1> HIDE DEF drafted
<1>6. DOMAIN ds = 1..2 /\ ds[1] = drafted(1) /\ ds[2] = drafted(2)
  BY <1>4
<1>7. ds = [k \in 1..2 |-> ds[k]]
  BY <1>4, <1>6, Zenon
<1> HIDE DEF ds
<1>8. /\ ds[1].member = Gateway /\ ds[1].role = HelperRole(target, "jag")
      /\ ToSet(ds[1].policies) = {JagRule(target)}
      /\ ds[2].member = Service /\ ds[2].role = HelperRole(target, "target")
      /\ ToSet(ds[2].policies) = {TargetRule(target, audience)}
  BY <1>3, <1>4, <1>5, <1>6
<1>9. QED
  BY <1>2, <1>6, <1>7, <1>8 DEF target

\* The requirements that a draft stands for, one for each of its rows.
OwnHelpers(row) == [k \in DOMAIN row.helpers |-> ConfiguredHelper(row.helpers[k])]
MemberBy(row) == IF IsSigned(row) THEN SignedIn ELSE row.member
IncludedBy(row) == IF IsSigned(row) THEN TRUE ELSE None
HelpersBy(row) == IF IsSigned(row) /\ row.customized THEN OwnHelpers(row) ELSE None
RequirementFor(row) == Requirement(MemberBy(row), RoleOf(row), IncludedBy(row), HelpersBy(row))

LEMMA RequirementForIs ==
  ASSUME NEW row
  PROVE  LET q == RequirementFor(row) IN
         /\ q = [member |-> q.member, role |-> q.role, include |-> q.include,
                 helpers |-> q.helpers]
         /\ q.member = MemberBy(row) /\ q.role = RoleOf(row) /\ q.include = IncludedBy(row)
         /\ q.helpers = HelpersBy(row)
BY DEF RequirementFor, Requirement

\* What is stored of a draft is what was asked for: there is nothing legacy in it.
LEMMA StoredIsAsked ==
  ASSUME NEW rows
  PROVE  ParsedRequirements(ConfiguredRows(rows, TRUE)) =
           [i \in DOMAIN rows |-> RequirementFor(rows[i])]
<1> DEFINE rs == ConfiguredRows(rows, TRUE)
<1>1. DOMAIN rs = DOMAIN rows
  BY DEF ConfiguredRows
<1>2. ASSUME NEW i \in DOMAIN rows PROVE rs[i] = RequirementFor(rows[i])
  BY DEF ConfiguredRows, IsSigned, RoleOf, OwnHelpers, RequirementFor, MemberBy, IncludedBy,
         HelpersBy
<1> HIDE DEF rs
<1>3. ASSUME NEW i \in DOMAIN rows
      PROVE  (IF rs[i].helpers = None THEN rs[i]
              ELSE [rs[i] EXCEPT !.helpers = [k \in DOMAIN @ |-> ParsedHelper(@[k])]])
               = RequirementFor(rows[i])
  <2>1. CASE rs[i].helpers = None
    BY <1>2, <2>1
  <2>2. CASE rs[i].helpers # None
    <3> DEFINE hs == OwnHelpers(rows[i])
    <3>1. rs[i] = [member |-> rs[i].member, role |-> rs[i].role, include |-> rs[i].include,
                   helpers |-> hs]
      BY <1>2, <2>2, RequirementForIs DEF HelpersBy
    <3>2. [k \in DOMAIN hs |-> ParsedHelper(hs[k])] = hs
      <4>1. \A k \in DOMAIN hs : ParsedHelper(hs[k]) = hs[k]
        BY DEF OwnHelpers, ParsedHelper, ConfiguredHelper, Helper
      <4>2. hs = [k \in DOMAIN hs |-> hs[k]]
        BY DEF OwnHelpers
      <4> HIDE DEF hs
      <4>3. QED
        BY <4>1, <4>2
    <3> HIDE DEF hs
    <3>3. [rs[i] EXCEPT !.helpers = [k \in DOMAIN @ |-> ParsedHelper(@[k])]] = rs[i]
      BY <3>1, <3>2
    <3>4. QED
      BY <1>2, <2>2, <3>3
  <2>3. QED
    BY <2>1, <2>2
<1>4. ParsedRequirements(rs) =
        [i \in DOMAIN rs |->
          IF rs[i].helpers = None THEN rs[i]
          ELSE [rs[i] EXCEPT !.helpers = [k \in DOMAIN @ |-> ParsedHelper(@[k])]]]
  BY DEF ParsedRequirements
<1>5. ParsedRequirements(rs) = [i \in DOMAIN rows |-> RequirementFor(rows[i])]
  BY <1>1, <1>3, <1>4
<1>6. QED
  BY <1>5, Zenon DEF rs

\* The rows of a page that are made of one of a draft.
Displayed(row) == DisplayedHelpers(row, EditorAudience)
ToolOf(x, row, i) ==
  /\ x.source = "tool" /\ x.configured = row.member /\ x.role = RoleOf(row) /\ x.index = i
  /\ x.member = ResolvedMember(row.member)
HelperOf(x, row, i, h) ==
  /\ x.source = "helper" /\ x.configured = h.member /\ x.role = h.role /\ x.index = i
  /\ x.policies = IF row.customized THEN h.policies ELSE None
MadeOf(xs, row, i) ==
  /\ \A x \in xs : \/ ToolOf(x, row, i)
                   \/ IsSigned(row) /\ \E h \in ToSet(Displayed(row)) : HelperOf(x, row, i, h)
  /\ \E x \in xs : ToolOf(x, row, i)
  /\ IsSigned(row) => \A h \in ToSet(Displayed(row)) : \E x \in xs : HelperOf(x, row, i, h)

\* What is absent is no sequence, no settings and not a Boolean.
NothingAbsent ==
  /\ ~IsSequence(None) /\ None # TRUE
  /\ \A default, ts : None # [default |-> default, tools |-> ts]

LEMMA HelperRowIs ==
  ASSUME NEW h, NEW i
  PROVE  LET x == HelperRow(h, i) IN
         /\ x.source = "helper" /\ x.configured = h.member /\ x.role = h.role /\ x.index = i
         /\ x.policies = h.policies
BY DEF HelperRow, Row

LEMMA RowsOfAsked ==
  ASSUME NothingAbsent, EditorAudience # None, NEW row, IsDraft(row),
         IsNamed(row), NEW i
  PROVE  LET xs == RowsOf(RequirementFor(row), i) IN
         IsSequence(xs) /\ MadeOf(ToSet(xs), row, i)
<1> DEFINE q == RequirementFor(row)
           d == DirectRow(q, i)
<1>1. q.role = RoleOf(row) /\ q.member = row.member
  BY RequirementForIs DEF MemberBy, IsDraft, IsSigned
<1>2. IsDirectRole(RoleOf(row))
  BY DEF IsDirectRole, RoleOf, ConfiguredRole, Role
<1>3. ToolOf(d, row, i)
  BY <1>1, <1>2, DirectRowIs DEF ToolOf, IsToolRow
<1>4. IsSequence(<<d>>) /\ ToSet(<<d>>) = {d}
  BY ShortSequences
<1> HIDE DEF d
<1>5. CASE ~IsSigned(row)
  <2>1. q.include # TRUE
    BY <1>5, RequirementForIs, Zenon DEF IncludedBy, NothingAbsent
  <2>2. RowsOf(q, i) = <<d>>
    BY <2>1 DEF RowsOf, d
  <2>3. QED
    BY <1>3, <1>4, <1>5, <2>2 DEF MadeOf
<1>6. CASE IsSigned(row)
  <2> DEFINE hs == IF q.helpers = None THEN GeneratedHelperRows(q.role) ELSE q.helpers
             hrows == [k \in DOMAIN hs |-> HelperRow(hs[k], i)]
             shown == Displayed(row)
  <2>1. q.include = TRUE
    BY <1>6, RequirementForIs, Zenon DEF IncludedBy
  <2>2. RowsOf(q, i) = <<d>> \o hrows
    BY <2>1, Zenon DEF RowsOf, d
  <2>3. \E n \in Nat :
          /\ DOMAIN hs = 1..n /\ DOMAIN shown = 1..n
          /\ shown = [k \in 1..n |-> shown[k]]
          /\ \A k \in 1..n : /\ hs[k].member = shown[k].member /\ hs[k].role = shown[k].role
                             /\ hs[k].policies = IF row.customized THEN shown[k].policies ELSE None
    <3>1. CASE row.customized
      <4> DEFINE own == row.helpers
                 n == Len(own)
      <4>1. IsSequence(own)
        BY DEF IsDraft, DraftHelpers
      <4>2. n \in Nat /\ DOMAIN own = 1..n
        BY <4>1, SequenceIs
      <4>3. shown = [k \in DOMAIN own |->
                       IF own[k].type = "mcp-service" /\ Service # None
                       THEN [own[k] EXCEPT !.member = Service] ELSE own[k]]
        BY <3>1 DEF Displayed, DisplayedHelpers
      <4>4. q.helpers = [k \in DOMAIN own |-> ConfiguredHelper(own[k])]
        BY <1>6, <3>1, RequirementForIs DEF HelpersBy, OwnHelpers
      <4> HIDE DEF q, shown
      <4>5. \A k \in 1..n : own[k] = [member |-> own[k].member, type |-> own[k].type,
                                      role |-> own[k].role, policies |-> own[k].policies]
        BY <4>1, SequenceIs DEF IsDraft, DraftHelpers, IsDraftHelper
      <4> HIDE DEF own, n
      <4>6. q.helpers # None
        <5>1. q.helpers = [k \in 1..n |-> q.helpers[k]]
          BY <4>2, <4>4
        <5>2. IsSequence(q.helpers)
          BY <4>2, <5>1, Listed1
        <5>3. QED
          BY <5>2 DEF NothingAbsent
      <4>7. hs = q.helpers
        BY <4>6
      <4> HIDE DEF hs
      <4>8. DOMAIN hs = 1..n /\ DOMAIN shown = 1..n /\ shown = [k \in 1..n |-> shown[k]]
        BY <4>2, <4>3, <4>4, <4>7
      <4>9. ASSUME NEW k \in 1..n
            PROVE  /\ hs[k].member = shown[k].member /\ hs[k].role = shown[k].role
                   /\ hs[k].policies = shown[k].policies
        <5>1. hs[k] = ConfiguredHelper(own[k])
          BY <4>2, <4>4, <4>7
        <5>2. shown[k] = IF own[k].type = "mcp-service" /\ Service # None
                         THEN [own[k] EXCEPT !.member = Service] ELSE own[k]
          BY <4>2, <4>3
        <5>3. /\ shown[k].role = own[k].role /\ shown[k].policies = own[k].policies
              /\ shown[k].member = IF own[k].type = "mcp-service" /\ Service # None
                                   THEN Service ELSE own[k].member
          BY <4>5, <5>2
        <5>4. QED
          BY <5>1, <5>3 DEF ConfiguredHelper, Helper
      <4>10. QED
        BY <3>1, <4>2, <4>8, <4>9
    <3>2. CASE ~row.customized
      <4>1. shown = GeneratedDraft(row, EditorAudience)
        BY <3>2 DEF Displayed, DisplayedHelpers
      <4>2. Service # None
        BY EditorAssumption
      <4>3. /\ DOMAIN shown = 1..2
            /\ shown[1].member = Gateway /\ shown[1].role = HelperRole(RoleOf(row), "jag")
            /\ shown[2].member = Service /\ shown[2].role = HelperRole(RoleOf(row), "target")
        BY <4>1, <4>2, GeneratedIs
      <4>4. DraftHelpers(shown)
        BY <4>1, GeneratedDraftWell
      <4> HIDE DEF shown
      <4>5. shown = [k \in 1..2 |-> shown[k]]
        <5>1. shown = [k \in 1..Len(shown) |-> shown[k]] /\ DOMAIN shown = 1..Len(shown)
          BY <4>4, SequenceIs DEF DraftHelpers
        <5>2. QED
          BY <4>3, <5>1
      <4>6. q.helpers = None
        BY <1>6, <3>2, RequirementForIs DEF HelpersBy
      <4>7. hs = GeneratedHelperRows(RoleOf(row))
        BY <1>1, <4>6
      <4> HIDE DEF hs, q
      <4>8. /\ DOMAIN hs = 1..2 /\ hs[1].policies = None /\ hs[2].policies = None
            /\ hs[1].member = Gateway /\ hs[1].role = HelperRole(RoleOf(row), "jag")
            /\ hs[2].member = Service /\ hs[2].role = HelperRole(RoleOf(row), "target")
        BY <4>7 DEF GeneratedHelperRows, Helper
      <4>9. ASSUME NEW k \in 1..2
            PROVE  /\ hs[k].member = shown[k].member /\ hs[k].role = shown[k].role
                   /\ hs[k].policies = None
        <5>1. k = 1 \/ k = 2
          OBVIOUS
        <5>2. QED
          BY <4>3, <4>8, <5>1
      <4>10. QED
        BY <3>2, <4>3, <4>5, <4>8, <4>9
    <3>3. QED
      BY <3>1, <3>2
  <2> HIDE DEF hs, shown, q
  <2>4. PICK n \in Nat :
          /\ DOMAIN hs = 1..n /\ DOMAIN shown = 1..n
          /\ shown = [k \in 1..n |-> shown[k]]
          /\ \A k \in 1..n : /\ hs[k].member = shown[k].member /\ hs[k].role = shown[k].role
                             /\ hs[k].policies = IF row.customized THEN shown[k].policies ELSE None
    BY <2>3
  <2>5. hrows = [k \in 1..n |-> hrows[k]] /\ \A k \in 1..n : hrows[k] = HelperRow(hs[k], i)
    BY <2>4
  <2> HIDE DEF hrows
  <2>6. IsSequence(hrows) /\ ToSet(hrows) = {hrows[k] : k \in 1..n}
    BY <2>5, Listed1
  <2>7. ToSet(shown) = {shown[k] : k \in 1..n}
    BY <2>4, Listed1
  <2>8. \A k \in 1..n : HelperOf(hrows[k], row, i, shown[k])
    BY <2>4, <2>5, HelperRowIs DEF HelperOf
  <2>9. IsSequence(<<d>> \o hrows) /\ ToSet(<<d>> \o hrows) = {d} \cup ToSet(hrows)
    BY <1>4, <2>6, Appended
  <2>10. MadeOf({d} \cup ToSet(hrows), row, i)
    <3>1. \A x \in ToSet(hrows) : \E h \in ToSet(shown) : HelperOf(x, row, i, h)
      BY <2>6, <2>7, <2>8
    <3>2. \A h \in ToSet(shown) : \E x \in ToSet(hrows) : HelperOf(x, row, i, h)
      BY <2>6, <2>7, <2>8
    <3>3. QED
      BY <1>3, <1>6, <3>1, <3>2 DEF MadeOf, shown
  <2>11. QED
    BY <2>2, <2>9, <2>10, Zenon DEF q
<1>7. QED
  BY <1>5, <1>6

\* The group of a tool whose draft is stored: its rows are made of the draft's,
\* and its policies are those that the draft's helpers have for themselves.
Saved(rows) == ParsedRequirements(ConfiguredRows(rows, TRUE))
RowsMade(xs, rows) ==
  /\ \A x \in xs : x.source # "managed" =>
       \E i \in DOMAIN rows :
          \/ ToolOf(x, rows[i], i)
          \/ IsSigned(rows[i]) /\ \E h \in ToSet(Displayed(rows[i])) : HelperOf(x, rows[i], i, h)
  /\ \A i \in DOMAIN rows :
       /\ \E x \in xs : ToolOf(x, rows[i], i)
       /\ IsSigned(rows[i]) =>
            \A h \in ToSet(Displayed(rows[i])) : \E x \in xs : HelperOf(x, rows[i], i, h)
Checked(x, p) == PolicyRow(p, x.role, "helper", x.index)
PoliciesMade(ps, xs) ==
  /\ \A q \in ps : \E x \in xs : /\ x.source = "helper" /\ x.policies # None
                                 /\ \E p \in ToSet(x.policies) : q = Checked(x, p)
  /\ \A x \in xs : x.source = "helper" /\ x.policies # None =>
       \A p \in ToSet(x.policies) : Checked(x, p) \in ps

LEMMA SavedRows ==
  ASSUME NothingAbsent, EditorAudience # None, NEW rows, DraftWell(rows),
         \A row \in ToSet(rows) : IsNamed(row)
  PROVE  LET g == Group(Saved(rows)) IN
         /\ IsGroup(g) /\ IsSequence(g.requirements)
         /\ RowsMade(ToSet(g.requirements), rows)
         /\ \A x \in ToSet(g.requirements) : x.source # "managed"
<1> DEFINE rs == Saved(rows)
           n == Len(rows)
           parts == [i \in DOMAIN rs |-> RowsOf(rs[i], i)]
           g == Group(rs)
           xs == ToSet(g.requirements)
<1>1. n \in Nat /\ DOMAIN rows = 1..n /\ \A i \in 1..n : rows[i] \in ToSet(rows)
  BY SequenceIs DEF DraftWell
<1>2. rs = [i \in DOMAIN rows |-> RequirementFor(rows[i])]
  BY StoredIsAsked, Zenon DEF Saved
<1>3. IsGroup(g) /\ g.requirements = FlattenSeq(parts)
  BY DEF Group, IsGroup
<1> HIDE DEF rs, g, n
<1>4. parts = [i \in 1..n |-> parts[i]]
      /\ \A i \in 1..n : parts[i] = RowsOf(RequirementFor(rows[i]), i)
  BY <1>1, <1>2
<1> HIDE DEF parts
<1>5. ASSUME NEW i \in 1..n
      PROVE  IsSequence(parts[i]) /\ MadeOf(ToSet(parts[i]), rows[i], i)
  <2>1. IsDraft(rows[i]) /\ IsNamed(rows[i])
    BY <1>1 DEF DraftWell
  <2>2. QED
    BY <1>4, <2>1, RowsOfAsked
<1>6. IsSequence(g.requirements) /\ xs = UNION {ToSet(parts[i]) : i \in 1..n}
  BY <1>1, <1>3, <1>4, <1>5, Concatenated
<1> HIDE DEF xs
<1>7. \A x \in xs : \E i \in DOMAIN rows :
        \/ ToolOf(x, rows[i], i)
        \/ IsSigned(rows[i]) /\ \E h \in ToSet(Displayed(rows[i])) : HelperOf(x, rows[i], i, h)
  <2>1. ASSUME NEW x \in xs
        PROVE  \E i \in DOMAIN rows :
                 \/ ToolOf(x, rows[i], i)
                 \/ IsSigned(rows[i])
                    /\ \E h \in ToSet(Displayed(rows[i])) : HelperOf(x, rows[i], i, h)
    <3>1. PICK i \in 1..n : x \in ToSet(parts[i])
      BY <1>6
    <3>2. MadeOf(ToSet(parts[i]), rows[i], i)
      BY <1>5
    <3>3. QED
      BY <1>1, <3>1, <3>2, Zenon DEF MadeOf
  <2>2. QED
    BY <2>1
<1>8. ASSUME NEW i \in DOMAIN rows
      PROVE  /\ \E x \in xs : ToolOf(x, rows[i], i)
             /\ IsSigned(rows[i]) =>
                  \A h \in ToSet(Displayed(rows[i])) : \E x \in xs : HelperOf(x, rows[i], i, h)
  <2>1. i \in 1..n /\ MadeOf(ToSet(parts[i]), rows[i], i)
    BY <1>1, <1>5
  <2>2. ToSet(parts[i]) \subseteq xs
    BY <1>6, <2>1
  <2>3. QED
    BY <2>1, <2>2 DEF MadeOf
<1>9. \A x \in xs : x.source # "managed"
  BY <1>7 DEF ToolOf, HelperOf
<1>10. RowsMade(xs, rows)
  BY <1>7, <1>8 DEF RowsMade
<1>11. QED
  BY <1>3, <1>6, <1>9, <1>10 DEF xs, g, rs

LEMMA SavedPolicies ==
  ASSUME NEW rs, IsSequence(Group(rs).requirements),
         \A x \in ToSet(Group(rs).requirements) :
            x.source = "helper" /\ x.policies # None => IsSequence(x.policies)
  PROVE  LET g == Group(rs) IN
         IsSequence(g.policies) /\ PoliciesMade(ToSet(g.policies), ToSet(g.requirements))
<1> DEFINE rows == Group(rs).requirements
           n == Len(rows)
           parts == [k \in DOMAIN rows |-> ConfiguredPolicyRows(rows[k])]
           ps == Group(rs).policies
           own(x) == x.source = "helper" /\ x.policies # None
<1>1. ps = FlattenSeq(parts)
  BY DEF Group
<1> HIDE DEF rows, ps
<1>2. n \in Nat /\ DOMAIN rows = 1..n /\ ToSet(rows) = {rows[k] : k \in 1..n}
  BY SequenceIs DEF rows
<1> HIDE DEF n
<1>3. parts = [k \in 1..n |-> parts[k]]
      /\ \A k \in 1..n : parts[k] = ConfiguredPolicyRows(rows[k])
  BY <1>2
<1> HIDE DEF parts
<1>4. ASSUME NEW k \in 1..n
      PROVE  /\ IsSequence(parts[k])
             /\ ToSet(parts[k]) = IF own(rows[k])
                                  THEN {Checked(rows[k], p) : p \in ToSet(rows[k].policies)} ELSE {}
  <2> DEFINE row == rows[k]
  <2>1. parts[k] = IF own(row) THEN [j \in DOMAIN row.policies |-> Checked(row, row.policies[j])]
                   ELSE << >>
    BY <1>3 DEF ConfiguredPolicyRows, Checked
  <2>2. own(row) => IsSequence(row.policies)
    BY <1>2 DEF rows
  <2> HIDE DEF row
  <2>3. CASE ~own(row)
    <3>1. parts[k] = << >>
      BY <2>1, <2>3
    <3>2. QED
      BY <2>3, <3>1, ShortSequences DEF row
  <2>4. CASE own(row)
    <3> DEFINE m == Len(row.policies)
    <3>1. m \in Nat /\ DOMAIN row.policies = 1..m
          /\ ToSet(row.policies) = {row.policies[j] : j \in 1..m}
      BY <2>2, <2>4, SequenceIs
    <3> HIDE DEF m
    <3>2. parts[k] = [j \in 1..m |-> Checked(row, row.policies[j])]
      BY <2>1, <2>4, <3>1
    <3>3. parts[k] = [j \in 1..m |-> parts[k][j]]
          /\ \A j \in 1..m : parts[k][j] = Checked(row, row.policies[j])
      BY <3>2
    <3>4. IsSequence(parts[k]) /\ ToSet(parts[k]) = {parts[k][j] : j \in 1..m}
      BY <3>1, <3>3, Listed1
    <3>5. ToSet(parts[k]) = {Checked(row, p) : p \in ToSet(row.policies)}
      BY <3>1, <3>3, <3>4
    <3>6. QED
      BY <2>4, <3>4, <3>5 DEF row
  <2>5. QED
    BY <2>3, <2>4
<1>5. IsSequence(ps) /\ ToSet(ps) = UNION {ToSet(parts[k]) : k \in 1..n}
  BY <1>1, <1>2, <1>3, <1>4, Concatenated, Zenon
<1>6. ASSUME NEW q \in ToSet(ps)
      PROVE  \E x \in ToSet(rows) : own(x) /\ \E p \in ToSet(x.policies) : q = Checked(x, p)
  <2>1. PICK k \in 1..n : q \in ToSet(parts[k])
    BY <1>5
  <2>2. own(rows[k]) /\ q \in {Checked(rows[k], p) : p \in ToSet(rows[k].policies)}
    BY <1>4, <2>1, Zenon
  <2>3. QED
    BY <1>2, <2>2
<1>7. ASSUME NEW x \in ToSet(rows), own(x), NEW p \in ToSet(x.policies)
      PROVE  Checked(x, p) \in ToSet(ps)
  <2>1. PICK k \in 1..n : x = rows[k]
    BY <1>2
  <2>2. Checked(x, p) \in ToSet(parts[k])
    BY <1>4, <1>7, <2>1, Zenon
  <2>3. QED
    BY <1>5, <2>2
<1>8. PoliciesMade(ToSet(ps), ToSet(rows))
  BY <1>6, <1>7 DEF PoliciesMade
<1>9. QED
  BY <1>5, <1>8 DEF ps, rows

\* The group with the rows for the server's own access.
WithOwnAccess(g) ==
  IF EditorScope = << >> THEN g
  ELSE [g EXCEPT !.requirements = MergedRows(@, ManagedRows(EditorScope))]
IsOwnRow(x) == x \in ToSet(ManagedRows(EditorScope))

LEMMA RequiredIs ==
  ASSUME NothingAbsent, NEW rs
  PROVE  Required(rs) =
           WithExpectedPolicies(WithOwnAccess(Group(ParsedRequirements(rs))), EditorAudience)
<1> DEFINE ts == ForEdited(ParsedRequirements(rs))
           settings == [default |-> None, tools |-> ts]
           groups == [t \in DOMAIN ts |-> Group(ts[t])]
           all == WithManagedAccess(groups, None, EditorScope)
           g == Group(ParsedRequirements(rs))
<1>1. DOMAIN ts = {Edited} /\ ts[Edited] = ParsedRequirements(rs)
  BY DEF ForEdited
<1>2. settings # None /\ settings.default = None /\ settings.tools = ts
  BY DEF NothingAbsent
<1>3. DOMAIN groups = {Edited} /\ groups[Edited] = g
  BY <1>1
<1> HIDE DEF ts, g
<1>4. Definition(settings, EditorScope, EditorAudience) =
        [k \in DOMAIN all |-> WithExpectedPolicies(all[k], EditorAudience)]
  BY <1>2 DEF Definition
<1>5. Required(rs) = Definition(settings, EditorScope, EditorAudience)[Edited]
  BY DEF Required, ts
<1> HIDE DEF groups, settings
<1>6. Edited \in DOMAIN all /\ all[Edited] = WithOwnAccess(g)
  BY <1>3 DEF WithManagedAccess, WithOwnAccess
<1> HIDE DEF all
<1>7. QED
  BY <1>4, <1>5, <1>6 DEF g

\* A row for the server's own access is there unless one of the tool's rows is
\* for the same member and role.
LEMMA OwnAccessRows ==
  ASSUME NEW g, IsGroup(g), IsSequence(g.requirements)
  PROVE  LET o == WithOwnAccess(g) IN
         /\ IsGroup(o) /\ IsSequence(o.requirements) /\ o.policies = g.policies
         /\ ToSet(g.requirements) \subseteq ToSet(o.requirements)
         /\ \A x \in ToSet(o.requirements) :
              \/ x \in ToSet(g.requirements)
              \/ IsOwnRow(x) /\ \A y \in ToSet(g.requirements) : Identity(y) # Identity(x)
<1> DEFINE rows == g.requirements
           own == ManagedRows(EditorScope)
           merged == MergedRows(rows, own)
           o == WithOwnAccess(g)
<1>1. IsSequence(own)
  BY EditorAssumption, ManagedRowsAre
<1>2. /\ IsSequence(merged)
      /\ ToSet(merged) = ToSet(rows) \cup {x \in ToSet(own) :
                                             \A y \in ToSet(rows) : Identity(y) # Identity(x)}
  BY <1>1, MergedRowsAre
<1>3. o = g \/ o = [requirements |-> merged, policies |-> g.policies]
  BY DEF WithOwnAccess, IsGroup
<1> HIDE DEF merged, o, own
<1>4. CASE o = g
  BY <1>4 DEF o
<1>5. CASE o = [requirements |-> merged, policies |-> g.policies]
  <2>1. IsGroup(o) /\ o.requirements = merged /\ o.policies = g.policies
    BY <1>5 DEF IsGroup
  <2>2. \A x \in ToSet(merged) :
          \/ x \in ToSet(rows)
          \/ IsOwnRow(x) /\ \A y \in ToSet(rows) : Identity(y) # Identity(x)
    BY <1>2 DEF IsOwnRow, own
  <2>3. QED
    BY <1>2, <2>1, <2>2 DEF o
<1>6. QED
  BY <1>3, <1>4, <1>5

\* The roles that are made of direct ones are told apart by their use.
LEMMA RolesMade ==
  ASSUME NEW a, IsDirectRole(a), NEW u
  PROVE  /\ HelperRole(a, u).domain = a.domain /\ HelperRole(a, u).name = a.name
         /\ HelperRole(a, u).use = u /\ a.use = "direct"
         /\ \A b : IsDirectRole(b) /\ HelperRole(a, u) = HelperRole(b, u) => a = b
<1>1. ASSUME NEW b, IsDirectRole(b)
      PROVE  /\ HelperRole(b, u) = [domain |-> b.domain, name |-> b.name, use |-> u]
             /\ b = [domain |-> b.domain, name |-> b.name, use |-> "direct"]
  BY <1>1 DEF HelperRole, IsDirectRole, Role
<1>2. ASSUME NEW b, IsDirectRole(b), HelperRole(a, u) = HelperRole(b, u) PROVE a = b
  <2>1. HelperRole(a, u).domain = a.domain /\ HelperRole(a, u).name = a.name
    BY <1>1
  <2>2. HelperRole(b, u).domain = b.domain /\ HelperRole(b, u).name = b.name
    BY <1>1, <1>2
  <2>3. a.domain = b.domain /\ a.name = b.name
    BY <1>2, <2>1, <2>2
  <2>4. QED
    BY <1>1, <1>2, <2>3
<1>3. /\ HelperRole(a, u).domain = a.domain /\ HelperRole(a, u).name = a.name
      /\ HelperRole(a, u).use = u /\ a.use = "direct"
  BY <1>1
<1>4. QED
  BY <1>2, <1>3

LEMMA RoleOfIsDirect ==
  ASSUME NEW row
  PROVE  IsDirectRole(RoleOf(row)) /\ RoleOf(row).domain = row.audience /\ RoleOf(row).name = row.name
BY DEF IsDirectRole, RoleOf, ConfiguredRole, Role

LEMMA KeyOfRow ==
  ASSUME NEW p, NEW r, NEW src, NEW i
  PROVE  /\ PolicyKey(PolicyRow(p, r, src, i)) = <<p.effect, p.action, r, p.resource>>
         /\ PolicyRow(p, r, src, i).source = src /\ PolicyRow(p, r, src, i).role = r
         /\ PolicyRow(p, r, src, i).index = i /\ PolicyRow(p, r, src, i).action = p.action
BY DEF PolicyKey, PolicyRow

\* The rules of a required role.
LEMMA HelperRules ==
  ASSUME NEW x, NEW audience
  PROVE  /\ JagRow(x).source = "helper" /\ JagRow(x).index = x.index
         /\ JagRow(x).role = HelperRole(x.role, "jag") /\ JagRow(x).action = "zts.jag_exchange"
         /\ TargetRow(x, audience).source = "helper" /\ TargetRow(x, audience).index = x.index
         /\ TargetRow(x, audience).role = HelperRole(x.role, "target")
         /\ TargetRow(x, audience).action = "zts.token_target_exchange"
<1>1. JagRule(x.role).action = "zts.jag_exchange"
      /\ TargetRule(x.role, audience).action = "zts.token_target_exchange"
  BY DEF JagRule, TargetRule, Policy
<1>2. QED
  BY <1>1, KeyOfRow DEF JagRow, TargetRow

LEMMA SameKey ==
  ASSUME NEW p, NEW q, PolicyKey(p) = PolicyKey(q)
  PROVE  p.action = q.action /\ p.role = q.role
BY DEF PolicyKey

LEMMA OwnRowIs ==
  ASSUME NEW x, IsOwnRow(x)
  PROVE  /\ x.source = "managed" /\ x.member = ResolvedMember(x.configured)
         /\ \E r \in ToSet(EditorScope) :
              /\ IsDirectRole(r)
              /\ \/ x.configured = SignedIn /\ x.role = r
                 \/ x.configured = Gateway /\ x.role = HelperRole(r, "jag")
                 \/ x.configured = Service /\ x.role = HelperRole(r, "source")
<1>1. IsSequence(EditorScope) /\ \A r \in ToSet(EditorScope) : IsDirectRole(r)
  BY EditorAssumption
<1>2. QED
  BY <1>1, ManagedRowIs DEF IsOwnRow

\* A draft that can be saved, and what the page will have of it: rows X, of
\* which X0 are the tool's, policies W, of which Q0 are its helpers' own.
CanBeSaved(rows) ==
  /\ DraftWell(rows) /\ \A row \in ToSet(rows) : IsNamed(row)
  /\ RequirementsValid(ConfiguredRows(rows, TRUE))
OwnPolicies(x) == x.source = "helper" /\ x.policies # None
Expected(p, y) == y.configured = SignedIn /\ ExpectedFrom(p, y, EditorAudience)
Takes(p, X) ==
  /\ \E x \in X : x.role = p.role
  /\ p.source = "helper" => ~ \E x \in X : OwnPolicies(x) /\ x.index = p.index /\ x.role = p.role
RowsResolved(rows, X, X0) ==
  /\ RowsMade(X, rows) /\ RowsMade(X0, rows) /\ X0 \subseteq X
  /\ \A x \in X0 : x.source # "managed" /\ (x.source = "helper" => x.configured # SignedIn)
  /\ \A x \in X : x \in X0 \/ (IsOwnRow(x) /\ \A y \in X0 : Identity(y) # Identity(x))
PoliciesResolved(X, X0, W, Q0) ==
  /\ PoliciesMade(Q0, X0) /\ Q0 \subseteq W
  /\ \A p \in W : p \in Q0 \/ (Takes(p, X) /\ \E y \in X : Expected(p, y))
  /\ \A y \in X : y.source = "tool" /\ y.configured = SignedIn =>
       \A p \in {JagRow(y), TargetRow(y, EditorAudience)} : Takes(p, X) =>
          \E q \in W : PolicyKey(q) = PolicyKey(p) /\ (q \in Q0 \/ \E z \in X : Expected(q, z))

LEMMA CustomizedSame ==
  ASSUME NEW g, NEW o, IsSequence(g.requirements), o.policies = g.policies,
         PoliciesMade(ToSet(g.policies), ToSet(g.requirements)),
         ToSet(g.requirements) \subseteq ToSet(o.requirements)
  PROVE  PoliciesMade(ToSet(o.policies), ToSet(g.requirements))
         /\ \A i, r : <<i, r>> \in CustomizedRoles(o) <=>
           \E x \in ToSet(o.requirements) : OwnPolicies(x) /\ x.index = i /\ x.role = r
<1> DEFINE X == ToSet(o.requirements)
           Q == ToSet(o.policies)
<1>1. CustomizedRoles(o) = {<<p.index, p.role>> : p \in Q}
                           \cup {<<x.index, x.role>> : x \in {y \in X : OwnPolicies(y)}}
  BY DEF CustomizedRoles, ToSet, OwnPolicies
<1>2. PoliciesMade(Q, ToSet(g.requirements))
  BY Zenon
<1>3. \A p \in Q : \E x \in X : OwnPolicies(x) /\ x.index = p.index /\ x.role = p.role
  BY <1>2, KeyOfRow DEF PoliciesMade, OwnPolicies, Checked
<1> HIDE DEF X, Q
<1>4. \A i, r : <<i, r>> \in CustomizedRoles(o) <=>
        \E x \in X : OwnPolicies(x) /\ x.index = i /\ x.role = r
  BY <1>1, <1>3
<1>5. QED
  BY <1>2, <1>4 DEF X, Q

\* What the page adds to a group: its rows X, of which X0 are the tool's, have
\* the policies W, of which Q0 are the tool's.
LEMMA GroupResolved ==
  ASSUME EditorAudience # None, NEW g, IsGroup(g), IsSequence(g.requirements),
         IsSequence(g.policies), PoliciesMade(ToSet(g.policies), ToSet(g.requirements))
  PROVE  LET o == WithOwnAccess(g)
             w == WithExpectedPolicies(o, EditorAudience) IN
         /\ w.requirements = o.requirements
         /\ PoliciesResolved(ToSet(o.requirements), ToSet(g.requirements),
                             ToSet(w.policies), ToSet(g.policies))
<1> DEFINE o == WithOwnAccess(g)
           w == WithExpectedPolicies(o, EditorAudience)
           X == ToSet(o.requirements)
           X0 == ToSet(g.requirements)
           W == ToSet(w.policies)
           Q0 == ToSet(g.policies)
<1>1. /\ IsGroup(o) /\ IsSequence(o.requirements) /\ o.policies = g.policies /\ X0 \subseteq X
      /\ \A x \in X : x \in X0 \/ (IsOwnRow(x) /\ \A y \in X0 : Identity(y) # Identity(x))
  BY OwnAccessRows
<1>2. /\ PoliciesMade(ToSet(o.policies), X0)
      /\ \A i, r : <<i, r>> \in CustomizedRoles(o) <=>
           \E x \in X : OwnPolicies(x) /\ x.index = i /\ x.role = r
  BY <1>1, CustomizedSame
<1> HIDE DEF o
<1>3. /\ w.requirements = o.requirements /\ ToSet(o.policies) \subseteq W
      /\ \A p \in W : p \in ToSet(o.policies)
                      \/ (p \in AllExpected(o, EditorAudience) /\ Stands(p, o))
      /\ \A p \in AllExpected(o, EditorAudience) : Stands(p, o) =>
           \E q \in W : PolicyKey(q) = PolicyKey(p)
                        /\ (q \in ToSet(o.policies) \/ q \in AllExpected(o, EditorAudience))
  BY <1>1, AddedPolicies, Zenon
<1>4. X = ToSet(w.requirements) /\ Q0 = ToSet(o.policies)
  BY <1>1, <1>3
<1>5. \A p : Stands(p, o) <=> Takes(p, X)
  <2> HIDE DEF X0, W, Q0
  <2>1. ASSUME NEW p PROVE Stands(p, o) <=> Takes(p, X)
    <3>1. <<p.index, p.role>> \in CustomizedRoles(o) <=>
            \E x \in X : OwnPolicies(x) /\ x.index = p.index /\ x.role = p.role
      BY <1>2
    <3>2. p.role \in {row.role : row \in X} <=> \E x \in X : x.role = p.role
      OBVIOUS
    <3>3. Stands(p, o) <=> /\ p.role \in {row.role : row \in X}
                           /\ p.source = "helper" => <<p.index, p.role>> \notin CustomizedRoles(o)
      BY DEF Stands
    <3> HIDE DEF X
    <3>4. QED
      BY <3>1, <3>2, <3>3 DEF Takes
  <2>2. QED
    BY <2>1
<1>6. \A p \in AllExpected(o, EditorAudience) : \E y \in X : Expected(p, y)
  <2>1. ASSUME NEW p \in AllExpected(o, EditorAudience)
        PROVE  \E y \in X : Expected(p, y)
    <3>1. PICK y \in X : p \in ToSet(ExpectedOf(y, EditorAudience, SourceRoleOf(o)))
      BY DEF AllExpected
    <3>2. Expected(p, y)
      BY <3>1, ExpectedRows DEF Expected
    <3>3. QED
      BY <3>2
  <2>2. QED
    BY <2>1
<1>7. ASSUME NEW y \in X, y.source = "tool", y.configured = SignedIn
       PROVE  /\ JagRow(y) \in AllExpected(o, EditorAudience)
              /\ TargetRow(y, EditorAudience) \in AllExpected(o, EditorAudience)
  <2>1. /\ JagRow(y) \in ToSet(ExpectedOf(y, EditorAudience, SourceRoleOf(o)))
        /\ TargetRow(y, EditorAudience) \in ToSet(ExpectedOf(y, EditorAudience, SourceRoleOf(o)))
    BY <1>7, ExpectedRows
  <2>2. QED
    BY <2>1 DEF AllExpected
<1> HIDE DEF X, X0, W, Q0
<1>8. ASSUME NEW y \in X, y.source = "tool", y.configured = SignedIn,
              NEW p \in {JagRow(y), TargetRow(y, EditorAudience)}, Takes(p, X)
       PROVE  \E q \in W : PolicyKey(q) = PolicyKey(p)
                           /\ (q \in Q0 \/ \E z \in X : Expected(q, z))
  <2>1. p \in AllExpected(o, EditorAudience) /\ Stands(p, o)
    BY <1>5, <1>7, <1>8
  <2>2. PICK q \in W : PolicyKey(q) = PolicyKey(p)
                       /\ (q \in Q0 \/ q \in AllExpected(o, EditorAudience))
    BY <1>3, <1>4, <2>1
  <2>3. QED
    BY <1>6, <2>2
<1>9. \A p \in W : p \in Q0 \/ (Takes(p, X) /\ \E y \in X : Expected(p, y))
  BY <1>3, <1>4, <1>5, <1>6
<1>10. PoliciesResolved(X, X0, W, Q0)
  BY <1>2, <1>3, <1>4, <1>8, <1>9 DEF PoliciesResolved
<1>11. QED
  BY <1>3, <1>10 DEF X, X0, W, Q0, w, o

LEMMA Resolved ==
  ASSUME NothingAbsent, EditorAudience # None, NEW rows, CanBeSaved(rows)
  PROVE  LET w == Required(ConfiguredRows(rows, TRUE)) IN
         \E X, X0, W, Q0 :
            /\ X = ToSet(w.requirements) /\ W = ToSet(w.policies)
            /\ RowsResolved(rows, X, X0) /\ PoliciesResolved(X, X0, W, Q0)
<1> DEFINE rs == Saved(rows)
           g == Group(rs)
           o == WithOwnAccess(g)
           w == Required(ConfiguredRows(rows, TRUE))
           X == ToSet(o.requirements)
           X0 == ToSet(g.requirements)
           W == ToSet(w.policies)
           Q0 == ToSet(g.policies)
<1>1. RowsWell(rs)
  <2>1. RequirementsFormed(ConfiguredRows(rows, TRUE))
    BY ConfiguredWell, Zenon DEF CanBeSaved
  <2>2. QED
    BY <2>1, ParsedRequirementsWell, Zenon DEF CanBeSaved, Saved
<1>2. w = WithExpectedPolicies(o, EditorAudience)
  BY RequiredIs DEF Saved
<1>3. /\ IsGroup(g) /\ IsSequence(g.requirements) /\ RowsMade(X0, rows)
      /\ \A x \in X0 : x.source # "managed"
  BY SavedRows DEF CanBeSaved
<1> HIDE DEF rs, w
<1>4. \A x \in X0 : x.source = "helper" =>
        x.configured # SignedIn /\ (x.policies # None => IsSequence(x.policies))
  <2>1. Service # SignedIn
    BY EditorAssumption
  <2>2. \A x \in X0 : IsToolRow(x) \/ IsHelperRow(x)
    BY <1>1, <2>1, GroupRows
  <2> HIDE DEF X0
  <2>3. QED
    BY <2>2 DEF IsToolRow, IsHelperRow
<1>5. IsSequence(g.policies) /\ PoliciesMade(Q0, X0)
  BY <1>3, <1>4, SavedPolicies
<1> HIDE DEF g
<1>6. /\ IsGroup(o) /\ IsSequence(o.requirements) /\ o.policies = g.policies /\ X0 \subseteq X
      /\ \A x \in X : x \in X0 \/ (IsOwnRow(x) /\ \A y \in X0 : Identity(y) # Identity(x))
  BY <1>3, OwnAccessRows
<1>7. w.requirements = o.requirements /\ PoliciesResolved(X, X0, W, Q0)
  BY <1>2, <1>3, <1>5, GroupResolved
<1> HIDE DEF o, X, X0, W, Q0
<1>8. RowsMade(X, rows)
  <2>1. \A x \in X : x \in X0 \/ x.source = "managed"
    BY <1>6, OwnRowIs
  <2>2. QED
    BY <1>3, <1>6, <2>1 DEF RowsMade
<1>9. RowsResolved(rows, X, X0)
  BY <1>3, <1>4, <1>6, <1>8 DEF RowsResolved
<1>10. QED
  BY <1>7, <1>9, Zenon DEF X, W, w

LEMMA MembershipsShown ==
  ASSUME NEW rows, NEW w, NEW X0, RowsResolved(rows, ToSet(w.requirements), X0)
  PROVE  Needed(w) = DisplayedMemberships(rows)
<1> DEFINE X == ToSet(w.requirements)
           own == {<<rows[i].member, RoleOf(rows[i])>> : i \in DOMAIN rows}
           ofHelpers(i) == {<<h.member, h.role>> : h \in ToSet(Displayed(rows[i]))}
           signed == {i \in DOMAIN rows : IsSigned(rows[i])}
<1>1. Needed(w) = {<<x.configured, x.role>> : x \in {y \in X : y.source # "managed"}}
  BY DEF Needed, ToSet
<1>2. DisplayedMemberships(rows) = own \cup UNION {ofHelpers(i) : i \in signed}
  BY DEF DisplayedMemberships, RoleOf, Displayed, IsSigned
<1>3. RowsMade(X, rows)
  BY DEF RowsResolved
<1> HIDE DEF X, own, ofHelpers, signed
<1>4. ASSUME NEW x \in X, x.source # "managed"
      PROVE  <<x.configured, x.role>> \in own \cup UNION {ofHelpers(i) : i \in signed}
  <2>1. PICK i \in DOMAIN rows :
          \/ ToolOf(x, rows[i], i)
          \/ IsSigned(rows[i]) /\ \E h \in ToSet(Displayed(rows[i])) : HelperOf(x, rows[i], i, h)
    BY <1>3, <1>4 DEF RowsMade
  <2>2. CASE ToolOf(x, rows[i], i)
    BY <2>2 DEF ToolOf, own
  <2>3. CASE IsSigned(rows[i]) /\ \E h \in ToSet(Displayed(rows[i])) : HelperOf(x, rows[i], i, h)
    <3>1. i \in signed /\ <<x.configured, x.role>> \in ofHelpers(i)
      BY <2>3 DEF HelperOf, ofHelpers, signed
    <3>2. QED
      BY <3>1
  <2>4. QED
    BY <2>1, <2>2, <2>3
<1>5. ASSUME NEW i \in DOMAIN rows
      PROVE  \E x \in X : x.source # "managed"
                          /\ <<x.configured, x.role>> = <<rows[i].member, RoleOf(rows[i])>>
  BY <1>3 DEF RowsMade, ToolOf
<1>6. ASSUME NEW i \in signed, NEW m \in ofHelpers(i)
      PROVE  \E x \in X : x.source # "managed" /\ <<x.configured, x.role>> = m
  <2>1. PICK h \in ToSet(Displayed(rows[i])) : m = <<h.member, h.role>>
    BY DEF ofHelpers
  <2>2. \E x \in X : HelperOf(x, rows[i], i, h)
    BY <1>3 DEF RowsMade, signed
  <2>3. QED
    BY <2>1, <2>2 DEF HelperOf
<1>7. own \cup UNION {ofHelpers(i) : i \in signed} \subseteq Needed(w)
  BY <1>1, <1>5, <1>6 DEF own
<1>8. Needed(w) \subseteq own \cup UNION {ofHelpers(i) : i \in signed}
  BY <1>1, <1>4
<1>9. QED
  BY <1>2, <1>7, <1>8

\* A policy that a draft displays.
KeyFor(p, r) == <<p.effect, p.action, r, p.resource>>
ShownPolicy(key, rows, i) ==
  /\ i \in DOMAIN rows /\ IsSigned(rows[i])
  /\ \E h \in ToSet(Displayed(rows[i])) : \E p \in ToSet(h.policies) : key = KeyFor(p, h.role)

LEMMA DisplayedPoliciesAre ==
  ASSUME NEW rows
  PROVE  \A key : key \in DisplayedPolicies(rows) <=> \E i : ShownPolicy(key, rows, i)
<1> DEFINE keys(h, i) == {PolicyKey(PolicyRow(p, h.role, "helper", i)) : p \in ToSet(h.policies)}
           ofHelpers(i) == UNION {keys(h, i) : h \in ToSet(Displayed(rows[i]))}
           signed == {i \in DOMAIN rows : IsSigned(rows[i])}
<1>1. DisplayedPolicies(rows) = UNION {ofHelpers(i) : i \in signed}
  BY DEF DisplayedPolicies, Displayed, IsSigned
<1>2. ASSUME NEW h, NEW i PROVE keys(h, i) = {KeyFor(p, h.role) : p \in ToSet(h.policies)}
  BY KeyOfRow DEF KeyFor
<1> HIDE DEF keys
<1>3. ASSUME NEW key, key \in UNION {ofHelpers(i) : i \in signed}
      PROVE  \E i : ShownPolicy(key, rows, i)
  <2>1. PICK i \in signed : key \in ofHelpers(i)
    BY <1>3
  <2>2. PICK h \in ToSet(Displayed(rows[i])) : key \in keys(h, i)
    BY <2>1
  <2>3. \E p \in ToSet(h.policies) : key = KeyFor(p, h.role)
    BY <1>2, <2>2
  <2>4. ShownPolicy(key, rows, i)
    BY <2>3 DEF ShownPolicy
  <2>5. QED
    BY <2>4
<1>4. ASSUME NEW key, NEW i, ShownPolicy(key, rows, i)
      PROVE  key \in UNION {ofHelpers(j) : j \in signed}
  <2>1. i \in signed
    BY <1>4 DEF ShownPolicy
  <2>2. PICK h \in ToSet(Displayed(rows[i])) : \E p \in ToSet(h.policies) : key = KeyFor(p, h.role)
    BY <1>4 DEF ShownPolicy
  <2>3. key \in keys(h, i)
    BY <1>2, <2>2
  <2>4. key \in ofHelpers(i)
    BY <2>3
  <2>5. QED
    BY <2>1, <2>4
<1>5. QED
  BY <1>1, <1>3, <1>4

\* The helpers of a row that is not customized are those of its role's rules.
LEMMA GeneratedShown ==
  ASSUME EditorAudience # None, NEW row, IsNamed(row), ~row.customized
  PROVE  /\ \A h \in ToSet(Displayed(row)) :
              \/ h.role = HelperRole(RoleOf(row), "jag") /\ ToSet(h.policies) = {JagRule(RoleOf(row))}
              \/ /\ h.role = HelperRole(RoleOf(row), "target")
                 /\ ToSet(h.policies) = {TargetRule(RoleOf(row), EditorAudience)}
         /\ \E h \in ToSet(Displayed(row)) :
              h.role = HelperRole(RoleOf(row), "jag") /\ ToSet(h.policies) = {JagRule(RoleOf(row))}
         /\ \E h \in ToSet(Displayed(row)) :
              /\ h.role = HelperRole(RoleOf(row), "target")
              /\ ToSet(h.policies) = {TargetRule(RoleOf(row), EditorAudience)}
<1> DEFINE hs == Displayed(row)
<1>1. hs = GeneratedDraft(row, EditorAudience)
  BY DEF Displayed, DisplayedHelpers
<1>2. Service # None
  BY EditorAssumption
<1>3. /\ DOMAIN hs = 1..2
      /\ hs[1].role = HelperRole(RoleOf(row), "jag")
      /\ ToSet(hs[1].policies) = {JagRule(RoleOf(row))}
      /\ hs[2].role = HelperRole(RoleOf(row), "target")
      /\ ToSet(hs[2].policies) = {TargetRule(RoleOf(row), EditorAudience)}
  BY <1>1, <1>2, GeneratedIs
<1> HIDE DEF hs
<1>4. ToSet(hs) = {hs[1], hs[2]}
  <2>1. 1..2 = {1, 2}
    BY OneOrTwo
  <2>2. QED
    BY <1>3, <2>1 DEF ToSet
<1>5. QED
  BY <1>3, <1>4 DEF hs

LEMMA KeysOfHelperRules ==
  ASSUME NEW x, NEW audience
  PROVE  /\ PolicyKey(JagRow(x)) = KeyFor(JagRule(x.role), HelperRole(x.role, "jag"))
         /\ PolicyKey(TargetRow(x, audience))
              = KeyFor(TargetRule(x.role, audience), HelperRole(x.role, "target"))
BY KeyOfRow DEF JagRow, TargetRow, KeyFor

\* The policies of a row's own helpers are what the draft displays of them.
LEMMA OwnPoliciesShown ==
  ASSUME NEW rows, NEW X0, NEW Q0, RowsMade(X0, rows), PoliciesMade(Q0, X0), NEW q \in Q0
  PROVE  q.source = "helper" /\ \E i : ShownPolicy(PolicyKey(q), rows, i)
<1>1. PICK x \in X0 : /\ x.source = "helper" /\ x.policies # None
                      /\ \E p \in ToSet(x.policies) : q = Checked(x, p)
  BY DEF PoliciesMade
<1>2. PICK p \in ToSet(x.policies) : q = Checked(x, p)
  BY <1>1
<1>3. PICK i \in DOMAIN rows :
        IsSigned(rows[i]) /\ \E h \in ToSet(Displayed(rows[i])) : HelperOf(x, rows[i], i, h)
  BY <1>1 DEF RowsMade, ToolOf
<1>4. PICK h \in ToSet(Displayed(rows[i])) : HelperOf(x, rows[i], i, h)
  BY <1>3
<1>5. x.policies = h.policies /\ x.role = h.role
  BY <1>1, <1>4 DEF HelperOf
<1>6. q.source = "helper" /\ PolicyKey(q) = KeyFor(p, x.role)
  BY <1>2, KeyOfRow DEF Checked, KeyFor
<1>7. ShownPolicy(PolicyKey(q), rows, i)
  BY <1>2, <1>3, <1>5, <1>6 DEF ShownPolicy
<1>8. QED
  BY <1>6, <1>7

LEMMA OwnPoliciesKept ==
  ASSUME NothingAbsent, NEW rows, NEW X0, NEW Q0, RowsMade(X0, rows), PoliciesMade(Q0, X0),
         NEW i \in DOMAIN rows, IsDraft(rows[i]), IsSigned(rows[i]), rows[i].customized,
         NEW h \in ToSet(Displayed(rows[i])), NEW p \in ToSet(h.policies)
  PROVE  \E q \in Q0 : PolicyKey(q) = KeyFor(p, h.role)
<1>1. IsSequence(h.policies)
  BY DisplayedWell DEF Displayed, DraftHelpers, IsDraftHelper
<1>2. PICK x \in X0 : HelperOf(x, rows[i], i, h)
  BY DEF RowsMade
<1>3. x.source = "helper" /\ x.policies = h.policies /\ x.role = h.role
  BY <1>2 DEF HelperOf
<1>4. x.policies # None
  BY <1>1, <1>3 DEF NothingAbsent
<1>5. Checked(x, p) \in Q0
  BY <1>3, <1>4 DEF PoliciesMade
<1>6. PolicyKey(Checked(x, p)) = KeyFor(p, h.role)
  BY <1>3, KeyOfRow DEF Checked, KeyFor
<1>7. QED
  BY <1>5, <1>6

\* Another row is not expected to have the rule that a tool's own is given.
OwnApart(X, X0) ==
  /\ \A y \in X0 : y.source # "tool" => y.configured # SignedIn
  /\ \A y \in X : y \in X0 \/ (IsOwnRow(y) /\ \A z \in X0 : Identity(z) # Identity(y))
LEMMA RuleIsHelpers ==
  ASSUME NEW X, NEW X0, OwnApart(X, X0),
         NEW x \in X0, x.source = "tool", x.configured = SignedIn, IsDirectRole(x.role),
         x.member = ResolvedMember(x.configured),
         NEW p \in {JagRow(x), TargetRow(x, EditorAudience)},
         NEW q, PolicyKey(q) = PolicyKey(p), NEW y \in X, Expected(q, y)
  PROVE  q.source = "helper"
<1>1. q.action = p.action /\ q.role = p.role
  BY SameKey
<1>2. p.action # "zts.token_source_exchange"
  BY HelperRules
<1>3. CASE y.source = "tool"
  <2>1. q = JagRow(y) \/ q = TargetRow(y, EditorAudience)
    BY <1>1, <1>2, <1>3 DEF Expected, ExpectedFrom
  <2>2. QED
    BY <2>1, HelperRules
<1>4. CASE y.source # "tool"
  <2>1. q.source = "managed" /\ PolicyKey(q) = PolicyKey(JagRow(y)) /\ y.configured = SignedIn
    BY <1>1, <1>2, <1>4 DEF Expected, ExpectedFrom
  <2>2. q.action = "zts.jag_exchange" /\ q.role = HelperRole(y.role, "jag")
    BY <2>1, SameKey, HelperRules
  <2>3. p = JagRow(x)
    BY <1>1, <2>2, HelperRules
  <2>4. HelperRole(x.role, "jag") = HelperRole(y.role, "jag")
    BY <1>1, <2>2, <2>3, HelperRules, Zenon
  <2>5. y \notin X0
    BY <1>4, <2>1 DEF OwnApart
  <2>6. IsOwnRow(y) /\ Identity(x) # Identity(y)
    BY <2>5 DEF OwnApart
  <2>7. y.member = ResolvedMember(y.configured) /\ IsDirectRole(y.role)
    <3>1. Gateway # SignedIn /\ Service # SignedIn
      BY EditorAssumption DEF Gateway, SignedIn
    <3>2. QED
      BY <2>1, <2>6, <3>1, OwnRowIs
  <2>8. x.role = y.role
    BY <2>4, <2>7, RolesMade
  <2>9. x.member = y.member
    BY <2>1, <2>7
  <2>10. QED
    BY <2>6, <2>8, <2>9 DEF Identity
<1>5. QED
  BY <1>3, <1>4

\* A rule that is added is displayed, or its role is taken by a helper of
\* another row, or by the server's own access.
LEMMA ExpectedShown ==
  ASSUME NothingAbsent, EditorAudience # None, NEW rows, CanBeSaved(rows),
         NEW X, NEW X0, RowsResolved(rows, X, X0), ~Entangled(rows), ~OwnRoleCustomized(rows),
         NEW p, p.source = "helper", Takes(p, X), NEW y \in X, Expected(p, y)
  PROVE  \E i : ShownPolicy(PolicyKey(p), rows, i)
<1>1. /\ y.source = "tool" /\ y.configured = SignedIn
      /\ p = JagRow(y) \/ p = TargetRow(y, EditorAudience)
  BY DEF Expected, ExpectedFrom
<1>2. PICK i \in DOMAIN rows : ToolOf(y, rows[i], i)
  BY <1>1 DEF RowsResolved, RowsMade, HelperOf
<1> DEFINE row == rows[i]
           r == RoleOf(row)
<1>3. IsDraft(row) /\ IsNamed(row)
  BY SequenceIs DEF CanBeSaved, DraftWell
<1>4. IsSigned(row) /\ y.role = r /\ y.index = i
  BY <1>1, <1>2, <1>3 DEF ToolOf, IsDraft, IsSigned
<1>5. IsDirectRole(r) /\ r.domain = row.audience /\ r.name = row.name
  BY RoleOfIsDirect
<1>6. \/ PolicyKey(p) = KeyFor(JagRule(r), HelperRole(r, "jag"))
      \/ PolicyKey(p) = KeyFor(TargetRule(r, EditorAudience), HelperRole(r, "target"))
  BY <1>1, <1>4, KeysOfHelperRules
<1>7. CASE ~row.customized
  <2>1. \E h \in ToSet(Displayed(row)) : \E z \in ToSet(h.policies) : PolicyKey(p) = KeyFor(z, h.role)
    BY <1>3, <1>6, <1>7, GeneratedShown
  <2>2. ShownPolicy(PolicyKey(p), rows, i)
    BY <1>4, <2>1 DEF ShownPolicy
  <2>3. QED
    BY <2>2
<1>8. CASE row.customized
  <2>1. p.index = i /\ \E u \in {"jag", "target"} : p.role = HelperRole(r, u)
    BY <1>1, <1>4, HelperRules
  <2>2. PICK u \in {"jag", "target"} : p.role = HelperRole(r, u)
    BY <2>1
  <2>3. PICK x \in X : x.role = p.role
    BY DEF Takes
  <2>4. x.role.use = u /\ x.role.domain = row.audience /\ x.role.name = row.name
    BY <1>5, <2>2, <2>3, RolesMade
  <2>5. CASE x \in X0
    <3>1. PICK j \in DOMAIN rows :
            \/ ToolOf(x, rows[j], j)
            \/ IsSigned(rows[j]) /\ \E h \in ToSet(Displayed(rows[j])) : HelperOf(x, rows[j], j, h)
      BY <2>5 DEF RowsResolved, RowsMade
    <3>2. ~ToolOf(x, rows[j], j)
      <4>1. RoleOf(rows[j]).use = "direct"
        BY RoleOfIsDirect, RolesMade, Zenon
      <4>2. QED
        BY <2>4, <4>1 DEF ToolOf
    <3>3. PICK h \in ToSet(Displayed(rows[j])) : HelperOf(x, rows[j], j, h)
      BY <3>1, <3>2
    <3>4. x.source = "helper" /\ x.index = j /\ x.role = h.role
      BY <3>3 DEF HelperOf
    <3>5. CASE j = i
      <4>1. x.policies = h.policies
        BY <1>8, <3>3, <3>5 DEF HelperOf
      <4>2. IsSequence(h.policies)
        BY <1>3, <3>5, DisplayedWell DEF Displayed, DraftHelpers, IsDraftHelper
      <4>3. x.policies # None
        BY <4>1, <4>2 DEF NothingAbsent
      <4>4. OwnPolicies(x) /\ x.index = p.index /\ x.role = p.role
        BY <2>1, <2>3, <3>4, <3>5, <4>3 DEF OwnPolicies
      <4>5. QED
        BY <4>4 DEF Takes
    <3>6. CASE j # i
      <4>1. PICK k \in DOMAIN Displayed(rows[j]) : h = Displayed(rows[j])[k]
        BY DEF ToSet
      <4>2. IsSigned(rows[j])
        BY <3>1, <3>2
      <4>3. <<j, k>> \in HelpersOf(rows)
        BY <4>1, <4>2 DEF HelpersOf, IsSigned, Displayed
      <4>4. h.role.domain = row.audience /\ h.role.name = row.name
        BY <2>4, <3>4
      <4>5. Displayed(rows[j])[k].role = h.role
        BY <4>1
      <4>6. Entangled(rows)
        <5>1. <<row.audience, row.name>> = <<h.role.domain, h.role.name>>
          BY <4>4
        <5>2. DisplayedHelpers(rows[j], EditorAudience)[k].role = h.role
          BY <4>5 DEF Displayed
        <5>3. i \in (DOMAIN rows) \ {j}
          BY <3>6
        <5>4. QED
          BY <4>3, <5>1, <5>2, <5>3 DEF Entangled
      <4>7. QED
        BY <4>6
    <3>7. QED
      BY <3>5, <3>6
  <2>6. CASE x \notin X0
    <3>1. IsOwnRow(x)
      BY <2>6 DEF RowsResolved
    <3>2. PICK a \in ToSet(EditorScope) :
            /\ IsDirectRole(a)
            /\ x.role = a \/ x.role = HelperRole(a, "jag") \/ x.role = HelperRole(a, "source")
      BY <3>1, OwnRowIs
    <3>3. x.role = HelperRole(a, "jag") /\ u = "jag"
      BY <2>4, <3>2, RolesMade
    <3>4. HelperRole(r, "jag") = HelperRole(a, "jag")
      BY <2>2, <2>3, <3>3, Zenon
    <3>5. r = a
      BY <1>5, <3>2, <3>4, RolesMade
    <3>6. OwnRoleCustomized(rows)
      BY <1>4, <1>8, <3>5 DEF OwnRoleCustomized, IsSigned, RoleOf
    <3>7. QED
      BY <3>6
  <2>7. QED
    BY <2>5, <2>6
<1>9. QED
  BY <1>7, <1>8

\* The policies of generated helpers are added, as helpers' policies.
LEMMA GeneratedPoliciesAdded ==
  ASSUME EditorAudience # None, NEW rows, CanBeSaved(rows),
         NEW X, NEW X0, RowsResolved(rows, X, X0), NEW W, NEW Q0, PoliciesResolved(X, X0, W, Q0),
         NEW i \in DOMAIN rows, IsSigned(rows[i]), ~rows[i].customized,
         NEW h \in ToSet(Displayed(rows[i])), NEW p \in ToSet(h.policies)
  PROVE  \E q \in W : q.source = "helper" /\ PolicyKey(q) = KeyFor(p, h.role)
<1> DEFINE row == rows[i]
           r == RoleOf(row)
<1>1. IsDraft(row) /\ IsNamed(row)
  BY SequenceIs DEF CanBeSaved, DraftWell
<1>2. PICK x \in X0 : ToolOf(x, row, i)
  BY DEF RowsResolved, RowsMade
<1>3. /\ x.source = "tool" /\ x.role = r /\ x.index = i /\ x.configured = SignedIn
      /\ x.member = ResolvedMember(x.configured) /\ x \in X
  BY <1>1, <1>2 DEF ToolOf, IsDraft, IsSigned, RowsResolved
<1>4. PICK e \in {JagRow(x), TargetRow(x, EditorAudience)} :
        PolicyKey(e) = KeyFor(p, h.role) /\ e.role = h.role
  <2>1. \/ h.role = HelperRole(r, "jag") /\ p = JagRule(r)
        \/ h.role = HelperRole(r, "target") /\ p = TargetRule(r, EditorAudience)
    BY <1>1, GeneratedShown
  <2>2. /\ PolicyKey(JagRow(x)) = KeyFor(JagRule(r), HelperRole(r, "jag"))
        /\ PolicyKey(TargetRow(x, EditorAudience))
             = KeyFor(TargetRule(r, EditorAudience), HelperRole(r, "target"))
        /\ JagRow(x).role = HelperRole(r, "jag")
        /\ TargetRow(x, EditorAudience).role = HelperRole(r, "target")
    BY <1>3, KeysOfHelperRules, HelperRules
  <2>3. QED
    BY <2>1, <2>2
<1>5. e.source = "helper" /\ e.index = i
  BY <1>3, HelperRules
<1>6. Takes(e, X)
  <2>1. \E y \in X : y.role = e.role
    BY <1>4 DEF RowsResolved, RowsMade, HelperOf
  <2>2. ASSUME NEW y \in X, OwnPolicies(y), y.index = i PROVE FALSE
    <3>1. y.source = "helper" /\ y.policies # None
      BY <2>2 DEF OwnPolicies
    <3>2. y \in X0
      BY <3>1, OwnRowIs DEF RowsResolved
    <3>3. PICK j \in DOMAIN rows :
            IsSigned(rows[j]) /\ \E k \in ToSet(Displayed(rows[j])) : HelperOf(y, rows[j], j, k)
      BY <3>1, <3>2 DEF RowsResolved, RowsMade, ToolOf
    <3>4. j = i /\ rows[j].customized
      BY <2>2, <3>1, <3>3 DEF HelperOf
    <3>5. QED
      BY <3>4
  <2>3. QED
    BY <1>5, <2>1, <2>2 DEF Takes
<1>7. PICK q \in W : PolicyKey(q) = PolicyKey(e) /\ (q \in Q0 \/ \E z \in X : Expected(q, z))
  BY <1>3, <1>6 DEF PoliciesResolved
<1>8. q.source = "helper"
  <2>1. CASE q \in Q0
    BY <2>1, OwnPoliciesShown DEF RowsResolved, PoliciesResolved
  <2>2. CASE \E z \in X : Expected(q, z)
    <3>1. IsDirectRole(x.role)
      BY <1>3, RoleOfIsDirect
    <3>2. OwnApart(X, X0)
      BY DEF RowsResolved, RowsMade, ToolOf, HelperOf, OwnApart
    <3>3. QED
      BY <1>3, <1>7, <2>2, <3>1, <3>2, RuleIsHelpers
  <2>3. QED
    BY <1>7, <2>1, <2>2
<1>9. QED
  BY <1>4, <1>7, <1>8

LEMMA PoliciesShown ==
  ASSUME NothingAbsent, EditorAudience # None, NEW rows, CanBeSaved(rows), NEW w,
         NEW X, NEW X0, RowsResolved(rows, X, X0), NEW W, W = ToSet(w.policies),
         NEW Q0, PoliciesResolved(X, X0, W, Q0), ~Entangled(rows), ~OwnRoleCustomized(rows)
  PROVE  Policies(w) = DisplayedPolicies(rows)
<1>1. Policies(w) = {PolicyKey(q) : q \in {z \in W : z.source = "helper"}}
  BY DEF Policies, ToSet
<1>2. ASSUME NEW q \in W, q.source = "helper"
      PROVE  PolicyKey(q) \in DisplayedPolicies(rows)
  <2>1. CASE q \in Q0
    <3>1. \E i : ShownPolicy(PolicyKey(q), rows, i)
      BY <2>1, OwnPoliciesShown DEF RowsResolved, PoliciesResolved
    <3>2. QED
      BY <3>1, DisplayedPoliciesAre
  <2>2. CASE q \notin Q0
    <3>1. PICK y \in X : Takes(q, X) /\ Expected(q, y)
      BY <2>2 DEF PoliciesResolved
    <3>2. \E i : ShownPolicy(PolicyKey(q), rows, i)
      BY <1>2, <3>1, ExpectedShown
    <3>3. QED
      BY <3>2, DisplayedPoliciesAre
  <2>3. QED
    BY <2>1, <2>2
<1>3. ASSUME NEW key \in DisplayedPolicies(rows)
      PROVE  \E q \in W : q.source = "helper" /\ PolicyKey(q) = key
  <2>1. PICK i : ShownPolicy(key, rows, i)
    BY DisplayedPoliciesAre
  <2>2. i \in DOMAIN rows /\ IsSigned(rows[i])
    BY <2>1 DEF ShownPolicy
  <2>3. PICK h \in ToSet(Displayed(rows[i])) : \E p \in ToSet(h.policies) : key = KeyFor(p, h.role)
    BY <2>1 DEF ShownPolicy
  <2>4. PICK p \in ToSet(h.policies) : key = KeyFor(p, h.role)
    BY <2>3
  <2>5. CASE rows[i].customized
    <3>1. IsDraft(rows[i])
      BY <2>2, SequenceIs DEF CanBeSaved, DraftWell
    <3>2. PICK q \in Q0 : PolicyKey(q) = KeyFor(p, h.role)
      BY <2>2, <2>5, <3>1, OwnPoliciesKept DEF RowsResolved, PoliciesResolved
    <3>3. q.source = "helper" /\ q \in W
      BY OwnPoliciesShown DEF RowsResolved, PoliciesResolved
    <3>4. QED
      BY <2>4, <3>2, <3>3
  <2>6. CASE ~rows[i].customized
    BY <2>2, <2>4, <2>6, GeneratedPoliciesAdded
  <2>7. QED
    BY <2>5, <2>6
<1>4. QED
  BY <1>1, <1>2, <1>3

\* A draft shows the memberships and policies that its tool will require,
\* whatever was looked up, edited and saved before, by the dialog or by the
\* wizard (permissionPreset.ts, PermissionRequestDialog.tsx).
THEOREM EditorShowsRequired ==
  ASSUME NothingAbsent
  PROVE  EditorSpec => []ShownIsRequired
<1>1. EditorWell => ShownIsRequired
  <2> SUFFICES ASSUME EditorWell, dialog.editing, CanSave, EditorAudience # None,
                      ~Entangled(dialog.rows), ~OwnRoleCustomized(dialog.rows)
               PROVE  /\ Needed(Required(Body)) = DisplayedMemberships(dialog.rows)
                      /\ Policies(Required(Body)) = DisplayedPolicies(dialog.rows)
    BY DEF ShownIsRequired
  <2> DEFINE rows == dialog.rows
             w == Required(ConfiguredRows(rows, TRUE))
  <2>1. DraftWell(rows)
    BY DEF EditorWell, DialogDraft
  <2>2. \A row \in ToSet(rows) : IsNamed(row)
    <3>1. \A i \in DOMAIN rows : IsNamed(rows[i])
      BY DEF CanSave, Complete, IsNamed
    <3> HIDE DEF rows
    <3>2. QED
      BY <3>1 DEF ToSet
  <2>3. RequirementsValid(ConfiguredRows(rows, TRUE))
    BY Zenon DEF CanSave, Body
  <2>4. Required(Body) = w
    BY Zenon DEF Body
  <2>5. ~Entangled(rows) /\ ~OwnRoleCustomized(rows)
    OBVIOUS
  <2> HIDE DEF rows
  <2>6. CanBeSaved(rows)
    BY <2>1, <2>2, <2>3, Zenon DEF CanBeSaved
  <2>7. PICK X, X0, W, Q0 :
          /\ X = ToSet(w.requirements) /\ W = ToSet(w.policies)
          /\ RowsResolved(rows, X, X0) /\ PoliciesResolved(X, X0, W, Q0)
    BY <2>6, Resolved, Zenon
  <2> HIDE DEF w
  <2>8. Needed(w) = DisplayedMemberships(rows)
    BY <2>7, MembershipsShown
  <2>9. Policies(w) = DisplayedPolicies(rows)
    BY <2>5, <2>6, <2>7, PoliciesShown
  <2>10. QED
    BY <2>4, <2>8, <2>9 DEF rows
<1>2. EditorSpec => []EditorWell
  BY EditorAlwaysWell
<1>3. QED
  BY <1>1, <1>2, PTL

-----------------------------------------------------------------------------
(* Where the elements of a concatenation come from                          *)

\* Each element of f is the one at a place of a part, and each place has one.
Laid(f, seqs, n, p, q) ==
  /\ \A k \in DOMAIN f : p[k] \in 1..n /\ q[k] \in DOMAIN seqs[p[k]] /\ f[k] = seqs[p[k]][q[k]]
  /\ \A k, l \in DOMAIN f : p[k] = p[l] /\ q[k] = q[l] => k = l
  /\ \A i \in 1..n : \A j \in DOMAIN seqs[i] : \E k \in DOMAIN f : p[k] = i /\ q[k] = j

LEMMA LaidOne ==
  ASSUME NEW seqs, IsSequence(seqs[1])
  PROVE  \E p, q : Laid(seqs[1], seqs, 1, p, q)
<1> DEFINE s == seqs[1]
           p == [k \in DOMAIN s |-> 1]
           q == [k \in DOMAIN s |-> k]
<1>1. \A k \in DOMAIN s : p[k] = 1 /\ q[k] = k
  OBVIOUS
<1> HIDE DEF p, q
<1>2. \A i \in 1..1 : i = 1
  OBVIOUS
<1>3. Laid(s, seqs, 1, p, q)
  BY <1>1, <1>2 DEF Laid
<1>4. QED
  BY <1>3

LEMMA LaidMore ==
  ASSUME NEW f, NEW seqs, NEW n \in Nat, NEW p, NEW q, Laid(f, seqs, n, p, q), IsSequence(f),
         IsSequence(seqs[n + 1])
  PROVE  \E pp, qq : Laid(f \o seqs[n + 1], seqs, n + 1, pp, qq)
<1> DEFINE t == seqs[n + 1]
           L == Len(f)
           M == Len(t)
           g == f \o t
           pp == [k \in 1..L + M |-> IF k <= L THEN p[k] ELSE n + 1]
           qq == [k \in 1..L + M |-> IF k <= L THEN q[k] ELSE k - L]
<1>1. L \in Nat /\ M \in Nat /\ DOMAIN f = 1..L /\ DOMAIN t = 1..M
  BY SequenceIs
<1>2. DOMAIN g = 1..L + M /\ \A k \in 1..L + M : g[k] = IF k <= L THEN f[k] ELSE t[k - L]
  BY <1>1
<1>3. \A k \in 1..L + M : /\ k <= L => pp[k] = p[k] /\ qq[k] = q[k]
                          /\ ~(k <= L) => pp[k] = n + 1 /\ qq[k] = k - L
  BY <1>1
<1> HIDE DEF g, pp, qq, L, M
<1>4. /\ \A k \in 1..L : p[k] \in 1..n /\ q[k] \in DOMAIN seqs[p[k]] /\ f[k] = seqs[p[k]][q[k]]
      /\ \A k, l \in 1..L : p[k] = p[l] /\ q[k] = q[l] => k = l
      /\ \A i \in 1..n : \A j \in DOMAIN seqs[i] : \E k \in 1..L : p[k] = i /\ q[k] = j
  BY <1>1 DEF Laid
<1>5. ASSUME NEW k \in 1..L + M
      PROVE  pp[k] \in 1..n + 1 /\ qq[k] \in DOMAIN seqs[pp[k]] /\ g[k] = seqs[pp[k]][qq[k]]
  <2>1. CASE k <= L
    <3>1. k \in 1..L
      BY <1>1, <2>1
    <3>2. p[k] \in 1..n + 1
      BY <1>4, <3>1
    <3>3. QED
      BY <1>2, <1>3, <1>4, <2>1, <3>1, <3>2
  <2>2. CASE ~(k <= L)
    <3>1. k - L \in 1..M /\ n + 1 \in 1..n + 1
      BY <1>1, <2>2
    <3>2. QED
      BY <1>1, <1>2, <1>3, <2>2, <3>1
  <2>3. QED
    BY <2>1, <2>2
<1>6. ASSUME NEW k \in 1..L + M, NEW l \in 1..L + M, pp[k] = pp[l], qq[k] = qq[l]
      PROVE  k = l
  <2>1. CASE k <= L /\ l <= L
    <3>1. k \in 1..L /\ l \in 1..L
      BY <1>1, <2>1
    <3>2. QED
      BY <1>3, <1>4, <1>6, <2>1, <3>1
  <2>2. CASE ~(k <= L) /\ ~(l <= L)
    <3>1. k - L = l - L
      BY <1>3, <1>6, <2>2
    <3>2. QED
      BY <1>1, <3>1
  <2>3. \A x \in 1..n : x # n + 1
    OBVIOUS
  <2>4. CASE k <= L /\ ~(l <= L)
    <3>1. k \in 1..L /\ p[k] = n + 1
      BY <1>1, <1>3, <1>6, <2>4
    <3>2. QED
      BY <1>4, <2>3, <3>1
  <2>5. CASE ~(k <= L) /\ l <= L
    <3>1. l \in 1..L /\ p[l] = n + 1
      BY <1>1, <1>3, <1>6, <2>5
    <3>2. QED
      BY <1>4, <2>3, <3>1
  <2>6. QED
    BY <2>1, <2>2, <2>4, <2>5
<1>7. ASSUME NEW i \in 1..n + 1, NEW j \in DOMAIN seqs[i]
      PROVE  \E k \in 1..L + M : pp[k] = i /\ qq[k] = j
  <2>1. CASE i = n + 1
    <3>1. j \in 1..M
      BY <1>1, <2>1
    <3>2. PICK k \in 1..L + M : ~(k <= L) /\ k - L = j
      <4> DEFINE k == L + j
      <4>1. k \in 1..L + M /\ ~(k <= L) /\ k - L = j
        BY <1>1, <3>1
      <4> HIDE DEF k
      <4>2. QED
        BY <4>1
    <3>3. pp[k] = n + 1 /\ qq[k] = j
      BY <1>3, <3>2
    <3>4. QED
      BY <2>1, <3>3
  <2>2. CASE i # n + 1
    <3>1. i \in 1..n
      BY <2>2
    <3>2. PICK k \in 1..L : p[k] = i /\ q[k] = j
      BY <1>4, <3>1
    <3>3. k \in 1..L + M /\ k <= L
      BY <1>1
    <3>4. QED
      BY <1>3, <3>2, <3>3
  <2>3. QED
    BY <2>1, <2>2
<1>8. Laid(g, seqs, n + 1, pp, qq)
  BY <1>2, <1>5, <1>6, <1>7 DEF Laid
<1>9. QED
  BY <1>8 DEF g

LEMMA Positions ==
  ASSUME NEW seqs, NEW n \in Nat, seqs = [i \in 1..n |-> seqs[i]],
         \A i \in 1..n : IsSequence(seqs[i])
  PROVE  \E p, q : Laid(FlattenSeq(seqs), seqs, n, p, q)
<1>1. DOMAIN seqs = 1..n /\ Len(seqs) = n
  BY Listed1
<1>2. CASE n = 0
  <2>1. FlattenSeq(seqs) = seqs
    BY <1>1, <1>2 DEF FlattenSeq
  <2>2. DOMAIN seqs = {} /\ 1..n = {}
    BY <1>1, <1>2
  <2>3. Laid(seqs, seqs, n, << >>, << >>)
    BY <2>2 DEF Laid
  <2>4. QED
    BY <2>1, <2>3, Zenon
<1>3. CASE n # 0
  <2>1. PICK f : IsFlattening(f, seqs, n) /\ FlattenSeq(seqs) = f[n]
    BY <1>1, <1>3, FlattenIs, Zenon
  <2> DEFINE Done(m) == IsSequence(f[m]) /\ \E p, q : Laid(f[m], seqs, m, p, q)
             S == {m \in Nat : m \in 1..n => Done(m)}
  <2>2. \A m \in 1..n : f[m] = IF m = 1 THEN seqs[m] ELSE f[m-1] \o seqs[m]
    BY <2>1, Zenon DEF IsFlattening
  <2>3. 0 \in S
    <3> HIDE DEF Done
    <3>1. QED
      OBVIOUS
  <2>4. ASSUME NEW m \in Nat, m \in S PROVE m + 1 \in S
    <3>0. m \in 1..n => Done(m)
      BY <2>4, Zenon
    <3> SUFFICES ASSUME m + 1 \in 1..n
                 PROVE  Done(m + 1)
      <4> HIDE DEF Done
      <4>1. QED
        OBVIOUS
    <3> HIDE DEF S
    <3>1. CASE m = 0
      <4>1. m + 1 = 1 /\ f[1] = seqs[1] /\ IsSequence(seqs[1])
        <5>1. 1 \in 1..n
          BY <3>1
        <5>2. QED
          BY <2>2, <3>1, <5>1
      <4>2. QED
        BY <4>1, LaidOne, Zenon
    <3>2. CASE m # 0
      <4>1. m + 1 # 1 /\ m + 1 - 1 = m /\ m \in 1..n
        BY <3>2
      <4>2. f[m + 1] = f[m] \o seqs[m + 1]
        <5>1. f[m + 1] = IF m + 1 = 1 THEN seqs[m + 1] ELSE f[m + 1 - 1] \o seqs[m + 1]
          BY <2>2
        <5>2. QED
          BY <4>1, <5>1, Zenon
      <4>3. IsSequence(f[m]) /\ (\E p, q : Laid(f[m], seqs, m, p, q)) /\ IsSequence(seqs[m + 1])
        BY <3>0, <4>1, Zenon
      <4>4. \E p, q : Laid(f[m] \o seqs[m + 1], seqs, m + 1, p, q)
        BY <4>3, LaidMore, Zenon
      <4>5. IsSequence(f[m] \o seqs[m + 1])
        BY <4>3, Appended
      <4>6. QED
        BY <4>2, <4>4, <4>5, Zenon
    <3>3. QED
      BY <3>1, <3>2, Zenon
  <2>5. n \in S
    BY <2>3, <2>4, SetInduction, Zenon
  <2>6. Done(n)
    <3>1. n \in 1..n
      BY <1>3
    <3> HIDE DEF Done
    <3>2. QED
      BY <2>5, <3>1
  <2>7. QED
    BY <2>1, <2>6, Zenon
<1>4. QED
  BY <1>2, <1>3, Zenon

\* The elements that are selected are at places of their own.
LEMMA SelectedPositions ==
  ASSUME NEW s, IsSequence(s), NEW indices
  PROVE  LET t == Selected(s, indices) IN
         \E at : /\ \A k \in DOMAIN t : at[k] \in indices \cap DOMAIN s /\ t[k] = s[at[k]]
                 /\ \A k, l \in DOMAIN t : at[k] = at[l] => k = l
                 /\ \A i \in indices \cap DOMAIN s : \E k \in DOMAIN t : at[k] = i
<1> DEFINE n == Len(s)
           parts == [i \in DOMAIN s |-> IF i \in indices THEN <<s[i]>> ELSE << >>]
           t == Selected(s, indices)
<1>1. n \in Nat /\ DOMAIN s = 1..n
  BY SequenceIs
<1>2. parts = [i \in 1..n |-> parts[i]]
      /\ \A i \in 1..n : parts[i] = IF i \in indices THEN <<s[i]>> ELSE << >>
  BY <1>1
<1>3. t = FlattenSeq(parts)
  BY DEF Selected
<1> HIDE DEF parts, n, t
<1>4. \A i \in 1..n : /\ IsSequence(parts[i])
                      /\ i \in indices => 1 \in DOMAIN parts[i] /\ parts[i][1] = s[i]
                      /\ \A j \in DOMAIN parts[i] : i \in indices /\ j = 1
  <2>1. ASSUME NEW i \in 1..n, i \in indices
        PROVE  /\ IsSequence(parts[i]) /\ 1 \in DOMAIN parts[i] /\ parts[i][1] = s[i]
               /\ \A j \in DOMAIN parts[i] : j = 1
    <3>1. parts[i] = <<s[i]>>
      BY <1>2, <2>1
    <3>2. IsSequence(<<s[i]>>) /\ DOMAIN <<s[i]>> = 1..1 /\ <<s[i]>>[1] = s[i]
      BY ShortSequences
    <3>3. 1 \in 1..1 /\ \A j \in 1..1 : j = 1
      OBVIOUS
    <3>4. QED
      BY <3>1, <3>2, <3>3
  <2>2. ASSUME NEW i \in 1..n, i \notin indices
        PROVE  IsSequence(parts[i]) /\ DOMAIN parts[i] = {}
    <3>1. parts[i] = << >>
      BY <1>2, <2>2
    <3>2. QED
      BY <3>1, ShortSequences, Nowhere
  <2>3. QED
    BY <2>1, <2>2
<1>5. PICK p, q : Laid(t, parts, n, p, q)
  BY <1>1, <1>2, <1>3, <1>4, Positions, Zenon
<1>6. \A k \in DOMAIN t : p[k] \in 1..n /\ p[k] \in indices /\ q[k] = 1 /\ t[k] = s[p[k]]
  BY <1>4, <1>5 DEF Laid
<1>7. \A k, l \in DOMAIN t : p[k] = p[l] => k = l
  BY <1>5, <1>6 DEF Laid
<1>8. \A i \in 1..n : i \in indices => \E k \in DOMAIN t : p[k] = i
  BY <1>4, <1>5 DEF Laid
<1>9. QED
  BY <1>1, <1>6, <1>7, <1>8 DEF t

-----------------------------------------------------------------------------
(* The rows and policies of a tool, each at one place                       *)

HelpersFor(q) == IF q.helpers = None THEN GeneratedHelperRows(q.role) ELSE q.helpers
Includes(q) == q.include = TRUE

LEMMA HelpersForAre ==
  ASSUME NEW q, q.helpers # None => IsSequence(q.helpers)
  PROVE  IsSequence(HelpersFor(q))
<1> DEFINE a == Helper(Gateway, HelperRole(q.role, "jag"), None)
           b == Helper(Service, HelperRole(q.role, "target"), None)
<1>1. GeneratedHelperRows(q.role) = <<a, b>>
  BY DEF GeneratedHelperRows
<1> HIDE DEF a, b
<1>2. IsSequence(<<a, b>>)
  BY ShortSequences
<1>3. QED
  BY <1>1, <1>2 DEF HelpersFor

\* The first row of a requirement is its own, and each other is of a helper.
LEMMA RowsOfAre ==
  ASSUME NEW q, q.helpers # None => IsSequence(q.helpers), NEW i
  PROVE  LET hs == HelpersFor(q)
             s == RowsOf(q, i) IN
         /\ IsSequence(s) /\ 1 \in DOMAIN s /\ s[1] = DirectRow(q, i)
         /\ DOMAIN s \subseteq Nat
         /\ \A j \in DOMAIN s : j = 1 \/ /\ Includes(q) /\ j - 1 \in DOMAIN hs
                                         /\ s[j] = HelperRow(hs[j - 1], i)
         /\ Includes(q) => \A k \in DOMAIN hs : \E j \in DOMAIN s : s[j] = HelperRow(hs[k], i)
<1> DEFINE d == DirectRow(q, i)
           hs == HelpersFor(q)
           hrows == [k \in DOMAIN hs |-> HelperRow(hs[k], i)]
           s == RowsOf(q, i)
           n == Len(hs)
<1>1. s = IF Includes(q) THEN <<d>> \o hrows ELSE <<d>>
  BY Zenon DEF RowsOf, HelpersFor, Includes
<1>2. IsSequence(hs)
  BY HelpersForAre
<1> HIDE DEF d, hs, s
<1>3. n \in Nat /\ DOMAIN hs = 1..n
  BY <1>2, SequenceIs
<1> HIDE DEF n
<1>4. hrows = [k \in 1..n |-> hrows[k]] /\ \A k \in 1..n : hrows[k] = HelperRow(hs[k], i)
  BY <1>3
<1> HIDE DEF hrows
<1>5. IsSequence(hrows) /\ Len(hrows) = n
  BY <1>3, <1>4, Listed1
<1>6. IsSequence(<<d>>) /\ DOMAIN <<d>> = 1..1 /\ <<d>>[1] = d /\ Len(<<d>>) = 1
  BY ShortSequences
<1>7. CASE ~Includes(q)
  <2>1. s = <<d>>
    BY <1>1, <1>7
  <2>2. 1 \in 1..1 /\ \A j \in 1..1 : j = 1 /\ j \in Nat
    OBVIOUS
  <2>3. QED
    BY <1>6, <1>7, <2>1, <2>2 DEF d, s
<1>8. CASE Includes(q)
  <2>1. s = <<d>> \o hrows
    BY <1>1, <1>8
  <2>2. IsSequence(s)
    BY <1>5, <1>6, <2>1, Appended
  <2>3. hrows \in Seq(ToSet(hrows) \cup {d}) /\ <<d>> \in Seq(ToSet(hrows) \cup {d})
    <3> DEFINE U == ToSet(hrows) \cup {d}
    <3>1. ToSet(hrows) \subseteq U /\ d \in U
      OBVIOUS
    <3>2. hrows \in Seq(ToSet(hrows))
      BY <1>5 DEF IsSequence
    <3> HIDE DEF U
    <3>3. hrows \in Seq(U)
      BY <3>1, <3>2
    <3>4. <<d>> \in Seq(U)
      BY <3>1
    <3>5. QED
      BY <3>3, <3>4 DEF U
  <2>4. DOMAIN s = 1..1 + n /\ \A j \in 1..1 + n : s[j] = IF j <= 1 THEN <<d>>[j] ELSE hrows[j - 1]
    BY <1>3, <1>5, <1>6, <2>1, <2>3, ConcatProperties
  <2>5. 1 \in DOMAIN s /\ s[1] = d
    BY <1>3, <1>6, <2>4
  <2>6. ASSUME NEW j \in 1..1 + n, j # 1
        PROVE  j - 1 \in DOMAIN hs /\ s[j] = HelperRow(hs[j - 1], i)
    <3>1. j - 1 \in 1..n /\ ~(j <= 1)
      BY <1>3, <2>6
    <3>2. s[j] = hrows[j - 1]
      BY <2>4, <3>1
    <3>3. QED
      BY <1>3, <1>4, <3>1, <3>2
  <2>7. ASSUME NEW k \in 1..n
        PROVE  \E j \in 1..1 + n : s[j] = HelperRow(hs[k], i)
    <3> DEFINE j == 1 + k
    <3>1. j \in 1..1 + n /\ j # 1 /\ j - 1 = k
      BY <1>3
    <3> HIDE DEF j
    <3>2. s[j] = HelperRow(hs[k], i)
      BY <2>6, <3>1
    <3>3. QED
      BY <3>1, <3>2
  <2>8. 1..1 + n \subseteq Nat
    BY <1>3
  <2>9. QED
    BY <1>3, <1>8, <2>2, <2>4, <2>5, <2>6, <2>7, <2>8, Zenon DEF d, s, hs
<1>9. QED
  BY <1>7, <1>8

-----------------------------------------------------------------------------
(* The order of what is concatenated and selected                           *)

Pre(s, m) == [k \in 1..m |-> s[k]]

LEMMA Prefix ==
  ASSUME NEW s, NEW m \in Nat
  PROVE  /\ IsSequence(Pre(s, m)) /\ Len(Pre(s, m)) = m /\ DOMAIN Pre(s, m) = 1..m
         /\ \A k \in 1..m : Pre(s, m)[k] = s[k]
<1> DEFINE t == Pre(s, m)
<1>1. DOMAIN t = 1..m /\ (\A k \in 1..m : t[k] = s[k]) /\ t = [k \in 1..m |-> t[k]]
  BY DEF Pre
<1> HIDE DEF t
<1>2. QED
  BY <1>1, Listed1 DEF t

LEMMA PrefixEnds ==
  /\ \A s : Pre(s, 0) = << >>
  /\ \A s : IsSequence(s) => Pre(s, Len(s)) = s
<1>1. ASSUME NEW s PROVE Pre(s, 0) = << >>
  <2>1. 1..0 = {}
    OBVIOUS
  <2>2. QED
    BY <2>1 DEF Pre
<1>2. ASSUME NEW s, IsSequence(s) PROVE Pre(s, Len(s)) = s
  BY <1>2, SequenceIs DEF Pre
<1>3. QED
  BY <1>1, <1>2

\* Sequences are put together in any order of the steps.
LEMMA Chained ==
  ASSUME NEW s, NEW t, NEW u, IsSequence(s), IsSequence(t), IsSequence(u)
  PROVE  /\ (s \o t) \o u = s \o (t \o u)
         /\ s \o << >> = s /\ << >> \o s = s
<1> DEFINE U == ToSet(s) \cup ToSet(t) \cup ToSet(u)
<1>1. ToSet(s) \subseteq U /\ ToSet(t) \subseteq U /\ ToSet(u) \subseteq U
  OBVIOUS
<1>2. s \in Seq(ToSet(s)) /\ t \in Seq(ToSet(t)) /\ u \in Seq(ToSet(u))
  BY DEF IsSequence
<1> HIDE DEF U
<1>3. s \in Seq(U) /\ t \in Seq(U) /\ u \in Seq(U)
  BY <1>1, <1>2
<1>4. QED
  BY <1>3, ConcatAssociative, ConcatEmptySeq

LEMMA PrefixGrows ==
  ASSUME NEW s, NEW m \in Nat
  PROVE  Pre(s, m + 1) = Pre(s, m) \o <<s[m + 1]>>
<1> DEFINE a == Pre(s, m)
           x == s[m + 1]
           b == <<x>>
           U == ToSet(a) \cup ToSet(b)
           t == Pre(s, m + 1)
<1>1. IsSequence(a) /\ Len(a) = m /\ DOMAIN a = 1..m /\ \A k \in 1..m : a[k] = s[k]
  BY Prefix
<1>2. /\ IsSequence(t) /\ Len(t) = m + 1 /\ DOMAIN t = 1..m + 1
      /\ \A k \in 1..m + 1 : t[k] = s[k]
  BY Prefix
<1>3. IsSequence(b) /\ Len(b) = 1 /\ DOMAIN b = 1..1 /\ b[1] = x
  BY ShortSequences
<1> HIDE DEF a, b, t
<1>4. ToSet(a) \subseteq U /\ ToSet(b) \subseteq U
  OBVIOUS
<1> HIDE DEF U
<1>5. a \in Seq(U) /\ b \in Seq(U)
  <2>1. a \in Seq(ToSet(a)) /\ b \in Seq(ToSet(b))
    BY <1>1, <1>3 DEF IsSequence
  <2>2. QED
    BY <1>4, <2>1
<1> DEFINE c == a \o b
<1>6. c \in Seq(U) /\ Len(c) = m + 1
      /\ \A k \in 1..m + 1 : c[k] = IF k <= m THEN a[k] ELSE b[k - m]
  BY <1>1, <1>3, <1>5, ConcatProperties
<1> HIDE DEF c
<1>7. \A k \in 1..m + 1 : c[k] = t[k]
  <2>1. ASSUME NEW k \in 1..m + 1 PROVE c[k] = t[k]
    <3>1. CASE k <= m
      <4>1. k \in 1..m
        BY <3>1
      <4>2. QED
        BY <1>1, <1>2, <1>6, <3>1, <4>1
    <3>2. CASE ~(k <= m)
      <4>1. k = m + 1 /\ k - m = 1
        BY <3>2
      <4>2. QED
        BY <1>2, <1>3, <1>6, <3>2, <4>1 DEF x
    <3>3. QED
      BY <3>1, <3>2
  <2>2. QED
    BY <2>1
<1>8. DOMAIN c = 1..m + 1 /\ c = [k \in 1..m + 1 |-> c[k]] /\ t = [k \in 1..m + 1 |-> t[k]]
  BY <1>2, <1>6 DEF IsSequence
<1>9. t = c
  BY <1>7, <1>8
<1>10. QED
  BY <1>9 DEF t, c, a, b

\* A concatenation, one part at a time.
LEMMA FlattenGrows ==
  ASSUME NEW seqs, NEW m \in Nat, \A i \in 1..m + 1 : IsSequence(seqs[i])
  PROVE  /\ FlattenSeq(Pre(seqs, 0)) = << >>
         /\ IsSequence(FlattenSeq(Pre(seqs, m)))
         /\ FlattenSeq(Pre(seqs, m + 1)) = FlattenSeq(Pre(seqs, m)) \o seqs[m + 1]
<1> DEFINE p == Pre(seqs, m)
           q == Pre(seqs, m + 1)
<1>1. /\ IsSequence(p) /\ Len(p) = m /\ DOMAIN p = 1..m /\ \A k \in 1..m : p[k] = seqs[k]
      /\ IsSequence(q) /\ Len(q) = m + 1 /\ DOMAIN q = 1..m + 1
      /\ \A k \in 1..m + 1 : q[k] = seqs[k]
  BY Prefix
<1>2. FlattenSeq(Pre(seqs, 0)) = << >>
  BY PrefixEnds DEF FlattenSeq
<1> HIDE DEF p, q
<1>3. PICK f : IsFlattening(f, q, m + 1) /\ FlattenSeq(q) = f[m + 1]
  BY <1>1, FlattenIs
<1>4. \A i \in 1..m + 1 : f[i] = IF i = 1 THEN seqs[i] ELSE f[i-1] \o seqs[i]
  BY <1>1, <1>3, Zenon DEF IsFlattening
<1>5. IsSequence(FlattenSeq(p))
  <2>1. p = [i \in 1..m |-> p[i]]
    BY <1>1, SequenceIs
  <2>2. \A i \in 1..m : IsSequence(p[i])
    BY <1>1
  <2>3. QED
    BY <2>1, <2>2, Concatenated
<1>6. CASE m = 0
  <2>1. p = << >> /\ FlattenSeq(p) = << >>
    BY <1>2, <1>6, PrefixEnds DEF p
  <2>2. f[1] = seqs[1] /\ m + 1 = 1
    BY <1>4, <1>6
  <2>3. << >> \o seqs[1] = seqs[1]
    BY <1>6, Chained
  <2>4. FlattenSeq(q) = FlattenSeq(p) \o seqs[m + 1]
    BY <1>3, <2>1, <2>2, <2>3, Zenon
  <2>5. QED
    BY <1>2, <1>5, <2>4 DEF p, q
<1>7. CASE m # 0
  <2>1. PICK e : IsFlattening(e, p, m) /\ FlattenSeq(p) = e[m]
    BY <1>1, <1>7, FlattenIs
  <2>2. \A i \in 1..m : e[i] = IF i = 1 THEN seqs[i] ELSE e[i-1] \o seqs[i]
    BY <1>1, <2>1, Zenon DEF IsFlattening
  <2> DEFINE S == {k \in Nat : k \in 1..m => e[k] = f[k]}
  <2>3. 0 \in S
    OBVIOUS
  <2>4. ASSUME NEW k \in Nat, k \in S PROVE k + 1 \in S
    <3>1. SUFFICES ASSUME k + 1 \in 1..m PROVE e[k + 1] = f[k + 1]
      OBVIOUS
    <3>2. k \in 1..m => e[k] = f[k]
      BY <2>4
    <3> HIDE DEF S
    <3>3. k + 1 - 1 = k /\ k + 1 \in 1..m + 1 /\ (k + 1 # 1 => k \in 1..m)
      BY <3>1
    <3>4. e[k + 1] = IF k + 1 = 1 THEN seqs[k + 1] ELSE e[k] \o seqs[k + 1]
      <4>1. e[k + 1] = IF k + 1 = 1 THEN seqs[k + 1] ELSE e[k + 1 - 1] \o seqs[k + 1]
        BY <2>2, <3>1
      <4>2. QED
        BY <3>3, <4>1
    <3>5. f[k + 1] = IF k + 1 = 1 THEN seqs[k + 1] ELSE f[k] \o seqs[k + 1]
      <4>1. f[k + 1] = IF k + 1 = 1 THEN seqs[k + 1] ELSE f[k + 1 - 1] \o seqs[k + 1]
        BY <1>4, <3>3
      <4>2. QED
        BY <3>3, <4>1
    <3>6. QED
      BY <3>2, <3>3, <3>4, <3>5
  <2>5. m \in S
    <3> HIDE DEF S
    <3>1. QED
      BY <2>3, <2>4, SetInduction
  <2>6. e[m] = f[m]
    BY <1>7, <2>5
  <2>7. f[m + 1] = f[m] \o seqs[m + 1]
    <3>1. m + 1 \in 1..m + 1
      OBVIOUS
    <3>2. f[m + 1] = IF m + 1 = 1 THEN seqs[m + 1] ELSE f[m + 1 - 1] \o seqs[m + 1]
      BY <1>4, <3>1
    <3>3. m + 1 # 1 /\ m + 1 - 1 = m
      BY <1>7
    <3>4. QED
      BY <3>2, <3>3, Zenon
  <2>8. FlattenSeq(q) = FlattenSeq(p) \o seqs[m + 1]
    BY <1>3, <2>1, <2>6, <2>7
  <2>9. QED
    BY <1>2, <1>5, <2>8 DEF p, q
<1>8. QED
  BY <1>6, <1>7

-----------------------------------------------------------------------------
(* What is kept of a sequence: its elements in a set, in their order        *)

Kept(s, S) == Selected(s, {k \in DOMAIN s : s[k] \in S})

\* What is kept, element by element.
LEMMA KeptGrows ==
  ASSUME NEW s, NEW S, NEW m \in Nat
  PROVE  /\ Kept(Pre(s, 0), S) = << >>
         /\ IsSequence(Kept(Pre(s, m), S))
         /\ s[m + 1] \in S => Kept(Pre(s, m + 1), S) = Kept(Pre(s, m), S) \o <<s[m + 1]>>
         /\ s[m + 1] \notin S => Kept(Pre(s, m + 1), S) = Kept(Pre(s, m), S)
<1> DEFINE part(k) == IF s[k] \in S THEN <<s[k]>> ELSE << >>
           parts == [k \in 1..m + 1 |-> part(k)]
<1>1. \A k \in 1..m + 1 : parts[k] = part(k)
  OBVIOUS
<1>2. \A k : IsSequence(part(k))
  BY ShortSequences
<1>3. ASSUME NEW n \in 0..m + 1 PROVE Kept(Pre(s, n), S) = FlattenSeq(Pre(parts, n))
  <2> DEFINE a == Pre(s, n)
  <2>1. n \in Nat /\ DOMAIN a = 1..n /\ \A k \in 1..n : a[k] = s[k] /\ k \in 1..m + 1
    <3>1. n \in Nat /\ \A k \in 1..n : k \in 1..m + 1
      OBVIOUS
    <3>2. QED
      BY <3>1, Prefix
  <2> DEFINE mine == {k \in DOMAIN a : a[k] \in S}
             chosen == [k \in DOMAIN a |-> IF k \in mine THEN <<a[k]>> ELSE << >>]
  <2>2. ASSUME NEW k \in 1..n PROVE (IF k \in mine THEN <<a[k]>> ELSE << >>) = parts[k]
    <3>1. a[k] = s[k] /\ (k \in mine <=> s[k] \in S) /\ parts[k] = part(k)
      BY <1>1, <2>1
    <3> HIDE DEF a, mine, parts
    <3>2. QED
      BY <3>1
  <2> HIDE DEF a, mine, parts
  <2>3. chosen = [k \in 1..n |-> parts[k]]
    BY <2>1, <2>2
  <2>4. Kept(a, S) = FlattenSeq(chosen)
    BY DEF Kept, Selected, mine
  <2>5. QED
    BY <2>3, <2>4, Zenon DEF a, Pre
<1> HIDE DEF parts, part
<1>4. \A i \in 1..m + 1 : IsSequence(parts[i])
  BY <1>1, <1>2
<1>5. /\ FlattenSeq(Pre(parts, 0)) = << >>
      /\ IsSequence(FlattenSeq(Pre(parts, m)))
      /\ FlattenSeq(Pre(parts, m + 1)) = FlattenSeq(Pre(parts, m)) \o parts[m + 1]
  BY <1>4, FlattenGrows
<1>6. 0 \in 0..m + 1 /\ m \in 0..m + 1 /\ m + 1 \in 0..m + 1 /\ m + 1 \in 1..m + 1
  OBVIOUS
<1>7. Kept(Pre(s, 0), S) = << >> /\ IsSequence(Kept(Pre(s, m), S))
      /\ Kept(Pre(s, m + 1), S) = Kept(Pre(s, m), S) \o part(m + 1)
  BY <1>1, <1>3, <1>5, <1>6, Zenon
<1> DEFINE K == Kept(Pre(s, m), S)
<1> HIDE DEF K
<1>8. K \o << >> = K
  BY <1>7, Chained DEF K
<1>9. QED
  BY <1>7, <1>8, Zenon DEF part, K

LEMMA KeptAll ==
  ASSUME NEW s, IsSequence(s), NEW S
  PROVE  /\ IsSequence(Kept(s, S))
         /\ ToSet(s) \subseteq S => Kept(s, S) = s
         /\ (\A x \in ToSet(s) : x \notin S) => Kept(s, S) = << >>
<1> DEFINE n == Len(s)
           All(m) == ToSet(s) \subseteq S => Kept(Pre(s, m), S) = Pre(s, m)
           None0(m) == (\A x \in ToSet(s) : x \notin S) => Kept(Pre(s, m), S) = << >>
           T == {m \in Nat : m <= n => All(m) /\ None0(m)}
<1>1. n \in Nat /\ \A k \in 1..n : s[k] \in ToSet(s)
  BY SequenceIs
<1>2. Pre(s, n) = s /\ Pre(s, 0) = << >>
  BY PrefixEnds
<1> HIDE DEF n
<1>3. 0 \in T
  <2>1. Kept(Pre(s, 0), S) = << >>
    BY KeptGrows, Zenon
  <2>2. All(0) /\ None0(0)
    BY <1>2, <2>1
  <2> HIDE DEF All, None0
  <2>3. QED
    BY <2>2
<1>4. ASSUME NEW m \in Nat, m \in T PROVE m + 1 \in T
  <2>1. SUFFICES ASSUME m + 1 <= n PROVE All(m + 1) /\ None0(m + 1)
    <3> HIDE DEF All, None0
    <3>1. QED
      OBVIOUS
  <2>2. All(m) /\ None0(m)
    <3> HIDE DEF All, None0
    <3>1. QED
      BY <1>1, <1>4, <2>1
  <2>3. s[m + 1] \in ToSet(s)
    BY <1>1, <2>1
  <2>4. /\ s[m + 1] \in S => Kept(Pre(s, m + 1), S) = Kept(Pre(s, m), S) \o <<s[m + 1]>>
        /\ s[m + 1] \notin S => Kept(Pre(s, m + 1), S) = Kept(Pre(s, m), S)
    BY KeptGrows
  <2>5. Pre(s, m + 1) = Pre(s, m) \o <<s[m + 1]>>
    BY PrefixGrows
  <2>6. All(m + 1)
    BY <2>2, <2>3, <2>4, <2>5, Zenon
  <2>7. None0(m + 1)
    BY <2>2, <2>3, <2>4
  <2>8. QED
    BY <2>6, <2>7
<1>5. n \in T
  <2> HIDE DEF T
  <2>1. QED
    BY <1>1, <1>3, <1>4, SetInduction
<1>6. All(n) /\ None0(n)
  <2> HIDE DEF All, None0
  <2>1. QED
    BY <1>1, <1>5
<1>7. IsSequence(Kept(Pre(s, n), S))
  BY <1>1, KeptGrows, Zenon
<1>8. QED
  BY <1>2, <1>6, <1>7

LEMMA KeptOfBoth ==
  ASSUME NEW s, NEW t, IsSequence(s), IsSequence(t), NEW S
  PROVE  Kept(s \o t, S) = Kept(s, S) \o Kept(t, S)
<1> DEFINE n == Len(t)
           Done(m) == Kept(s \o Pre(t, m), S) = Kept(s, S) \o Kept(Pre(t, m), S)
           T == {m \in Nat : Done(m)}
<1>1. n \in Nat
  BY SequenceIs
<1>2. Pre(t, n) = t /\ Pre(t, 0) = << >>
  BY PrefixEnds
<1> HIDE DEF n
<1>3. IsSequence(Kept(s, S))
  BY KeptAll
<1>4. 0 \in T
  <2>1. Kept(Pre(t, 0), S) = << >>
    BY KeptGrows, Zenon
  <2>2. s \o << >> = s /\ Kept(s, S) \o << >> = Kept(s, S)
    BY <1>3, Chained
  <2>3. QED
    BY <1>2, <2>1, <2>2, Zenon
<1>5. ASSUME NEW m \in Nat, m \in T PROVE m + 1 \in T
  <2> DEFINE u == Pre(t, m)
             x == t[m + 1]
             v == s \o u
             w == v \o <<x>>
             L == Len(v)
             K == Kept(s, S)
             Ku == Kept(u, S)
  <2>1. Done(m)
    BY <1>5
  <2>2. IsSequence(u) /\ Pre(t, m + 1) = u \o <<x>>
    BY Prefix, PrefixGrows
  <2>3. IsSequence(<<x>>) /\ Len(<<x>>) = 1 /\ <<x>>[1] = x
    BY ShortSequences
  <2>4. s \o Pre(t, m + 1) = w
    <3> HIDE DEF u, x
    <3>1. (s \o u) \o <<x>> = s \o (u \o <<x>>)
      BY <2>2, <2>3, Chained
    <3>2. QED
      BY <2>2, <3>1, Zenon
  <2>5. IsSequence(v)
    BY <2>2, Appended
  <2>6. /\ x \in S => Kept(Pre(t, m + 1), S) = Ku \o <<x>>
        /\ x \notin S => Kept(Pre(t, m + 1), S) = Ku
        /\ IsSequence(Ku)
    BY KeptGrows
  <2> HIDE DEF u, x, v
  <2>7. IsSequence(w)
    BY <2>3, <2>5, Appended
  <2>8. L \in Nat /\ DOMAIN v = 1..L
    BY <2>5, SequenceIs
  <2>9. Pre(w, L) = v /\ w[L + 1] = x /\ Pre(w, L + 1) = w
    <3> DEFINE U == ToSet(v) \cup ToSet(<<x>>)
    <3>1. v \in Seq(U) /\ <<x>> \in Seq(U)
      <4>1. v \in Seq(ToSet(v)) /\ <<x>> \in Seq(ToSet(<<x>>))
        BY <2>3, <2>5 DEF IsSequence
      <4>2. ToSet(v) \subseteq U /\ ToSet(<<x>>) \subseteq U
        OBVIOUS
      <4> HIDE DEF U
      <4>3. QED
        BY <4>1, <4>2
    <3> HIDE DEF U
    <3>2. Len(w) = L + 1 /\ \A k \in 1..L + 1 : w[k] = IF k <= L THEN v[k] ELSE <<x>>[k - L]
      BY <2>3, <3>1, ConcatProperties
    <3> HIDE DEF L, w
    <3>3. w[L + 1] = x
      <4> DEFINE k == L + 1
      <4>1. k \in 1..L + 1 /\ ~(k <= L) /\ k - L = 1
        BY <2>8
      <4> HIDE DEF k
      <4>2. w[k] = <<x>>[k - L]
        BY <3>2, <4>1
      <4>3. w[k] = x
        BY <2>3, <4>1, <4>2
      <4>4. QED
        BY <4>3 DEF k
    <3>4. \A k \in 1..L : w[k] = v[k]
      BY <2>8, <3>2
    <3>5. v = [k \in 1..L |-> v[k]]
      BY <2>5, SequenceIs DEF L
    <3>6. Pre(w, L) = v
      BY <3>4, <3>5 DEF Pre
    <3>7. Pre(w, L + 1) = w
      BY <2>7, <3>2, PrefixEnds
    <3>8. QED
      BY <3>3, <3>6, <3>7
  <2> HIDE DEF w, L
  <2>10. /\ x \in S => Kept(w, S) = Kept(v, S) \o <<x>>
         /\ x \notin S => Kept(w, S) = Kept(v, S)
    <3>1. /\ w[L + 1] \in S => Kept(Pre(w, L + 1), S) = Kept(Pre(w, L), S) \o <<w[L + 1]>>
          /\ w[L + 1] \notin S => Kept(Pre(w, L + 1), S) = Kept(Pre(w, L), S)
      BY <2>8, KeptGrows
    <3>2. QED
      BY <2>9, <3>1
  <2>11. Kept(v, S) = K \o Ku
    BY <2>1 DEF v, u
  <2>12. (K \o Ku) \o <<x>> = K \o (Ku \o <<x>>)
    BY <1>3, <2>3, <2>6, Chained
  <2>13. Kept(w, S) = K \o Kept(Pre(t, m + 1), S)
    BY <2>6, <2>10, <2>11, <2>12, Zenon
  <2>14. Done(m + 1)
    BY <2>4, <2>13, Zenon
  <2> HIDE DEF Done
  <2>15. QED
    BY <2>14
<1>6. n \in T
  <2> HIDE DEF T
  <2>1. QED
    BY <1>1, <1>4, <1>5, SetInduction
<1>7. QED
  BY <1>2, <1>6

\* What is kept of a concatenation is kept of its parts.
LEMMA KeptOfFlatten ==
  ASSUME NEW seqs, NEW n \in Nat, \A i \in 1..n : IsSequence(seqs[i]), NEW S,
         NEW parts, \A i \in 1..n : parts[i] = Kept(seqs[i], S)
  PROVE  Kept(FlattenSeq(Pre(seqs, n)), S) = FlattenSeq(Pre(parts, n))
<1> DEFINE Done(m) == Kept(FlattenSeq(Pre(seqs, m)), S) = FlattenSeq(Pre(parts, m))
           T == {m \in Nat : m <= n => Done(m)}
<1>1. \A i \in 1..n : IsSequence(parts[i])
  BY KeptAll
<1>2. 0 \in T
  <2>1. Pre(seqs, 0) = << >> /\ Pre(parts, 0) = << >> /\ FlattenSeq(<< >>) = << >>
    BY PrefixEnds DEF FlattenSeq
  <2>2. Kept(<< >>, S) = << >>
    BY ShortSequences, KeptAll
  <2>3. Done(0)
    BY <2>1, <2>2
  <2> HIDE DEF Done
  <2>4. QED
    BY <2>3
<1>3. ASSUME NEW m \in Nat, m \in T PROVE m + 1 \in T
  <2>1. SUFFICES ASSUME m + 1 <= n PROVE Done(m + 1)
    <3> HIDE DEF Done
    <3>1. QED
      OBVIOUS
  <2>2. Done(m)
    <3> HIDE DEF Done
    <3>1. QED
      BY <1>3, <2>1
  <2>3. m + 1 \in 1..n /\ \A i \in 1..m + 1 : i \in 1..n
    BY <2>1
  <2>4. (\A i \in 1..m + 1 : IsSequence(seqs[i])) /\ \A i \in 1..m + 1 : IsSequence(parts[i])
    BY <1>1, <2>3
  <2> DEFINE a == FlattenSeq(Pre(seqs, m))
             x == seqs[m + 1]
  <2>5. IsSequence(a) /\ FlattenSeq(Pre(seqs, m + 1)) = a \o x
    BY <2>4, FlattenGrows
  <2>6. FlattenSeq(Pre(parts, m + 1)) = FlattenSeq(Pre(parts, m)) \o parts[m + 1]
    BY <2>4, FlattenGrows
  <2>7. IsSequence(x) /\ parts[m + 1] = Kept(x, S)
    BY <2>3
  <2> HIDE DEF a, x
  <2>8. Kept(a \o x, S) = Kept(a, S) \o Kept(x, S)
    BY <2>5, <2>7, KeptOfBoth
  <2>9. QED
    BY <2>2, <2>5, <2>6, <2>7, <2>8, Zenon DEF a
<1>4. n \in T
  <2> HIDE DEF T
  <2>1. QED
    BY <1>2, <1>3, SetInduction
<1>5. QED
  BY <1>4

LEMMA FlattenSingles ==
  ASSUME NEW a, NEW parts, NEW n \in Nat, \A i \in 1..n : parts[i] = <<a[i]>>
  PROVE  FlattenSeq(Pre(parts, n)) = Pre(a, n)
<1> DEFINE Done(m) == FlattenSeq(Pre(parts, m)) = Pre(a, m)
           T == {m \in Nat : m <= n => Done(m)}
<1>1. \A i \in 1..n : IsSequence(parts[i])
  BY ShortSequences, Zenon
<1>2. 0 \in T
  <2>1. Pre(a, 0) = << >> /\ Pre(parts, 0) = << >> /\ FlattenSeq(<< >>) = << >>
    BY PrefixEnds DEF FlattenSeq
  <2>2. Done(0)
    BY <2>1
  <2> HIDE DEF Done
  <2>3. QED
    BY <2>2
<1>3. ASSUME NEW m \in Nat, m \in T PROVE m + 1 \in T
  <2>1. SUFFICES ASSUME m + 1 <= n PROVE Done(m + 1)
    <3> HIDE DEF Done
    <3>1. QED
      OBVIOUS
  <2>2. Done(m)
    <3> HIDE DEF Done
    <3>1. QED
      BY <1>3, <2>1
  <2>3. m + 1 \in 1..n /\ \A i \in 1..m + 1 : i \in 1..n
    BY <2>1
  <2>4. \A i \in 1..m + 1 : IsSequence(parts[i])
    BY <1>1, <2>3
  <2>5. FlattenSeq(Pre(parts, m + 1)) = FlattenSeq(Pre(parts, m)) \o parts[m + 1]
    BY <2>4, FlattenGrows
  <2>6. Pre(a, m + 1) = Pre(a, m) \o <<a[m + 1]>>
    BY PrefixGrows
  <2>7. QED
    BY <2>2, <2>3, <2>5, <2>6, Zenon
<1>4. n \in T
  <2> HIDE DEF T
  <2>1. QED
    BY <1>2, <1>3, SetInduction
<1>5. QED
  BY <1>4

LEMMA FlattenOne ==
  ASSUME NEW parts, NEW n \in Nat, NEW j \in 1..n, IsSequence(parts[j]),
         \A i \in 1..n : i # j => parts[i] = << >>
  PROVE  FlattenSeq(Pre(parts, n)) = parts[j]
<1> DEFINE Done(m) == FlattenSeq(Pre(parts, m)) = IF m < j THEN << >> ELSE parts[j]
           T == {m \in Nat : m <= n => Done(m)}
<1>1. \A i \in 1..n : IsSequence(parts[i])
  BY ShortSequences
<1>2. 0 \in T
  <2>1. Pre(parts, 0) = << >> /\ FlattenSeq(<< >>) = << >>
    BY PrefixEnds DEF FlattenSeq
  <2>2. Done(0)
    BY <2>1
  <2> HIDE DEF Done
  <2>3. QED
    BY <2>2
<1>3. ASSUME NEW m \in Nat, m \in T PROVE m + 1 \in T
  <2>1. SUFFICES ASSUME m + 1 <= n PROVE Done(m + 1)
    <3> HIDE DEF Done
    <3>1. QED
      OBVIOUS
  <2>2. Done(m)
    <3> HIDE DEF Done
    <3>1. QED
      BY <1>3, <2>1
  <2>3. m + 1 \in 1..n /\ \A i \in 1..m + 1 : i \in 1..n
    BY <2>1
  <2>4. \A i \in 1..m + 1 : IsSequence(parts[i])
    BY <1>1, <2>3
  <2>5. FlattenSeq(Pre(parts, m + 1)) = FlattenSeq(Pre(parts, m)) \o parts[m + 1]
    BY <2>4, FlattenGrows, Zenon
  <2>6. parts[j] \o << >> = parts[j] /\ << >> \o parts[j] = parts[j]
    BY Chained
  <2>7. << >> \o << >> = << >>
    BY ShortSequences, Chained
  <2>8. CASE m + 1 < j
    <3>1. parts[m + 1] = << >> /\ m < j
      BY <2>3, <2>8
    <3>2. QED
      BY <2>2, <2>5, <2>7, <2>8, <3>1
  <2>9. CASE m + 1 = j
    <3>1. m < j /\ ~(m + 1 < j)
      BY <2>9
    <3>2. QED
      BY <2>2, <2>5, <2>6, <2>9, <3>1, Zenon
  <2>10. CASE m + 1 > j
    <3>1. parts[m + 1] = << >> /\ ~(m < j) /\ ~(m + 1 < j)
      BY <2>3, <2>10
    <3>2. QED
      BY <2>2, <2>5, <2>6, <3>1
  <2>11. QED
    BY <2>8, <2>9, <2>10
<1>4. n \in T
  <2> HIDE DEF T
  <2>1. QED
    BY <1>2, <1>3, SetInduction
<1>5. QED
  BY <1>4

-----------------------------------------------------------------------------
(* The rows of a tool, in the order of its requirements                     *)

HelperPart(q, i) ==
  IF Includes(q) THEN [k \in DOMAIN HelpersFor(q) |-> HelperRow(HelpersFor(q)[k], i)] ELSE << >>

LEMMA PartsOfRow ==
  ASSUME NEW q, q.helpers # None => IsSequence(q.helpers), NEW i
  PROVE  /\ RowsOf(q, i) = <<DirectRow(q, i)>> \o HelperPart(q, i)
         /\ IsSequence(HelperPart(q, i))
         /\ \A x \in ToSet(HelperPart(q, i)) : x.source = "helper" /\ x.index = i
<1> DEFINE hs == HelpersFor(q)
           n == Len(hs)
           t == [k \in DOMAIN hs |-> HelperRow(hs[k], i)]
           d == DirectRow(q, i)
<1>1. RowsOf(q, i) = IF Includes(q) THEN <<d>> \o t ELSE <<d>>
  BY Zenon DEF RowsOf, HelpersFor, Includes
<1>2. HelperPart(q, i) = IF Includes(q) THEN t ELSE << >>
  BY DEF HelperPart
<1>3. IsSequence(hs)
  BY HelpersForAre
<1> HIDE DEF d, hs
<1>4. n \in Nat /\ DOMAIN hs = 1..n
  BY <1>3, SequenceIs
<1> HIDE DEF n
<1>5. t = [k \in 1..n |-> t[k]] /\ \A k \in 1..n : t[k] = HelperRow(hs[k], i)
  BY <1>4
<1> HIDE DEF t
<1>6. IsSequence(t) /\ ToSet(t) = {t[k] : k \in 1..n}
  BY <1>4, <1>5, Listed1
<1>7. \A x \in ToSet(t) : x.source = "helper" /\ x.index = i
  BY <1>5, <1>6, HelperRowIs
<1>8. IsSequence(<< >>) /\ ToSet(<< >>) = {} /\ IsSequence(<<d>>)
  BY ShortSequences
<1>9. <<d>> \o << >> = <<d>>
  BY <1>8, Chained
<1>10. CASE Includes(q)
  BY <1>1, <1>2, <1>6, <1>7, <1>10 DEF d
<1>11. CASE ~Includes(q)
  BY <1>1, <1>2, <1>8, <1>9, <1>11 DEF d
<1>12. QED
  BY <1>10, <1>11

LEMMA DirectSource ==
  ASSUME NEW q, NEW i
  PROVE  DirectRow(q, i).source = "tool"
BY DEF DirectRow, Row

LEMMA RowsInOrder ==
  ASSUME NEW rs, IsSequence(rs), \A q \in ToSet(rs) : q.helpers # None => IsSequence(q.helpers),
         NEW g, NEW added, IsSequence(added), \A x \in ToSet(added) : x.source = "managed",
         g.requirements = Group(rs).requirements \o added
  PROVE  /\ RowsFrom(g, "tool") = [i \in 1..Len(rs) |-> DirectRow(rs[i], i)]
         /\ LET hs == RowsFrom(g, "helper") IN
            \A i \in 1..Len(rs) :
               Selected(hs, {k \in DOMAIN hs : hs[k].index = i}) = HelperPart(rs[i], i)
<1> DEFINE n == Len(rs)
           parts == [i \in DOMAIN rs |-> RowsOf(rs[i], i)]
           rows == FlattenSeq(parts)
           xs == g.requirements
           S == {x \in ToSet(xs) : x.source = "tool"}
           H == {x \in ToSet(xs) : x.source = "helper"}
           d == [i \in 1..n |-> DirectRow(rs[i], i)]
           singles == [i \in 1..n |-> <<d[i]>>]
           hps == [i \in 1..n |-> HelperPart(rs[i], i)]
           hs == RowsFrom(g, "helper")
<1>1. n \in Nat /\ DOMAIN rs = 1..n /\ \A i \in 1..n : rs[i] \in ToSet(rs)
  BY SequenceIs
<1>2. Group(rs).requirements = rows
  BY DEF Group
<1>3. Kept(xs, S) = RowsFrom(g, "tool") /\ Kept(xs, H) = RowsFrom(g, "helper")
  <2>1. \A k \in DOMAIN xs : xs[k] \in ToSet(xs)
    BY DEF ToSet
  <2>2. {k \in DOMAIN xs : xs[k] \in S} = {k \in DOMAIN xs : xs[k].source = "tool"}
    BY <2>1
  <2>3. {k \in DOMAIN xs : xs[k] \in H} = {k \in DOMAIN xs : xs[k].source = "helper"}
    BY <2>1
  <2>4. QED
    BY <2>2, <2>3, Zenon DEF Kept, RowsFrom
<1> HIDE DEF n
<1>4. parts = Pre(parts, n) /\ \A i \in 1..n : parts[i] = RowsOf(rs[i], i)
  BY <1>1 DEF Pre
<1>5. (\A i \in 1..n : d[i] = DirectRow(rs[i], i) /\ singles[i] = <<d[i]>>)
      /\ (\A i \in 1..n : hps[i] = HelperPart(rs[i], i)) /\ d = Pre(d, n) /\ hps = Pre(hps, n)
  BY DEF Pre
<1> HIDE DEF parts, d, singles, hps
<1>6. ASSUME NEW i \in 1..n
      PROVE  /\ parts[i] = <<d[i]>> \o hps[i]
             /\ IsSequence(<<d[i]>>) /\ ToSet(<<d[i]>>) = {d[i]} /\ d[i].source = "tool"
             /\ IsSequence(hps[i]) /\ \A x \in ToSet(hps[i]) : x.source = "helper" /\ x.index = i
             /\ IsSequence(parts[i]) /\ ToSet(parts[i]) = {d[i]} \cup ToSet(hps[i])
  <2>1. rs[i].helpers # None => IsSequence(rs[i].helpers)
    BY <1>1
  <2>2. /\ parts[i] = <<d[i]>> \o hps[i]
        /\ IsSequence(hps[i]) /\ \A x \in ToSet(hps[i]) : x.source = "helper" /\ x.index = i
    BY <1>4, <1>5, <2>1, PartsOfRow
  <2>3. IsSequence(<<d[i]>>) /\ ToSet(<<d[i]>>) = {d[i]} /\ d[i].source = "tool"
    BY <1>5, ShortSequences, DirectSource
  <2>4. QED
    BY <2>2, <2>3, Appended
<1>seqs. (\A i \in 1..n : IsSequence(parts[i])) /\ \A i \in 1..n : IsSequence(hps[i])
  BY <1>6, Zenon
<1>elems. \A i \in 1..n : /\ ToSet(parts[i]) = {d[i]} \cup ToSet(hps[i]) /\ d[i].source = "tool"
                         /\ \A x \in ToSet(hps[i]) : x.source = "helper" /\ x.index = i
  BY <1>6, Zenon
<1>7. IsSequence(rows) /\ ToSet(rows) = UNION {ToSet(parts[i]) : i \in 1..n}
  <2>1. parts = [i \in 1..n |-> parts[i]]
    BY <1>4 DEF Pre
  <2>2. QED
    BY <1>1, <1>seqs, <2>1, Concatenated, Zenon
<1>8. rows = FlattenSeq(Pre(parts, n))
  BY <1>4
<1>9. xs = rows \o added /\ ToSet(xs) = ToSet(rows) \cup ToSet(added)
  BY <1>2, <1>7, Appended
<1> HIDE DEF rows, xs
<1>10. ASSUME NEW i \in 1..n
       PROVE  /\ d[i] \in S /\ d[i] \notin H
              /\ \A x \in ToSet(hps[i]) : x \in H /\ x \notin S
  <2>1. ToSet(parts[i]) \subseteq ToSet(xs)
    BY <1>7, <1>9
  <2>2. d[i] \in ToSet(xs) /\ d[i].source = "tool"
    BY <1>elems, <2>1
  <2>3. \A x \in ToSet(hps[i]) : x \in ToSet(xs) /\ x.source = "helper"
    BY <1>elems, <2>1
  <2>4. QED
    BY <2>2, <2>3
<1>11. \A x \in ToSet(added) : x \notin S /\ x \notin H
  OBVIOUS
<1> HIDE DEF S, H
<1>12. Kept(added, S) = << >> /\ Kept(added, H) = << >>
  BY <1>11, KeptAll
<1>13. ASSUME NEW i \in 1..n PROVE singles[i] = Kept(parts[i], S) /\ hps[i] = Kept(parts[i], H)
  <2>1. Kept(<<d[i]>>, S) = <<d[i]>> /\ Kept(<<d[i]>>, H) = << >>
    BY <1>6, <1>10, KeptAll
  <2>2. Kept(hps[i], H) = hps[i] /\ Kept(hps[i], S) = << >>
    <3>1. ToSet(hps[i]) \subseteq H
      BY <1>10
    <3>2. QED
      BY <1>seqs, <1>10, <3>1, KeptAll
  <2>3. Kept(parts[i], S) = Kept(<<d[i]>>, S) \o Kept(hps[i], S)
        /\ Kept(parts[i], H) = Kept(<<d[i]>>, H) \o Kept(hps[i], H)
    <3> DEFINE a == <<d[i]>>
               b == hps[i]
    <3>1. IsSequence(a) /\ IsSequence(b) /\ parts[i] = a \o b
      BY <1>6
    <3> HIDE DEF a, b
    <3>2. Kept(a \o b, S) = Kept(a, S) \o Kept(b, S) /\ Kept(a \o b, H) = Kept(a, H) \o Kept(b, H)
      BY <3>1, KeptOfBoth
    <3>3. QED
      BY <3>1, <3>2, Zenon DEF a, b
  <2>4. <<d[i]>> \o << >> = <<d[i]>> /\ << >> \o hps[i] = hps[i]
    BY <1>6, Chained
  <2>5. QED
    BY <1>5, <2>1, <2>2, <2>3, <2>4, Zenon
<1>14. Kept(rows, S) = FlattenSeq(Pre(singles, n)) /\ Kept(rows, H) = FlattenSeq(Pre(hps, n))
  BY <1>1, <1>seqs, <1>8, <1>13, KeptOfFlatten
<1>15. FlattenSeq(Pre(singles, n)) = d
  BY <1>1, <1>5, FlattenSingles
<1>16. Kept(xs, S) = Kept(rows, S) /\ Kept(xs, H) = Kept(rows, H)
  <2>1. Kept(xs, S) = Kept(rows, S) \o Kept(added, S) /\ Kept(xs, H) = Kept(rows, H) \o Kept(added, H)
    BY <1>7, <1>9, KeptOfBoth
  <2>2. IsSequence(Kept(rows, S)) /\ IsSequence(Kept(rows, H))
    BY <1>7, KeptAll
  <2>3. QED
    BY <1>12, <2>1, <2>2, Chained
<1>17. RowsFrom(g, "tool") = d
  BY <1>3, <1>14, <1>15, <1>16
<1>18. hs = FlattenSeq(Pre(hps, n)) /\ IsSequence(hs)
  <2>1. hs = FlattenSeq(Pre(hps, n))
    BY <1>3, <1>14, <1>16
  <2>2. IsSequence(Kept(rows, H))
    BY <1>7, KeptAll
  <2>3. QED
    BY <1>14, <2>1, <2>2
<1> HIDE DEF hs
<1>19. ASSUME NEW j \in 1..n
       PROVE  Selected(hs, {k \in DOMAIN hs : hs[k].index = j}) = hps[j]
  <2> DEFINE J == {x \in ToSet(hs) : x.index = j}
             kept == [i \in 1..n |-> Kept(hps[i], J)]
  <2>1. Selected(hs, {k \in DOMAIN hs : hs[k].index = j}) = Kept(hs, J)
    <3>1. \A k \in DOMAIN hs : hs[k] \in ToSet(hs)
      BY DEF ToSet
    <3>2. {k \in DOMAIN hs : hs[k] \in J} = {k \in DOMAIN hs : hs[k].index = j}
      BY <3>1
    <3>3. QED
      BY <3>2, Zenon DEF Kept
  <2>2. ToSet(hs) = UNION {ToSet(hps[i]) : i \in 1..n}
    <3>1. hps = [i \in 1..n |-> hps[i]]
      BY <1>5 DEF Pre
    <3>2. hs = FlattenSeq(hps)
      BY <1>5, <1>18
    <3>3. QED
      BY <1>1, <1>seqs, <3>1, <3>2, Concatenated, Zenon
  <2>3. ToSet(hps[j]) \subseteq J
    BY <1>elems, <2>2
  <2>4. ASSUME NEW i \in 1..n, i # j, NEW x \in ToSet(hps[i]) PROVE x \notin J
    BY <1>elems, <2>4
  <2>5. \A i \in 1..n : kept[i] = Kept(hps[i], J)
    OBVIOUS
  <2> HIDE DEF J, kept
  <2>6. kept[j] = hps[j]
    BY <1>seqs, <2>3, <2>5, KeptAll
  <2>7. \A i \in 1..n : i # j => kept[i] = << >>
    BY <1>seqs, <2>4, <2>5, KeptAll
  <2>8. Kept(hs, J) = FlattenSeq(Pre(kept, n))
    BY <1>1, <1>seqs, <1>18, <2>5, KeptOfFlatten
  <2>9. FlattenSeq(Pre(kept, n)) = kept[j]
    BY <1>1, <1>seqs, <2>6, <2>7, FlattenOne
  <2>10. QED
    BY <2>1, <2>6, <2>8, <2>9
<1>20. QED
  BY <1>5, <1>17, <1>19 DEF d, n, hs

-----------------------------------------------------------------------------
(* The page of a tool                                                       *)

\* What the page makes of requirements, and the rows of one of them.
PageOf(rs) == WithExpectedPolicies(WithOwnAccess(Group(rs)), EditorAudience)
RowAt(x, rs, i) == x = DirectRow(rs[i], i) \/ x \in ToSet(HelperPart(rs[i], i))

LEMMA RowsAt ==
  ASSUME NEW rs, RowsWell(rs)
  PROVE  LET rows == Group(rs).requirements IN
         /\ IsSequence(rows)
         /\ \A x : x \in ToSet(rows) <=> \E i \in 1..Len(rs) : RowAt(x, rs, i)
<1> DEFINE n == Len(rs)
           parts == [i \in DOMAIN rs |-> RowsOf(rs[i], i)]
           rows == FlattenSeq(parts)
<1>1. /\ n \in Nat /\ DOMAIN rs = 1..n
      /\ \A i \in 1..n : rs[i].helpers # None => IsSequence(rs[i].helpers)
  BY SequenceIs DEF RowsWell, RequirementsFormed, HelpersFormed
<1>2. Group(rs).requirements = rows
  BY DEF Group
<1> HIDE DEF n
<1>3. parts = [i \in 1..n |-> parts[i]] /\ \A i \in 1..n : parts[i] = RowsOf(rs[i], i)
  BY <1>1
<1> HIDE DEF parts
<1>4. ASSUME NEW i \in 1..n
      PROVE  IsSequence(parts[i]) /\ \A x : x \in ToSet(parts[i]) <=> RowAt(x, rs, i)
  <2> DEFINE d == DirectRow(rs[i], i)
             h == HelperPart(rs[i], i)
  <2>1. parts[i] = <<d>> \o h /\ IsSequence(h)
    BY <1>1, <1>3, PartsOfRow
  <2>2. \A x : RowAt(x, rs, i) <=> x = d \/ x \in ToSet(h)
    BY DEF RowAt
  <2> HIDE DEF d, h
  <2>3. IsSequence(<<d>>) /\ ToSet(<<d>>) = {d}
    BY ShortSequences
  <2>4. IsSequence(parts[i]) /\ ToSet(parts[i]) = {d} \cup ToSet(h)
    BY <2>1, <2>3, Appended
  <2>5. QED
    BY <2>2, <2>4
<1>5. IsSequence(rows) /\ ToSet(rows) = UNION {ToSet(parts[i]) : i \in 1..n}
  BY <1>1, <1>3, <1>4, Concatenated
<1> HIDE DEF rows
<1>6. \A x : x \in ToSet(rows) <=> \E i \in 1..n : RowAt(x, rs, i)
  BY <1>4, <1>5
<1>7. QED
  BY <1>2, <1>5, <1>6 DEF n

\* The rows for the server's own access are those that the tool's leave.
LEMMA OwnAccessAdded ==
  ASSUME NEW g, IsGroup(g), IsSequence(g.requirements)
  PROVE  LET o == WithOwnAccess(g) IN
         \E added :
            /\ IsSequence(added) /\ (\A x \in ToSet(added) : x.source = "managed")
            /\ o.requirements = g.requirements \o added
            /\ \A x : x \in ToSet(added) <=>
                 IsOwnRow(x) /\ \A y \in ToSet(g.requirements) : Identity(y) # Identity(x)
<1> DEFINE rows == g.requirements
           own == ManagedRows(EditorScope)
           kept == {k \in DOMAIN own : \A i \in DOMAIN rows : Identity(rows[i]) # Identity(own[k])}
           added == Selected(own, kept)
           o == WithOwnAccess(g)
<1>1. IsSequence(EditorScope) /\ IsSequence(own)
  BY EditorAssumption, ManagedRowsAre
<1>2. IsSequence(added) /\ ToSet(added) = {own[k] : k \in kept \cap DOMAIN own}
  BY <1>1, SelectedElements
<1>3. \A x : x \in ToSet(added) <=>
         x \in ToSet(own) /\ \A y \in ToSet(rows) : Identity(y) # Identity(x)
  <2>1. \A x : x \in {own[k] : k \in kept \cap DOMAIN own} <=>
         x \in ToSet(own) /\ \A i \in DOMAIN rows : Identity(rows[i]) # Identity(x)
    BY DEF ToSet
  <2>2. \A x : (\A i \in DOMAIN rows : Identity(rows[i]) # Identity(x))
                 <=> \A y \in ToSet(rows) : Identity(y) # Identity(x)
    BY DEF ToSet
  <2> HIDE DEF rows, own, kept, added
  <2>3. QED
    BY <1>2, <2>1, <2>2
<1>4. MergedRows(rows, own) = rows \o added
  BY DEF MergedRows
<1> HIDE DEF added
<1>5. \A x \in ToSet(added) : IsOwnRow(x) /\ x.source = "managed"
  BY <1>3, OwnRowIs DEF IsOwnRow
<1>6. CASE EditorScope = << >>
  <2>1. o = g
    BY <1>6 DEF WithOwnAccess
  <2>2. ToSet(own) = {}
    <3>1. ToSet(own) = UNION {ManagedOf(r) : r \in ToSet(EditorScope)}
      BY <1>1, ManagedRowsAre
    <3>2. ToSet(EditorScope) = {}
      BY <1>6, ShortSequences
    <3>3. QED
      BY <3>1, <3>2
  <2>3. ToSet(added) = {}
    BY <1>3, <2>2
  <2>4. IsSequence(<< >>) /\ ToSet(<< >>) = {} /\ rows \o << >> = rows
    BY ShortSequences, Chained
  <2>5. \A x : ~IsOwnRow(x)
    BY <2>2 DEF IsOwnRow
  <2>6. QED
    BY <2>1, <2>4, <2>5, Zenon
<1>7. CASE EditorScope # << >>
  <2>1. o.requirements = rows \o added
    BY <1>4, <1>7 DEF WithOwnAccess, IsGroup
  <2>2. QED
    BY <1>2, <1>3, <1>5, <2>1, Zenon DEF IsOwnRow
<1>8. QED
  BY <1>6, <1>7

\* A page's rows X, of which X0 are the tool's, and its policies W, of which Q0
\* are the tool's.
PageFacts(rs, X, X0, W, Q0) ==
  /\ \A x : x \in X0 <=> \E i \in 1..Len(rs) : RowAt(x, rs, i)
  /\ \A x : x \in X <=> x \in X0 \/ (IsOwnRow(x) /\ \A y \in X0 : Identity(y) # Identity(x))
  /\ \A x \in X0 : x.member = ResolvedMember(x.configured) /\ (IsToolRow(x) \/ IsHelperRow(x))
  /\ PoliciesMade(Q0, X0) /\ Q0 \subseteq W
  /\ EditorAudience = None => W = Q0
  /\ EditorAudience # None => PoliciesResolved(X, X0, W, Q0)

LEMMA PageIs ==
  ASSUME NEW rs, RowsWell(rs)
  PROVE  LET g == PageOf(rs) IN
         /\ PageFacts(rs, ToSet(g.requirements), ToSet(Group(rs).requirements),
                      ToSet(g.policies), ToSet(Group(rs).policies))
         /\ IsSequence(g.requirements) /\ IsSequence(g.policies)
         /\ \E added : /\ IsSequence(added) /\ \A x \in ToSet(added) : x.source = "managed"
                       /\ g.requirements = Group(rs).requirements \o added
<1> DEFINE q == Group(rs)
           o == WithOwnAccess(q)
           g == PageOf(rs)
           X == ToSet(g.requirements)
           X0 == ToSet(q.requirements)
           W == ToSet(g.policies)
           Q0 == ToSet(q.policies)
<1>1. Service # SignedIn
  BY EditorAssumption
<1>2. IsGroup(q)
  BY DEF Group, IsGroup
<1>3. IsSequence(q.requirements) /\ \A x : x \in X0 <=> \E i \in 1..Len(rs) : RowAt(x, rs, i)
  BY RowsAt
<1>4. \A x \in X0 : x.member = ResolvedMember(x.configured) /\ (IsToolRow(x) \/ IsHelperRow(x))
  BY <1>1, GroupRows
<1>5. \A x \in X0 : x.source = "helper" /\ x.policies # None => IsSequence(x.policies)
  <2> HIDE DEF X0
  <2>1. QED
    BY <1>4 DEF IsToolRow, IsHelperRow
<1>6. IsSequence(q.policies) /\ PoliciesMade(Q0, X0)
  BY <1>3, <1>5, SavedPolicies
<1> HIDE DEF q
<1>7. PICK added : /\ IsSequence(added) /\ (\A x \in ToSet(added) : x.source = "managed")
                   /\ o.requirements = q.requirements \o added
                   /\ \A x : x \in ToSet(added) <=>
                        IsOwnRow(x) /\ \A y \in X0 : Identity(y) # Identity(x)
  BY <1>2, <1>3, OwnAccessAdded
<1>8. IsGroup(o) /\ IsSequence(o.requirements) /\ o.policies = q.policies
  BY <1>2, <1>3, OwnAccessRows
<1>9. ToSet(o.requirements) = X0 \cup ToSet(added)
  BY <1>3, <1>7, Appended
<1>10. g = WithExpectedPolicies(o, EditorAudience)
  BY DEF PageOf, q
<1> HIDE DEF o, g
<1>11. g.requirements = o.requirements /\ Q0 \subseteq W /\ IsSequence(g.policies)
       /\ (EditorAudience = None => W = Q0)
       /\ (EditorAudience # None => PoliciesResolved(X, X0, W, Q0))
  <2>1. CASE EditorAudience = None
    <3>1. g = o
      BY <1>10, <2>1 DEF WithExpectedPolicies
    <3>2. QED
      BY <1>6, <1>8, <2>1, <3>1
  <2>2. CASE EditorAudience # None
    <3>1. g.requirements = o.requirements /\ PoliciesResolved(X, X0, W, Q0)
      BY <1>2, <1>3, <1>6, <1>10, <2>2, GroupResolved DEF o
    <3>2. IsSequence(g.policies)
      BY <1>6, <1>8, <1>10, WithExpected
    <3>3. Q0 \subseteq W
      BY <3>1 DEF PoliciesResolved
    <3>4. QED
      BY <2>2, <3>1, <3>2, <3>3
  <2>3. QED
    BY <2>1, <2>2
<1>12. \A x : x \in X <=> x \in X0 \/ (IsOwnRow(x) /\ \A y \in X0 : Identity(y) # Identity(x))
  BY <1>7, <1>9, <1>11
<1>13. PageFacts(rs, X, X0, W, Q0)
  <2> HIDE DEF X, X0, W, Q0
  <2>1. QED
    BY <1>3, <1>4, <1>6, <1>11, <1>12 DEF PageFacts
<1>14. QED
  BY <1>7, <1>8, <1>11, <1>13 DEF X, X0, W, Q0, g, q

-----------------------------------------------------------------------------
(* The draft of a page                                                      *)

DialogRowOf(q, i, known) ==
  DraftRow(q.member, q.role, q.helpers # None \/ q.include = FALSE,
           [k \in DOMAIN HelperPart(q, i) |-> DialogHelper(HelperPart(q, i)[k], known)])

LEMMA DirectFields ==
  ASSUME NEW q, NEW i
  PROVE  LET d == DirectRow(q, i) IN
         /\ d.configured = q.member /\ d.role = q.role /\ d.index = i /\ d.source = "tool"
         /\ d.include = q.include /\ d.customized = (q.helpers # None)
BY DEF DirectRow, Row

\* The draft has a row for each requirement, in their order.
LEMMA DialogRowsOf ==
  ASSUME NEW rs, RowsWell(rs)
  PROVE  LET g == PageOf(rs) IN
         DialogRows(g) = [i \in 1..Len(rs) |-> DialogRowOf(rs[i], i, g.policies)]
<1> DEFINE g == PageOf(rs)
           n == Len(rs)
           rows == RowsFrom(g, "tool")
           helpers == RowsFrom(g, "helper")
           hs(i) == Selected(helpers, {k \in DOMAIN helpers : helpers[k].index = rows[i].index})
           row(i) == DraftRow(rows[i].configured, rows[i].role,
                              rows[i].customized \/ rows[i].include = FALSE,
                              [k \in DOMAIN hs(i) |-> DialogHelper(hs(i)[k], g.policies)])
<1>1. IsSequence(rs) /\ \A q \in ToSet(rs) : q.helpers # None => IsSequence(q.helpers)
  BY DEF RowsWell, RequirementsFormed, HelpersFormed
<1>2. PICK added : /\ IsSequence(added) /\ (\A x \in ToSet(added) : x.source = "managed")
                   /\ g.requirements = Group(rs).requirements \o added
  BY PageIs
<1>3. DialogRows(g) = [i \in DOMAIN rows |-> row(i)]
  BY DEF DialogRows
<1>4. /\ rows = [i \in 1..n |-> DirectRow(rs[i], i)]
      /\ \A i \in 1..n : Selected(helpers, {k \in DOMAIN helpers : helpers[k].index = i})
                           = HelperPart(rs[i], i)
  <2> HIDE DEF g
  <2>1. QED
    BY <1>1, <1>2, RowsInOrder, Zenon
<1> HIDE DEF g, helpers
<1>5. DOMAIN rows = 1..n /\ \A i \in 1..n : rows[i] = DirectRow(rs[i], i)
  BY <1>4
<1> HIDE DEF rows, n
<1>6. ASSUME NEW i \in 1..n PROVE row(i) = DialogRowOf(rs[i], i, g.policies)
  <2>1. /\ rows[i].configured = rs[i].member /\ rows[i].role = rs[i].role /\ rows[i].index = i
        /\ rows[i].include = rs[i].include /\ rows[i].customized = (rs[i].helpers # None)
    BY <1>5, DirectFields
  <2>2. hs(i) = HelperPart(rs[i], i)
    BY <1>4, <2>1, Zenon
  <2> HIDE DEF hs
  <2>3. QED
    BY <2>1, <2>2, Zenon DEF DialogRowOf
<1> HIDE DEF row
<1>7. QED
  BY <1>3, <1>5, <1>6 DEF g, n

\* What the draft shows of a helper's policies: those that the page has of it,
\* or else its own.
AsPolicy(p) == Policy(p.effect, p.action, p.resource)
IsOf(p, h, i) == p.source = "helper" /\ p.index = i /\ p.role = h.role
ShownFor(h, i, known) == DialogHelper(HelperRow(h, i), known).policies
OfHelper(h, i, known) == {p \in ToSet(known) : IsOf(p, h, i)}
\* Policies of a helper that differ in nothing are one.
ToldApart(h, i, known) ==
  \A k, l \in DOMAIN known :
     IsOf(known[k], h, i) /\ IsOf(known[l], h, i)
       /\ PolicyIdentity(known[k]) = PolicyIdentity(known[l]) => k = l

LEMMA AsPolicyIs ==
  ASSUME NEW p
  PROVE  /\ PolicyIdentity(AsPolicy(p)) = PolicyIdentity(p)
         /\ AsPolicy(p).effect = p.effect /\ AsPolicy(p).action = p.action
         /\ AsPolicy(p).resource = p.resource
         /\ PolicyValid(AsPolicy(p)) <=> PolicyValid(p)
         /\ \A r, i : PolicyRow(AsPolicy(p), r, "helper", i) = PolicyRow(p, r, "helper", i)
         /\ AsPolicy(AsPolicy(p)) = AsPolicy(p)
BY DEF AsPolicy, Policy, PolicyIdentity, PolicyValid, PolicyRow

LEMMA ShownPolicies ==
  ASSUME NEW h, h.member # SignedIn, h.policies # None => IsSequence(h.policies), NEW i,
         NEW known, IsSequence(known)
  PROVE  LET ps == ShownFor(h, i, known) IN
         /\ IsSequence(ps)
         /\ \A s \in ToSet(ps) :
              \/ \E q \in OfHelper(h, i, known) : s = AsPolicy(q)
              \/ h.policies # None /\ \E p \in ToSet(h.policies) : s = AsPolicy(p)
         /\ \A q \in OfHelper(h, i, known) : AsPolicy(q) \in ToSet(ps)
         /\ ToldApart(h, i, known) /\ (h.policies # None => Distinct(h.policies, PolicyIdentity))
              => Distinct(ps, PolicyIdentity)
<1> DEFINE row == HelperRow(h, i)
           J == {k \in DOMAIN known : /\ known[k].source = "helper"
                                      /\ known[k].index = row.index
                                      /\ known[k].role = row.role}
           checked == Selected(known, J)
           shown == IF checked # << >> THEN checked
                    ELSE IF row.policies = None THEN << >> ELSE row.policies
           ps == [k \in DOMAIN shown |->
                    Policy(shown[k].effect, shown[k].action, shown[k].resource)]
           n == Len(shown)
<1>1. row.index = i /\ row.role = h.role /\ row.policies = h.policies
  BY HelperRowIs
<1>2. DialogHelper(row, known) = DraftHelper(row.member, row.role, ps)
  BY DEF DialogHelper
<1>3. IsSequence(checked) /\ ToSet(checked) = {known[k] : k \in J \cap DOMAIN known}
  BY SelectedElements
<1>4. PICK at : /\ \A k \in DOMAIN checked : at[k] \in J \cap DOMAIN known /\ checked[k] = known[at[k]]
                /\ \A k, l \in DOMAIN checked : at[k] = at[l] => k = l
  <2> HIDE DEF J
  <2>1. QED
    BY SelectedPositions
<1>5. J = {k \in DOMAIN known : IsOf(known[k], h, i)}
  BY <1>1 DEF IsOf
<1> HIDE DEF J, checked, row
<1>6. IsSequence(shown)
  BY <1>1, <1>3, ShortSequences
<1>7. \/ shown = checked
      \/ checked = << >> /\ h.policies # None /\ shown = h.policies
      \/ checked = << >> /\ shown = << >>
  <2>1. CASE checked # << >>
    BY <2>1
  <2>2. CASE checked = << >> /\ row.policies = None
    BY <2>2
  <2>3. CASE checked = << >> /\ row.policies # None
    BY <1>1, <2>3
  <2>4. QED
    BY <2>1, <2>2, <2>3
<1> HIDE DEF shown
<1>8. n \in Nat /\ DOMAIN shown = 1..n /\ ToSet(shown) = {shown[k] : k \in 1..n}
  BY <1>6, SequenceIs
<1>9. ps = [k \in 1..n |-> ps[k]] /\ \A k \in 1..n : ps[k] = AsPolicy(shown[k])
  BY <1>8 DEF AsPolicy
<1> HIDE DEF n, ps
<1>10. IsSequence(ps) /\ ToSet(ps) = {ps[k] : k \in 1..n} /\ DOMAIN ps = 1..n
  BY <1>8, <1>9, Listed1
<1>11. ps = ShownFor(h, i, known)
  BY <1>2, <1>10, DraftHelperIs DEF ShownFor, row
<1>12. ToSet(checked) = OfHelper(h, i, known)
  BY <1>3, <1>5 DEF OfHelper, ToSet
<1>13. ToSet(ps) = {AsPolicy(x) : x \in ToSet(shown)}
  BY <1>8, <1>9, <1>10
<1>14. ASSUME NEW s \in ToSet(ps)
       PROVE  \/ \E q \in OfHelper(h, i, known) : s = AsPolicy(q)
              \/ h.policies # None /\ \E p \in ToSet(h.policies) : s = AsPolicy(p)
  <2>1. ToSet(<< >>) = {}
    BY ShortSequences
  <2>2. QED
    BY <1>7, <1>12, <1>13, <2>1
<1>15. ASSUME NEW q \in OfHelper(h, i, known)
       PROVE  AsPolicy(q) \in ToSet(ps)
  <2>1. ToSet(<< >>) = {}
    BY ShortSequences
  <2>2. checked # << >>
    BY <1>12, <2>1
  <2>3. QED
    BY <1>7, <1>12, <1>13, <2>2
<1>16. ASSUME ToldApart(h, i, known), h.policies # None => Distinct(h.policies, PolicyIdentity)
       PROVE  Distinct(ps, PolicyIdentity)
  <2>1. Distinct(shown, PolicyIdentity)
    <3>1. CASE shown = checked
      <4>1. ASSUME NEW k \in DOMAIN checked, NEW l \in DOMAIN checked,
                   PolicyIdentity(checked[k]) = PolicyIdentity(checked[l])
            PROVE  k = l
        <5>1. /\ at[k] \in J /\ at[k] \in DOMAIN known /\ checked[k] = known[at[k]]
              /\ at[l] \in J /\ at[l] \in DOMAIN known /\ checked[l] = known[at[l]]
          BY <1>4
        <5>2. at[k] = at[l]
          BY <1>5, <1>16, <4>1, <5>1 DEF ToldApart
        <5>3. QED
          BY <1>4, <5>2
      <4>2. QED
        BY <3>1, <4>1 DEF Distinct
    <3>2. CASE h.policies # None /\ shown = h.policies
      BY <1>16, <3>2
    <3>3. CASE shown = << >>
      <4>1. DOMAIN << >> = {}
        BY Nowhere, ShortSequences
      <4>2. QED
        BY <3>3, <4>1 DEF Distinct
    <3>4. QED
      BY <1>7, <3>1, <3>2, <3>3
  <2>2. \A k \in 1..n : PolicyIdentity(ps[k]) = PolicyIdentity(shown[k])
    BY <1>9, AsPolicyIs
  <2>3. QED
    BY <1>8, <1>10, <2>1, <2>2 DEF Distinct
<1>17. QED
  BY <1>10, <1>11, <1>14, <1>15, <1>16

-----------------------------------------------------------------------------
(* The requirement that is made of a row that nobody has edited             *)

LEMMA DraftHelperParts ==
  ASSUME NEW m, NEW r, NEW ps
  PROVE  LET h == DraftHelper(m, r, ps) IN
         h.member = m /\ h.role = r /\ h.policies = ps /\ h.type = HelperMemberType(m)
BY DEF DraftHelper

\* A helper is sent as it is, with the policies that are shown of it.
LEMMA HelperSaved ==
  ASSUME NEW h, h.member # SignedIn, h.member # TemplateMember, NEW i, NEW known
  PROVE  ConfiguredHelper(DialogHelper(HelperRow(h, i), known))
           = Helper(h.member, h.role, ShownFor(h, i, known))
<1> DEFINE row == HelperRow(h, i)
           d == DialogHelper(row, known)
<1>1. row.member = h.member /\ row.role = h.role
  BY DEF HelperRow, Row, ResolvedMember
<1> HIDE DEF row
<1>2. \E ps : d = DraftHelper(row.member, row.role, ps)
  BY Zenon DEF DialogHelper
<1>3. PICK ps : d = DraftHelper(row.member, row.role, ps)
  BY <1>2
<1>4. /\ d.member = h.member /\ d.role = h.role
      /\ d.type = HelperMemberType(h.member)
  BY <1>1, <1>3, DraftHelperParts
<1>5. d.policies = ShownFor(h, i, known)
  BY DEF ShownFor, row
<1> HIDE DEF d
<1>6. d.type = "mcp-service" => h.member = Service
  BY <1>4 DEF HelperMemberType
<1>7. QED
  BY <1>4, <1>5, <1>6 DEF ConfiguredHelper, d, row

\* What validation asks of one requirement.
RequirementValid(r) ==
  /\ MemberValid(r.member) /\ RoleValid(r.role)
  /\ r.include \in {None} \cup BOOLEAN
  /\ (r.include # None \/ r.helpers # None) => r.member = SignedIn
  /\ r.helpers # None => r.include = TRUE /\ HelpersValid(r.helpers)
RequirementForm(q) ==
  /\ q = Requirement(q.member, q.role, q.include, q.helpers) /\ IsDirectRole(q.role)
  /\ q.helpers # None => HelpersWell(q.helpers)
\* A signed-in user's requirement that says something of helpers, none of them
\* the template's account.
Plain(q) ==
  /\ q.member = SignedIn => q.include # None
  /\ q.helpers # None => \A h \in ToSet(q.helpers) : h.member # TemplateMember
Stored(q, i, known) == RequirementFor(DialogRowOf(q, i, known))
ShownHelper(h, i, known) == Helper(h.member, h.role, ShownFor(h, i, known))
StoredAs(w, q, i, known) ==
  \/ w = q /\ q.helpers = None
  \/ /\ Includes(q) /\ q.helpers # None /\ Includes(w)
     /\ w.helpers = [k \in DOMAIN q.helpers |-> ShownHelper(q.helpers[k], i, known)]
  \/ ~Includes(q) /\ q.helpers = None /\ Includes(w) /\ w.helpers = << >>

LEMMA DraftRowParts ==
  ASSUME NEW m, NEW r, NEW customized, NEW hs
  PROVE  LET row == DraftRow(m, r, customized, hs) IN
         /\ row.audience = r.domain /\ row.name = r.name /\ row.member = m
         /\ row.customized = customized /\ row.helpers = hs
         /\ row.type = IF m = SignedIn THEN "signed-in-user" ELSE "service"
BY DEF DraftRow, EditableRole

LEMMA RowOfRequirement ==
  ASSUME NEW q, IsDirectRole(q.role), NEW i, NEW known
  PROVE  LET row == DialogRowOf(q, i, known) IN
         /\ row.audience = q.role.domain /\ row.name = q.role.name /\ row.member = q.member
         /\ RoleOf(row) = q.role /\ MemberBy(row) = q.member
         /\ IsSigned(row) <=> q.member = SignedIn
<1> DEFINE row == DialogRowOf(q, i, known)
<1>1. PICK c, hs : row = DraftRow(q.member, q.role, c, hs)
  BY DEF DialogRowOf
<1> HIDE DEF row
<1>2. /\ row.audience = q.role.domain /\ row.name = q.role.name /\ row.member = q.member
      /\ row.type = IF q.member = SignedIn THEN "signed-in-user" ELSE "service"
  BY <1>1, DraftRowParts
<1>3. IsSigned(row) <=> q.member = SignedIn
  BY <1>2 DEF IsSigned
<1>4. RoleOf(row) = q.role
  BY <1>2 DEF RoleOf, ConfiguredRole, IsDirectRole
<1>5. MemberBy(row) = q.member
  BY <1>2, <1>3 DEF MemberBy
<1>6. QED
  BY <1>2, <1>3, <1>4, <1>5 DEF row

SaysOf(q) == q.helpers # None \/ q.include = FALSE
PartDrafted(q, i, known) ==
  [k \in DOMAIN HelperPart(q, i) |-> DialogHelper(HelperPart(q, i)[k], known)]
LEMMA HelpersOfRow ==
  ASSUME NEW q, NEW i, NEW known
  PROVE  LET row == DialogRowOf(q, i, known) IN
         (SaysOf(q) <=> row.customized) /\ row.helpers = PartDrafted(q, i, known)
BY Zenon DEF DialogRowOf, DraftRow, SaysOf, PartDrafted

LEMMA StoredRequirement ==
  ASSUME NothingAbsent, NEW q, RequirementForm(q), RequirementValid(q), Plain(q), NEW i, NEW known
  PROVE  LET w == Stored(q, i, known) IN
         /\ w = Requirement(w.member, w.role, w.include, w.helpers)
         /\ w.member = q.member /\ w.role = q.role /\ StoredAs(w, q, i, known)
<1> DEFINE w == Stored(q, i, known)
           row == DialogRowOf(q, i, known)
           part == HelperPart(q, i)
<1>1. /\ RoleOf(row) = q.role /\ MemberBy(row) = q.member
      /\ IsSigned(row) <=> q.member = SignedIn
      /\ SaysOf(q) <=> row.customized
      /\ row.helpers = [k \in DOMAIN part |-> DialogHelper(part[k], known)]
  <2>1. IsDirectRole(q.role)
    BY DEF RequirementForm
  <2>2. RoleOf(row) = q.role /\ MemberBy(row) = q.member
    BY <2>1, RowOfRequirement
  <2>3. IsSigned(row) <=> q.member = SignedIn
    BY <2>1, RowOfRequirement
  <2>4. (SaysOf(q) <=> row.customized) /\ row.helpers = PartDrafted(q, i, known)
    BY HelpersOfRow
  <2>5. row.helpers = [k \in DOMAIN part |-> DialogHelper(part[k], known)]
    BY <2>4 DEF PartDrafted
  <2>6. QED
    BY <2>2, <2>3, <2>4, <2>5
<1>2. w = Requirement(q.member, q.role, IncludedBy(row), HelpersBy(row))
  BY <1>1 DEF Stored, RequirementFor
<1> HIDE DEF w, row
<1>3. /\ w.member = q.member /\ w.role = q.role /\ w.include = IncludedBy(row)
      /\ w.helpers = HelpersBy(row) /\ w = Requirement(w.member, w.role, w.include, w.helpers)
  BY <1>2 DEF Requirement
<1>4. q = Requirement(q.member, q.role, q.include, q.helpers)
  BY DEF RequirementForm
<1>5. CASE q.member # SignedIn
  <2>1. q.include = None /\ q.helpers = None
    BY <1>5 DEF RequirementValid
  <2>2. IncludedBy(row) = None /\ HelpersBy(row) = None
    BY <1>1, <1>5, Zenon DEF IncludedBy, HelpersBy
  <2>3. w = q
    BY <1>2, <1>4, <2>1, <2>2
  <2>4. QED
    BY <1>3, <2>1, <2>3 DEF StoredAs, w
<1>6. CASE q.member = SignedIn /\ q.helpers = None /\ Includes(q)
  <2>1. ~row.customized
    BY <1>1, <1>6 DEF Includes, SaysOf
  <2>2. IncludedBy(row) = q.include
    BY <1>1, <1>6, Zenon DEF IncludedBy, Includes
  <2>3. HelpersBy(row) = q.helpers
    BY <1>6, <2>1 DEF HelpersBy
  <2>4. w = q
    BY <1>2, <1>4, <2>2, <2>3
  <2>5. QED
    BY <1>3, <1>6, <2>4 DEF StoredAs, w
<1>7. CASE q.member = SignedIn /\ q.helpers # None
  <2> DEFINE hs == q.helpers
  <2>1. Includes(q) /\ row.customized
    BY <1>1, <1>7 DEF RequirementValid, Includes, SaysOf
  <2>2. IncludedBy(row) = TRUE
    BY <1>1, <1>7, Zenon DEF IncludedBy
  <2>3. Includes(w)
    BY <1>3, <2>2 DEF Includes
  <2>4. HelpersBy(row) = [k \in DOMAIN row.helpers |-> ConfiguredHelper(row.helpers[k])]
    BY <1>1, <1>7, <2>1 DEF HelpersBy, OwnHelpers
  <2>5. part = [k \in DOMAIN hs |-> HelperRow(hs[k], i)]
    BY <1>7, <2>1 DEF HelperPart, HelpersFor
  <2>6. \A k \in DOMAIN hs : hs[k].member # SignedIn /\ hs[k].member # TemplateMember
    <3>1. \A k \in DOMAIN hs : hs[k] \in ToSet(hs)
      BY DEF ToSet
    <3>2. QED
      BY <1>7, <3>1 DEF RequirementForm, HelpersWell, Plain
  <2> HIDE DEF hs
  <2>7. DOMAIN row.helpers = DOMAIN hs
        /\ \A k \in DOMAIN hs : row.helpers[k] = DialogHelper(HelperRow(hs[k], i), known)
    BY <1>1, <2>5
  <2>8. \A k \in DOMAIN hs : ConfiguredHelper(row.helpers[k]) = ShownHelper(hs[k], i, known)
    BY <2>6, <2>7, HelperSaved DEF ShownHelper
  <2>9. w.helpers = [k \in DOMAIN hs |-> ShownHelper(hs[k], i, known)]
    BY <1>3, <2>4, <2>7, <2>8
  <2>10. StoredAs(w, q, i, known)
    BY <1>7, <2>1, <2>3, <2>9 DEF StoredAs, hs
  <2>11. QED
    BY <1>3, <2>10 DEF w
<1>8. CASE q.member = SignedIn /\ q.helpers = None /\ ~Includes(q)
  <2>1. q.include = FALSE
    BY <1>8 DEF RequirementValid, Plain, Includes
  <2>2. row.customized
    BY <1>1, <2>1 DEF SaysOf
  <2>3. IncludedBy(row) = TRUE
    BY <1>1, <1>8, Zenon DEF IncludedBy
  <2>4. Includes(w)
    BY <1>3, <2>3 DEF Includes
  <2>5. HelpersBy(row) = [k \in DOMAIN row.helpers |-> ConfiguredHelper(row.helpers[k])]
    BY <1>1, <1>8, <2>2 DEF HelpersBy, OwnHelpers
  <2>6. DOMAIN row.helpers = {}
    <3>1. part = << >>
      BY <1>8 DEF HelperPart
    <3>2. DOMAIN part = {}
      BY <3>1, Nowhere
    <3>3. QED
      BY <1>1, <3>2
  <2>7. w.helpers = << >>
    <3>1. \A f : f = [k \in {} |-> f[k]] => f = << >>
      <4>1. 1..0 = {}
        OBVIOUS
      <4>2. QED
        BY <4>1
    <3>2. w.helpers = [k \in {} |-> w.helpers[k]]
      BY <1>3, <2>5, <2>6
    <3>3. QED
      BY <3>1, <3>2
  <2>8. StoredAs(w, q, i, known)
    BY <1>8, <2>4, <2>7 DEF StoredAs
  <2>9. QED
    BY <1>3, <2>8 DEF w
<1>9. QED
  BY <1>5, <1>6, <1>7, <1>8

-----------------------------------------------------------------------------
(* The rows of the page before and after the draft is saved                 *)

LEMMA PartElements ==
  ASSUME NEW q, q.helpers # None => IsSequence(q.helpers), NEW i
  PROVE  /\ Includes(q) => ToSet(HelperPart(q, i)) = {HelperRow(h, i) : h \in ToSet(HelpersFor(q))}
         /\ ~Includes(q) => ToSet(HelperPart(q, i)) = {}
<1> DEFINE hs == HelpersFor(q)
           n == Len(hs)
           t == HelperPart(q, i)
<1>1. IsSequence(hs)
  BY HelpersForAre
<1> HIDE DEF hs
<1>2. n \in Nat /\ DOMAIN hs = 1..n /\ ToSet(hs) = {hs[k] : k \in 1..n}
  BY <1>1, SequenceIs
<1> HIDE DEF n
<1>3. CASE Includes(q)
  <2>1. t = [k \in DOMAIN hs |-> HelperRow(hs[k], i)]
    BY <1>3 DEF HelperPart, hs
  <2>2. t = [k \in 1..n |-> t[k]] /\ \A k \in 1..n : t[k] = HelperRow(hs[k], i)
    BY <1>2, <2>1
  <2> HIDE DEF t
  <2>3. ToSet(t) = {t[k] : k \in 1..n}
    BY <1>2, <2>2, Listed1
  <2>4. ToSet(t) = {HelperRow(h, i) : h \in ToSet(hs)}
    BY <1>2, <2>2, <2>3
  <2>5. QED
    BY <1>3, <2>4 DEF t, hs
<1>4. CASE ~Includes(q)
  <2>1. t = << >>
    BY <1>4 DEF HelperPart
  <2>2. QED
    BY <1>4, <2>1, ShortSequences
<1>5. QED
  BY <1>3, <1>4

\* The rows of a page that differ in their policies only.
SameCore(x, y) ==
  /\ x.configured = y.configured /\ x.member = y.member /\ x.role = y.role
  /\ x.source = y.source /\ x.index = y.index

LEMMA HelperCore ==
  ASSUME NEW h, NEW i, NEW known
  PROVE  LET x == HelperRow(h, i)
             y == HelperRow(ShownHelper(h, i, known), i) IN
         /\ SameCore(x, y) /\ SameCore(y, x)
         /\ x.policies = h.policies /\ y.policies = ShownFor(h, i, known)
         /\ x.role = h.role /\ y.role = h.role /\ x.index = i /\ y.index = i
         /\ x.source = "helper" /\ y.source = "helper"
BY DEF HelperRow, Row, SameCore, ShownHelper, Helper

LEMMA GeneratedAreBare ==
  ASSUME NEW q, q.helpers = None, NEW i, NEW x \in ToSet(HelperPart(q, i))
  PROVE  x.policies = None
<1> DEFINE a == Helper(Gateway, HelperRole(q.role, "jag"), None)
           b == Helper(Service, HelperRole(q.role, "target"), None)
<1>1. Includes(q) /\ ToSet(HelperPart(q, i)) = {HelperRow(h, i) : h \in ToSet(HelpersFor(q))}
  BY PartElements
<1>2. HelpersFor(q) = <<a, b>>
  BY DEF HelpersFor, GeneratedHelperRows
<1>3. a.policies = None /\ b.policies = None
  BY HelperIs
<1> HIDE DEF a, b
<1>4. ToSet(<<a, b>>) = {a, b}
  BY ShortSequences
<1>5. PICK h \in {a, b} : x = HelperRow(h, i)
  BY <1>1, <1>2, <1>4
<1>6. QED
  BY <1>3, <1>5, HelperRowIs

\* What becomes of a requirement's rows: those of its helpers get the policies
\* that were shown, and all else that a row is for stays.
OwnPair(x, y, q, w, i, known) ==
  \E h \in ToSet(q.helpers) :
     /\ q.helpers # None /\ Includes(q)
     /\ x = HelperRow(h, i) /\ y = HelperRow(ShownHelper(h, i, known), i)
     /\ x \in ToSet(HelperPart(q, i)) /\ y \in ToSet(HelperPart(w, i))

LEMMA OwnPairs ==
  ASSUME NothingAbsent, NEW q, NEW w, q.helpers # None, IsSequence(q.helpers), NEW i, NEW known,
         Includes(q), Includes(w),
         w.helpers = [k \in DOMAIN q.helpers |-> ShownHelper(q.helpers[k], i, known)]
  PROVE  /\ IsSequence(w.helpers)
         /\ \A x \in ToSet(HelperPart(q, i)) :
              \E y \in ToSet(HelperPart(w, i)) : OwnPair(x, y, q, w, i, known)
         /\ \A y \in ToSet(HelperPart(w, i)) :
              \E x \in ToSet(HelperPart(q, i)) : OwnPair(x, y, q, w, i, known)
<1> DEFINE hs == q.helpers
           ws == w.helpers
           n == Len(hs)
           shown(h) == ShownHelper(h, i, known)
<1>1. n \in Nat /\ DOMAIN hs = 1..n /\ ToSet(hs) = {hs[k] : k \in 1..n}
  BY SequenceIs
<1> HIDE DEF n, shown
<1>2. ws = [k \in 1..n |-> ws[k]] /\ \A k \in 1..n : ws[k] = shown(hs[k])
  BY <1>1 DEF shown
<1>3. IsSequence(ws) /\ ToSet(ws) = {ws[k] : k \in 1..n}
  BY <1>1, <1>2, Listed1
<1>4. ToSet(ws) = {shown(h) : h \in ToSet(hs)}
  BY <1>1, <1>2, <1>3
<1>5. ws # None
  BY <1>3 DEF NothingAbsent
<1>6. HelpersFor(q) = hs /\ HelpersFor(w) = ws
  BY <1>5 DEF HelpersFor
<1>7. ToSet(HelperPart(q, i)) = {HelperRow(h, i) : h \in ToSet(hs)}
  BY <1>6, PartElements
<1>8. ToSet(HelperPart(w, i)) = {HelperRow(h, i) : h \in ToSet(ws)}
  BY <1>3, <1>6, PartElements
<1>9. ToSet(HelperPart(w, i)) = {HelperRow(shown(h), i) : h \in ToSet(hs)}
  BY <1>4, <1>8
<1>10. ASSUME NEW h \in ToSet(hs)
       PROVE  OwnPair(HelperRow(h, i), HelperRow(shown(h), i), q, w, i, known)
  <2>1. HelperRow(h, i) \in ToSet(HelperPart(q, i)) /\ HelperRow(shown(h), i) \in ToSet(HelperPart(w, i))
    BY <1>7, <1>9
  <2>2. QED
    BY <2>1 DEF OwnPair, shown
<1>11. QED
  BY <1>3, <1>7, <1>9, <1>10

LEMMA RowsCorrespond ==
  ASSUME NothingAbsent, NEW q, NEW w, IsDirectRole(q.role), q.helpers # None => IsSequence(q.helpers),
         w.member = q.member, w.role = q.role, NEW i, NEW known, StoredAs(w, q, i, known)
  PROVE  /\ w.helpers # None => IsSequence(w.helpers)
         /\ SameCore(DirectRow(q, i), DirectRow(w, i)) /\ SameCore(DirectRow(w, i), DirectRow(q, i))
         /\ \A x \in ToSet(HelperPart(q, i)) : \E y \in ToSet(HelperPart(w, i)) :
              SameCore(x, y) /\ (x.policies # None => OwnPair(x, y, q, w, i, known))
         /\ \A y \in ToSet(HelperPart(w, i)) : \E x \in ToSet(HelperPart(q, i)) :
              SameCore(y, x) /\ (y.policies # None => OwnPair(x, y, q, w, i, known))
<1>1. SameCore(DirectRow(q, i), DirectRow(w, i)) /\ SameCore(DirectRow(w, i), DirectRow(q, i))
  <2>1. /\ DirectRow(q, i).member = ResolvedMember(q.member)
        /\ DirectRow(w, i).member = ResolvedMember(w.member)
    BY DirectRowIs
  <2>2. QED
    BY <2>1, DirectFields DEF SameCore
<1>2. CASE w = q /\ q.helpers = None
  <2>1. \A x \in ToSet(HelperPart(q, i)) : x.policies = None
    BY <1>2, GeneratedAreBare
  <2>2. \A x : SameCore(x, x)
    BY DEF SameCore
  <2>3. QED
    BY <1>1, <1>2, <2>1, <2>2
<1>3. CASE /\ Includes(q) /\ q.helpers # None /\ Includes(w)
           /\ w.helpers = [k \in DOMAIN q.helpers |-> ShownHelper(q.helpers[k], i, known)]
  <2>1. \A x, y : OwnPair(x, y, q, w, i, known) => SameCore(x, y) /\ SameCore(y, x)
    BY HelperCore DEF OwnPair
  <2>2. /\ IsSequence(w.helpers)
        /\ \A x \in ToSet(HelperPart(q, i)) :
             \E y \in ToSet(HelperPart(w, i)) : OwnPair(x, y, q, w, i, known)
        /\ \A y \in ToSet(HelperPart(w, i)) :
             \E x \in ToSet(HelperPart(q, i)) : OwnPair(x, y, q, w, i, known)
    BY <1>3, OwnPairs
  <2>3. QED
    BY <1>1, <2>1, <2>2
<1>4. CASE ~Includes(q) /\ q.helpers = None /\ Includes(w) /\ w.helpers = << >>
  <2>1. IsSequence(<< >>) /\ ToSet(<< >>) = {} /\ << >> # None
    BY ShortSequences DEF NothingAbsent
  <2>2. HelpersFor(w) = << >>
    BY <1>4, <2>1 DEF HelpersFor
  <2>3. ToSet(HelperPart(w, i)) = {HelperRow(h, i) : h \in ToSet(HelpersFor(w))}
    BY <1>4, <2>1, PartElements
  <2>4. ToSet(HelperPart(w, i)) = {}
    BY <2>1, <2>2, <2>3
  <2>5. ToSet(HelperPart(q, i)) = {}
    BY <1>4, PartElements
  <2>6. QED
    BY <1>1, <1>4, <2>1, <2>4, <2>5
<1>5. QED
  BY <1>2, <1>3, <1>4 DEF StoredAs

-----------------------------------------------------------------------------
(* What a tool needs before and after                                       *)

\* Requirements sv that were made of the draft of rs, when the page had known.
SavedFrom(rs, sv, known) ==
  /\ RowsWell(rs) /\ RowsWell(sv) /\ Len(sv) = Len(rs) /\ IsSequence(known)
  /\ \A i \in 1..Len(rs) : /\ sv[i].member = rs[i].member /\ sv[i].role = rs[i].role
                           /\ StoredAs(sv[i], rs[i], i, known)
\* A helper's row, and the one of the same helper when the draft is saved.
PairOf(x, y, known) ==
  \E h, i : /\ h.member # SignedIn /\ (h.policies # None => IsSequence(h.policies))
            /\ x = HelperRow(h, i) /\ y = HelperRow(ShownHelper(h, i, known), i)
Matched(X0, Y0, known) ==
  /\ \A x \in X0 : \E y \in Y0 : SameCore(x, y) /\ (OwnPolicies(x) => PairOf(x, y, known))
  /\ \A y \in Y0 : \E x \in X0 : SameCore(y, x) /\ (OwnPolicies(y) => PairOf(x, y, known))
Covers(X, Y) == \A x \in X : \E y \in Y : SameCore(x, y)

LEMMA RowsMatched ==
  ASSUME NothingAbsent, NEW rs, NEW sv, NEW known, SavedFrom(rs, sv, known),
         NEW X, NEW X0, NEW W, NEW Q0, PageFacts(rs, X, X0, W, Q0),
         NEW Y, NEW Y0, NEW V, NEW P0, PageFacts(sv, Y, Y0, V, P0)
  PROVE  Matched(X0, Y0, known)
<1> DEFINE n == Len(rs)
<1>1. ASSUME NEW i \in 1..n
      PROVE  /\ \A x \in ToSet(HelperPart(rs[i], i)) : \E y \in ToSet(HelperPart(sv[i], i)) :
                  SameCore(x, y) /\ (x.policies # None => PairOf(x, y, known))
             /\ \A y \in ToSet(HelperPart(sv[i], i)) : \E x \in ToSet(HelperPart(rs[i], i)) :
                  SameCore(y, x) /\ (y.policies # None => PairOf(x, y, known))
             /\ SameCore(DirectRow(rs[i], i), DirectRow(sv[i], i))
             /\ SameCore(DirectRow(sv[i], i), DirectRow(rs[i], i))
  <2> DEFINE q == rs[i]
             w == sv[i]
  <2>1. IsDirectRole(q.role) /\ (q.helpers # None => HelpersWell(q.helpers))
    <3>1. rs[i] \in ToSet(rs)
      BY SequenceIs DEF SavedFrom, RowsWell, RequirementsFormed
    <3>2. QED
      BY <3>1 DEF SavedFrom, RowsWell, RequirementsFormed
  <2>2. w.member = q.member /\ w.role = q.role /\ StoredAs(w, q, i, known)
    BY DEF SavedFrom
  <2>3. q.helpers # None => IsSequence(q.helpers)
    BY <2>1 DEF HelpersWell, HelpersFormed
  <2> HIDE DEF q, w
  <2>4. \A x, y : OwnPair(x, y, q, w, i, known) => PairOf(x, y, known)
    <3>1. ASSUME NEW x, NEW y, OwnPair(x, y, q, w, i, known) PROVE PairOf(x, y, known)
      <4>1. PICK h \in ToSet(q.helpers) : /\ q.helpers # None /\ x = HelperRow(h, i)
                                          /\ y = HelperRow(ShownHelper(h, i, known), i)
        BY <3>1 DEF OwnPair
      <4>2. h.member # SignedIn /\ (h.policies # None => IsSequence(h.policies))
        BY <2>1, <4>1 DEF HelpersWell, HelpersFormed
      <4>3. QED
        BY <4>1, <4>2 DEF PairOf
    <3>2. QED
      BY <3>1
  <2>5. /\ SameCore(DirectRow(q, i), DirectRow(w, i)) /\ SameCore(DirectRow(w, i), DirectRow(q, i))
        /\ \A x \in ToSet(HelperPart(q, i)) : \E y \in ToSet(HelperPart(w, i)) :
             SameCore(x, y) /\ (x.policies # None => OwnPair(x, y, q, w, i, known))
        /\ \A y \in ToSet(HelperPart(w, i)) : \E x \in ToSet(HelperPart(q, i)) :
             SameCore(y, x) /\ (y.policies # None => OwnPair(x, y, q, w, i, known))
    BY <2>1, <2>2, <2>3, RowsCorrespond
  <2>6. \A x \in ToSet(HelperPart(q, i)) : \E y \in ToSet(HelperPart(w, i)) :
          SameCore(x, y) /\ (x.policies # None => PairOf(x, y, known))
    BY <2>4, <2>5
  <2>7. \A y \in ToSet(HelperPart(w, i)) : \E x \in ToSet(HelperPart(q, i)) :
          SameCore(y, x) /\ (y.policies # None => PairOf(x, y, known))
    BY <2>4, <2>5
  <2>8. QED
    BY <2>5, <2>6, <2>7 DEF q, w
<1>2. /\ \A x : x \in X0 <=> \E i \in 1..n : RowAt(x, rs, i)
      /\ \A y : y \in Y0 <=> \E i \in 1..n : RowAt(y, sv, i)
  BY DEF PageFacts, SavedFrom
<1>3. \A q, i : DirectRow(q, i).source = "tool"
  BY DirectSource
<1> HIDE DEF n
<1>4. ASSUME NEW x \in X0
      PROVE  \E y \in Y0 : SameCore(x, y) /\ (OwnPolicies(x) => PairOf(x, y, known))
  <2>1. PICK i \in 1..n : RowAt(x, rs, i)
    BY <1>2
  <2>2. CASE x = DirectRow(rs[i], i)
    <3> DEFINE y == DirectRow(sv[i], i)
    <3>1. RowAt(y, sv, i)
      BY DEF RowAt
    <3>2. SameCore(x, y)
      BY <1>1, <2>2
    <3>3. ~OwnPolicies(x)
      BY <1>3, <2>2 DEF OwnPolicies
    <3> HIDE DEF y
    <3>4. QED
      BY <1>2, <3>1, <3>2, <3>3
  <2>3. CASE x \in ToSet(HelperPart(rs[i], i))
    <3>1. PICK y \in ToSet(HelperPart(sv[i], i)) :
            SameCore(x, y) /\ (x.policies # None => PairOf(x, y, known))
      BY <1>1, <2>3
    <3>2. RowAt(y, sv, i)
      BY DEF RowAt
    <3>3. QED
      BY <1>2, <3>1, <3>2 DEF OwnPolicies
  <2>4. QED
    BY <2>1, <2>2, <2>3 DEF RowAt
<1>5. ASSUME NEW y \in Y0
      PROVE  \E x \in X0 : SameCore(y, x) /\ (OwnPolicies(y) => PairOf(x, y, known))
  <2>1. PICK i \in 1..n : RowAt(y, sv, i)
    BY <1>2
  <2>2. CASE y = DirectRow(sv[i], i)
    <3> DEFINE x == DirectRow(rs[i], i)
    <3>1. RowAt(x, rs, i)
      BY DEF RowAt
    <3>2. SameCore(y, x)
      BY <1>1, <2>2
    <3>3. ~OwnPolicies(y)
      BY <1>3, <2>2 DEF OwnPolicies
    <3> HIDE DEF x
    <3>4. QED
      BY <1>2, <3>1, <3>2, <3>3
  <2>3. CASE y \in ToSet(HelperPart(sv[i], i))
    <3>1. PICK x \in ToSet(HelperPart(rs[i], i)) :
            SameCore(y, x) /\ (y.policies # None => PairOf(x, y, known))
      BY <1>1, <2>3
    <3>2. RowAt(x, rs, i)
      BY DEF RowAt
    <3>3. QED
      BY <1>2, <3>1, <3>2 DEF OwnPolicies
  <2>4. QED
    BY <2>1, <2>2, <2>3 DEF RowAt
<1>6. QED
  BY <1>4, <1>5 DEF Matched

\* The rows for the server's own access are those that were there.
LEMMA OwnRowsCovered ==
  ASSUME NEW X0, NEW Y0, Covers(X0, Y0), Covers(Y0, X0),
         NEW X, \A x : x \in X <=> x \in X0 \/ (IsOwnRow(x) /\ \A z \in X0 : Identity(z) # Identity(x)),
         NEW Y, \A y : y \in Y <=> y \in Y0 \/ (IsOwnRow(y) /\ \A z \in Y0 : Identity(z) # Identity(y))
  PROVE  Covers(X, Y)
<1>1. ASSUME NEW x \in X PROVE \E y \in Y : SameCore(x, y)
  <2>1. CASE x \in X0
    <3>1. PICK y \in Y0 : SameCore(x, y)
      BY <2>1 DEF Covers
    <3>2. QED
      BY <3>1
  <2>2. CASE x \notin X0
    <3>1. ASSUME NEW z \in Y0 PROVE Identity(z) # Identity(x)
      <4>1. PICK u \in X0 : SameCore(z, u)
        BY DEF Covers
      <4>2. Identity(u) = Identity(z)
        BY <4>1 DEF SameCore, Identity
      <4>3. QED
        BY <2>2, <4>2
    <3>2. x \in Y
      BY <2>2, <3>1
    <3>3. SameCore(x, x)
      BY DEF SameCore
    <3>4. QED
      BY <3>2, <3>3
  <2>3. QED
    BY <2>1, <2>2
<1>2. QED
  BY <1>1 DEF Covers

LEMMA RowsCovered ==
  ASSUME NEW rs, NEW sv, NEW known, NEW X, NEW X0, NEW W, NEW Q0, PageFacts(rs, X, X0, W, Q0),
         NEW Y, NEW Y0, NEW V, NEW P0, PageFacts(sv, Y, Y0, V, P0), Matched(X0, Y0, known)
  PROVE  Covers(X, Y) /\ Covers(Y, X)
<1>1. Covers(X0, Y0) /\ Covers(Y0, X0)
  BY DEF Matched, Covers
<1>2. \A x : x \in X <=> x \in X0 \/ (IsOwnRow(x) /\ \A z \in X0 : Identity(z) # Identity(x))
  BY DEF PageFacts
<1>3. \A y : y \in Y <=> y \in Y0 \/ (IsOwnRow(y) /\ \A z \in Y0 : Identity(z) # Identity(y))
  BY DEF PageFacts
<1>4. QED
  BY <1>1, <1>2, <1>3, OwnRowsCovered

LEMMA NeededSame ==
  ASSUME NEW g, NEW o, Covers(ToSet(g.requirements), ToSet(o.requirements)),
         Covers(ToSet(o.requirements), ToSet(g.requirements))
  PROVE  Needed(g) = Needed(o)
<1> DEFINE Of(x) == <<x.configured, x.role>>
<1>1. \A x, y : SameCore(x, y) => Of(x) = Of(y) /\ x.source = y.source
  BY DEF SameCore
<1> HIDE DEF Of
<1>2. ASSUME NEW u
      PROVE  \A c : c \in Needed(u) <=>
               \E x \in ToSet(u.requirements) : x.source # "managed" /\ c = Of(x)
  BY DEF Needed, ToSet, Of
<1>3. ASSUME NEW u, NEW v, Covers(ToSet(u.requirements), ToSet(v.requirements)), NEW c \in Needed(u)
      PROVE  c \in Needed(v)
  <2>1. PICK x \in ToSet(u.requirements) : x.source # "managed" /\ c = Of(x)
    BY <1>2
  <2>2. PICK y \in ToSet(v.requirements) : SameCore(x, y)
    BY <1>3 DEF Covers
  <2>3. y.source # "managed" /\ c = Of(y)
    BY <1>1, <2>1, <2>2
  <2>4. QED
    BY <1>2, <2>3
<1>4. \A c \in Needed(g) : c \in Needed(o)
  BY <1>3
<1>5. \A c \in Needed(o) : c \in Needed(g)
  BY <1>3
<1> HIDE DEF Of
<1>6. QED
  BY <1>4, <1>5 DEF Needed

LEMMA CheckedIs ==
  ASSUME NEW x, NEW p
  PROVE  /\ Checked(x, p).source = "helper" /\ Checked(x, p).role = x.role
         /\ Checked(x, p).index = x.index
         /\ PolicyKey(Checked(x, p)) = <<p.effect, p.action, x.role, p.resource>>
BY KeyOfRow DEF Checked

\* What was shown of a helper is stored with it, and nothing else is.
LEMMA ShownIsSaved ==
  ASSUME NothingAbsent, NEW known, IsSequence(known), NEW x, NEW y, PairOf(x, y, known),
         NEW Y0, y \in Y0, NEW P0, PoliciesMade(P0, Y0),
         NEW p \in ToSet(known), p.source = "helper", p.index = x.index, p.role = x.role
  PROVE  OwnPolicies(y) /\ \E q \in P0 : PolicyKey(q) = PolicyKey(p)
<1>1. PICK h, i : /\ h.member # SignedIn /\ (h.policies # None => IsSequence(h.policies))
                  /\ x = HelperRow(h, i) /\ y = HelperRow(ShownHelper(h, i, known), i)
  BY DEF PairOf
<1>2. /\ x.role = h.role /\ y.role = h.role /\ x.index = i /\ y.source = "helper"
      /\ y.policies = ShownFor(h, i, known)
  BY <1>1, HelperCore
<1>3. p \in OfHelper(h, i, known)
  BY <1>2 DEF OfHelper, IsOf
<1>4. IsSequence(y.policies) /\ AsPolicy(p) \in ToSet(y.policies)
  BY <1>1, <1>2, <1>3, ShownPolicies
<1>5. OwnPolicies(y)
  BY <1>2, <1>4 DEF OwnPolicies, NothingAbsent
<1>6. Checked(y, AsPolicy(p)) \in P0
  BY <1>4, <1>5 DEF PoliciesMade, OwnPolicies
<1>7. PolicyKey(Checked(y, AsPolicy(p))) = PolicyKey(p)
  BY <1>2, CheckedIs, AsPolicyIs DEF PolicyKey
<1>8. QED
  BY <1>5, <1>6, <1>7

LEMMA SavedWasShown ==
  ASSUME NEW known, IsSequence(known), NEW x, NEW y, PairOf(x, y, known),
         NEW X0, x \in X0, NEW Q0, PoliciesMade(Q0, X0), Q0 \subseteq ToSet(known),
         NEW s \in ToSet(y.policies)
  PROVE  \E p \in ToSet(known) : p.source = "helper" /\ PolicyKey(p) = PolicyKey(Checked(y, s))
<1>1. PICK h, i : /\ h.member # SignedIn /\ (h.policies # None => IsSequence(h.policies))
                  /\ x = HelperRow(h, i) /\ y = HelperRow(ShownHelper(h, i, known), i)
  BY DEF PairOf
<1>2. /\ x.role = h.role /\ y.role = h.role /\ x.source = "helper"
      /\ y.policies = ShownFor(h, i, known) /\ x.policies = h.policies
  BY <1>1, HelperCore
<1>3. \/ \E p \in OfHelper(h, i, known) : s = AsPolicy(p)
      \/ h.policies # None /\ \E p \in ToSet(h.policies) : s = AsPolicy(p)
  BY <1>1, <1>2, ShownPolicies
<1>4. CASE \E p \in OfHelper(h, i, known) : s = AsPolicy(p)
  <2>1. PICK p \in OfHelper(h, i, known) : s = AsPolicy(p)
    BY <1>4
  <2>2. p \in ToSet(known) /\ p.source = "helper" /\ p.role = h.role
    BY DEF OfHelper, IsOf
  <2>3. PolicyKey(p) = PolicyKey(Checked(y, s))
    BY <1>2, <2>1, <2>2, CheckedIs, AsPolicyIs DEF PolicyKey
  <2>4. QED
    BY <2>2, <2>3
<1>5. CASE h.policies # None /\ \E p \in ToSet(h.policies) : s = AsPolicy(p)
  <2>1. PICK p \in ToSet(x.policies) : s = AsPolicy(p)
    BY <1>2, <1>5
  <2>2. Checked(x, p) \in Q0
    BY <1>2, <1>5 DEF PoliciesMade
  <2>3. Checked(x, p).source = "helper"
    BY CheckedIs
  <2>4. PolicyKey(Checked(x, p)) = PolicyKey(Checked(y, s))
    BY <1>2, <2>1, CheckedIs, AsPolicyIs
  <2>5. QED
    BY <2>2, <2>3, <2>4
<1>6. QED
  BY <1>3, <1>4, <1>5

\* A rule that is expected of a tool's row is expected of the same row after.
LEMMA RuleStays ==
  ASSUME NEW x, NEW y, SameCore(x, y)
  PROVE  JagRow(x) = JagRow(y) /\ TargetRow(x, EditorAudience) = TargetRow(y, EditorAudience)
BY DEF SameCore, JagRow, TargetRow

LEMMA PageApart ==
  ASSUME NEW rs, NEW X, NEW X0, NEW W, NEW Q0, PageFacts(rs, X, X0, W, Q0)
  PROVE  /\ OwnApart(X, X0)
         /\ \A x \in X : x.source = "tool" => x \in X0
         /\ \A x \in X : OwnPolicies(x) => x \in X0
         /\ \A x \in X0 : x.source = "tool" => IsDirectRole(x.role)
                                               /\ x.member = ResolvedMember(x.configured)
<1>1. \A x \in X0 : x.member = ResolvedMember(x.configured) /\ (IsToolRow(x) \/ IsHelperRow(x))
  BY DEF PageFacts
<1>2. \A x \in X : x \in X0 \/ (IsOwnRow(x) /\ \A z \in X0 : Identity(z) # Identity(x))
  BY DEF PageFacts
<1>3. \A x : IsOwnRow(x) => x.source = "managed"
  BY OwnRowIs
<1>4. \A x \in X0 : x.source # "tool" => x.configured # SignedIn
  BY <1>1 DEF IsToolRow, IsHelperRow
<1>5. \A x \in X0 : x.source = "tool" => IsDirectRole(x.role)
  BY <1>1 DEF IsToolRow, IsHelperRow
<1>6. QED
  BY <1>1, <1>2, <1>3, <1>4, <1>5 DEF OwnApart, OwnPolicies

\* A rule that a page does not have as a helper's own, it has as one of those
\* that are expected.
LEMMA RuleIsThere ==
  ASSUME EditorAudience # None, NEW rs, NEW X, NEW X0, NEW W, NEW Q0,
         PageFacts(rs, X, X0, W, Q0), NEW x \in X, x.source = "tool", x.configured = SignedIn,
         NEW p \in {JagRow(x), TargetRow(x, EditorAudience)}, Takes(p, X)
  PROVE  \E q \in W : q.source = "helper" /\ PolicyKey(q) = PolicyKey(p)
<1>1. PoliciesResolved(X, X0, W, Q0) /\ PoliciesMade(Q0, X0)
  BY DEF PageFacts
<1>2. PICK q \in W : PolicyKey(q) = PolicyKey(p) /\ (q \in Q0 \/ \E z \in X : Expected(q, z))
  BY <1>1 DEF PoliciesResolved
<1>3. CASE q \in Q0
  <2>1. PICK z \in X0 : \E s \in ToSet(z.policies) : q = Checked(z, s)
    BY <1>1, <1>3 DEF PoliciesMade
  <2>2. q.source = "helper"
    BY <2>1, CheckedIs
  <2>3. QED
    BY <1>2, <2>2
<1>4. CASE \E z \in X : Expected(q, z)
  <2>1. OwnApart(X, X0) /\ x \in X0 /\ IsDirectRole(x.role) /\ x.member = ResolvedMember(x.configured)
    BY PageApart
  <2>2. q.source = "helper"
    BY <1>2, <1>4, <2>1, RuleIsHelpers
  <2>3. QED
    BY <1>2, <2>2
<1>5. QED
  BY <1>2, <1>3, <1>4

\* Of the tool's policies none is lost.
LEMMA PoliciesStay ==
  ASSUME NothingAbsent, NEW rs, NEW sv, NEW known, IsSequence(known),
         NEW X, NEW X0, NEW W, NEW Q0, PageFacts(rs, X, X0, W, Q0), W = ToSet(known),
         NEW Y, NEW Y0, NEW V, NEW P0, PageFacts(sv, Y, Y0, V, P0), Matched(X0, Y0, known),
         NEW p \in W, p.source = "helper"
  PROVE  \E q \in V : q.source = "helper" /\ PolicyKey(q) = PolicyKey(p)
<1>1. /\ PoliciesMade(Q0, X0) /\ PoliciesMade(P0, Y0) /\ P0 \subseteq V
      /\ EditorAudience = None => W = Q0
      /\ EditorAudience # None => PoliciesResolved(X, X0, W, Q0)
  BY DEF PageFacts
<1>2. \A q \in P0 : q.source = "helper"
  BY <1>1, CheckedIs DEF PoliciesMade
<1>3. CASE p \in Q0
  <2>1. PICK x \in X0 : x.source = "helper" /\ x.policies # None
                        /\ \E s \in ToSet(x.policies) : p = Checked(x, s)
    BY <1>1, <1>3 DEF PoliciesMade
  <2>2. p.index = x.index /\ p.role = x.role
    BY <2>1, CheckedIs
  <2>3. PICK y \in Y0 : PairOf(x, y, known)
    BY <2>1 DEF Matched, OwnPolicies
  <2>4. \E q \in P0 : PolicyKey(q) = PolicyKey(p)
    BY <1>1, <2>2, <2>3, ShownIsSaved
  <2>5. QED
    BY <1>1, <1>2, <2>4
<1>4. CASE p \notin Q0
  <2>1. EditorAudience # None
    BY <1>1, <1>4
  <2>2. Takes(p, X) /\ \E x \in X : Expected(p, x)
    BY <1>1, <1>4, <2>1 DEF PoliciesResolved
  <2>3. PICK x \in X : Expected(p, x)
    BY <2>2
  <2>4. /\ x.source = "tool" /\ x.configured = SignedIn
        /\ p \in {JagRow(x), TargetRow(x, EditorAudience)}
    BY <2>3 DEF Expected, ExpectedFrom
  <2>5. Covers(X, Y)
    BY RowsCovered
  <2>6. PICK y \in Y : SameCore(x, y)
    BY <2>5 DEF Covers
  <2>7. /\ y.source = "tool" /\ y.configured = SignedIn
        /\ p \in {JagRow(y), TargetRow(y, EditorAudience)}
    BY <2>4, <2>6, RuleStays DEF SameCore
  <2>8. \E z \in Y : z.role = p.role
    BY <2>2, <2>5 DEF Covers, Takes, SameCore
  <2>9. CASE Takes(p, Y)
    BY <2>1, <2>7, <2>9, RuleIsThere
  <2>10. CASE ~Takes(p, Y)
    <3>1. PICK z \in Y : OwnPolicies(z) /\ z.index = p.index /\ z.role = p.role
      BY <2>8, <2>10 DEF Takes
    <3>2. z \in Y0
      BY <3>1, PageApart
    <3>3. PICK u \in X0 : SameCore(z, u) /\ PairOf(u, z, known)
      BY <3>1, <3>2 DEF Matched
    <3>4. p.index = u.index /\ p.role = u.role
      BY <3>1, <3>3 DEF SameCore
    <3>5. \E q \in P0 : PolicyKey(q) = PolicyKey(p)
      BY <1>1, <3>2, <3>3, <3>4, ShownIsSaved
    <3>6. QED
      BY <1>1, <1>2, <3>5
  <2>11. QED
    BY <2>9, <2>10
<1>5. QED
  BY <1>3, <1>4

\* Nor is there one that was not there.
LEMMA PoliciesCome ==
  ASSUME NothingAbsent, NEW rs, NEW sv, NEW known, IsSequence(known),
         NEW X, NEW X0, NEW W, NEW Q0, PageFacts(rs, X, X0, W, Q0), W = ToSet(known),
         NEW Y, NEW Y0, NEW V, NEW P0, PageFacts(sv, Y, Y0, V, P0), Matched(X0, Y0, known),
         NEW p \in V, p.source = "helper"
  PROVE  \E q \in W : q.source = "helper" /\ PolicyKey(q) = PolicyKey(p)
<1>1. /\ PoliciesMade(Q0, X0) /\ PoliciesMade(P0, Y0) /\ Q0 \subseteq W
      /\ EditorAudience = None => V = P0
      /\ EditorAudience # None => PoliciesResolved(Y, Y0, V, P0)
  BY DEF PageFacts
<1>2. CASE p \in P0
  <2>1. PICK y \in Y0 : y.source = "helper" /\ y.policies # None
                        /\ \E s \in ToSet(y.policies) : p = Checked(y, s)
    BY <1>1, <1>2 DEF PoliciesMade
  <2>2. PICK s \in ToSet(y.policies) : p = Checked(y, s)
    BY <2>1
  <2>3. PICK x \in X0 : PairOf(x, y, known)
    BY <2>1 DEF Matched, OwnPolicies
  <2>4. \E q \in ToSet(known) : q.source = "helper" /\ PolicyKey(q) = PolicyKey(Checked(y, s))
    BY <1>1, <2>3, SavedWasShown
  <2>5. QED
    BY <2>2, <2>4
<1>3. CASE p \notin P0
  <2>1. EditorAudience # None
    BY <1>1, <1>3
  <2>2. Takes(p, Y) /\ \E y \in Y : Expected(p, y)
    BY <1>1, <1>3, <2>1 DEF PoliciesResolved
  <2>3. PICK y \in Y : Expected(p, y)
    BY <2>2
  <2>4. /\ y.source = "tool" /\ y.configured = SignedIn
        /\ p \in {JagRow(y), TargetRow(y, EditorAudience)}
    BY <2>3 DEF Expected, ExpectedFrom
  <2>5. Covers(Y, X)
    BY RowsCovered
  <2>6. PICK x \in X : SameCore(y, x)
    BY <2>5 DEF Covers
  <2>7. /\ x.source = "tool" /\ x.configured = SignedIn
        /\ p \in {JagRow(x), TargetRow(x, EditorAudience)}
    BY <2>4, <2>6, RuleStays DEF SameCore
  <2>8. \E z \in X : z.role = p.role
    BY <2>2, <2>5 DEF Covers, Takes, SameCore
  <2>9. ASSUME NEW z \in X, OwnPolicies(z), z.index = p.index, z.role = p.role
        PROVE  FALSE
    <3>1. z \in X0
      BY <2>9, PageApart
    <3>2. PICK u \in Y0 : SameCore(z, u) /\ PairOf(z, u, known)
      BY <2>9, <3>1 DEF Matched
    <3>3. PICK h, i : /\ h.member # SignedIn /\ (h.policies # None => IsSequence(h.policies))
                      /\ z = HelperRow(h, i) /\ u = HelperRow(ShownHelper(h, i, known), i)
      BY <3>2 DEF PairOf
    <3>4. u.source = "helper" /\ u.policies = ShownFor(h, i, known)
      BY <3>3, HelperCore
    <3>5. IsSequence(u.policies)
      BY <3>3, <3>4, ShownPolicies
    <3>6. OwnPolicies(u) /\ u.index = p.index /\ u.role = p.role
      BY <2>9, <3>2, <3>4, <3>5 DEF SameCore, OwnPolicies, NothingAbsent
    <3>7. u \in Y
      BY DEF PageFacts
    <3>8. QED
      BY <2>2, <3>6, <3>7 DEF Takes
  <2>10. Takes(p, X)
    BY <2>8, <2>9 DEF Takes
  <2>11. QED
    BY <2>1, <2>7, <2>10, RuleIsThere
<1>4. QED
  BY <1>2, <1>3

\* What is made of the draft needs what was needed.
LEMMA SavedNeedsSame ==
  ASSUME NothingAbsent, NEW rs, NEW sv, SavedFrom(rs, sv, PageOf(rs).policies)
  PROVE  LET g == PageOf(rs)
             o == PageOf(sv) IN
         Needed(o) = Needed(g) /\ Policies(o) = Policies(g)
<1> DEFINE g == PageOf(rs)
           o == PageOf(sv)
           known == g.policies
           X == ToSet(g.requirements)
           Y == ToSet(o.requirements)
           X0 == ToSet(Group(rs).requirements)
           Y0 == ToSet(Group(sv).requirements)
           W == ToSet(g.policies)
           V == ToSet(o.policies)
           Q0 == ToSet(Group(rs).policies)
           P0 == ToSet(Group(sv).policies)
<1>1. PageFacts(rs, X, X0, W, Q0) /\ PageFacts(sv, Y, Y0, V, P0) /\ IsSequence(known)
  BY PageIs DEF SavedFrom
<1> HIDE DEF g, o
<1>2. SavedFrom(rs, sv, known)
  BY DEF g
<1> HIDE DEF X0, Y0, Q0, P0
<1>3. Matched(X0, Y0, known)
  <2> HIDE DEF X, Y, W, V, known
  <2>1. QED
    BY <1>1, <1>2, RowsMatched
<1>4. Covers(X, Y) /\ Covers(Y, X)
  <2> HIDE DEF X, Y, W, V, known
  <2>1. QED
    BY <1>1, <1>3, RowsCovered
<1>5. Needed(o) = Needed(g)
  BY <1>4, NeededSame
<1>6. ASSUME NEW u
      PROVE  \A c : c \in Policies(u) <=>
               \E p \in ToSet(u.policies) : p.source = "helper" /\ c = PolicyKey(p)
  BY DEF Policies, ToSet
<1>7. \A p \in W : p.source = "helper" => \E q \in V : q.source = "helper" /\ PolicyKey(q) = PolicyKey(p)
  <2>1. W = ToSet(known)
    OBVIOUS
  <2> HIDE DEF X, Y, W, V, known
  <2>2. QED
    BY <1>1, <1>3, <2>1, PoliciesStay
<1>8. \A p \in V : p.source = "helper" => \E q \in W : q.source = "helper" /\ PolicyKey(q) = PolicyKey(p)
  <2>1. W = ToSet(known)
    OBVIOUS
  <2> HIDE DEF X, Y, W, V, known
  <2>2. QED
    BY <1>1, <1>3, <2>1, PoliciesCome
<1>9. \A c \in Policies(g) : c \in Policies(o)
  BY <1>6, <1>7
<1>10. \A c \in Policies(o) : c \in Policies(g)
  BY <1>6, <1>8
<1>11. Policies(o) = Policies(g)
  BY <1>9, <1>10 DEF Policies
<1>12. QED
  BY <1>5, <1>11 DEF g, o

-----------------------------------------------------------------------------
(* An unedited draft tells its helpers, and their policies, apart           *)

RowsValid(rs) == RowsWell(rs) /\ RequirementsValid(rs)
OwnOf(q) == Includes(q) /\ q.helpers # None
RolesApart(rs) ==
  \A i \in 1..Len(rs) : OwnOf(rs[i]) =>
     \A a, b \in DOMAIN rs[i].helpers : rs[i].helpers[a].role = rs[i].helpers[b].role => a = b

LEMMA RowsForms ==
  ASSUME NEW rs, RowsValid(rs)
  PROVE  /\ IsSequence(rs) /\ Len(rs) \in Nat /\ DOMAIN rs = 1..Len(rs)
         /\ \A i \in 1..Len(rs) : RequirementForm(rs[i]) /\ RequirementValid(rs[i])
         /\ \A i, l \in 1..Len(rs) : Identity(rs[i]) = Identity(rs[l]) => i = l
<1> DEFINE n == Len(rs)
<1>1. IsSequence(rs)
  BY DEF RowsValid, RowsWell, RequirementsFormed
<1>2. n \in Nat /\ DOMAIN rs = 1..n /\ \A i \in 1..n : rs[i] \in ToSet(rs)
  BY <1>1, SequenceIs
<1> HIDE DEF n
<1>3. \A i \in 1..n : RequirementForm(rs[i])
  BY <1>2 DEF RowsValid, RowsWell, RequirementsFormed, RequirementForm
<1>4. \A i \in 1..n : RequirementValid(rs[i])
  BY <1>2 DEF RowsValid, RequirementsValid, RequirementValid
<1>5. \A i, l \in 1..n : Identity(rs[i]) = Identity(rs[l]) => i = l
  BY <1>2 DEF RowsValid, RequirementsValid, Distinct
<1>6. QED
  BY <1>1, <1>2, <1>3, <1>4, <1>5 DEF n

\* The helpers of a customized row are displayed with their own roles.
LEMMA RolesDisplayed ==
  ASSUME NEW row, row.customized
  PROVE  /\ DOMAIN Displayed(row) = DOMAIN row.helpers
         /\ \A k \in DOMAIN row.helpers : Displayed(row)[k].role = row.helpers[k].role
<1> DEFINE hs == row.helpers
           shown(k) == IF hs[k].type = "mcp-service" /\ Service # None
                       THEN [hs[k] EXCEPT !.member = Service] ELSE hs[k]
<1>1. Displayed(row) = [k \in DOMAIN hs |-> shown(k)]
  BY DEF Displayed, DisplayedHelpers
<1>2. ASSUME NEW k \in DOMAIN hs PROVE shown(k).role = hs[k].role
  OBVIOUS
<1> HIDE DEF shown, hs
<1>3. QED
  BY <1>1, <1>2 DEF hs

LEMMA RolesAreApart ==
  ASSUME NEW rs, RowsValid(rs), NEW known, NEW rows,
         rows = [i \in 1..Len(rs) |-> DialogRowOf(rs[i], i, known)], ~Entangled(rows)
  PROVE  RolesApart(rs)
<1> SUFFICES ASSUME NEW i \in 1..Len(rs), OwnOf(rs[i]),
                    NEW a \in DOMAIN rs[i].helpers, NEW b \in DOMAIN rs[i].helpers,
                    rs[i].helpers[a].role = rs[i].helpers[b].role, a # b
             PROVE  FALSE
  BY DEF RolesApart
<1> DEFINE q == rs[i]
           row == rows[i]
           hs == q.helpers
           part == HelperPart(q, i)
<1>1. RequirementForm(q) /\ RequirementValid(q) /\ q.helpers # None /\ Includes(q)
  BY RowsForms DEF OwnOf
<1>2. q.member = SignedIn /\ IsDirectRole(q.role)
  BY <1>1 DEF RequirementValid, RequirementForm
<1>3. row = DialogRowOf(q, i, known) /\ i \in DOMAIN rows
  OBVIOUS
<1>4. IsSigned(row)
  BY <1>2, <1>3, RowOfRequirement
<1>5. row.customized /\ row.helpers = PartDrafted(q, i, known)
  <2>1. SaysOf(q)
    BY <1>1 DEF SaysOf
  <2> HIDE DEF row, q
  <2>2. (SaysOf(q) <=> row.customized) /\ row.helpers = PartDrafted(q, i, known)
    BY <1>3, HelpersOfRow
  <2>3. QED
    BY <2>1, <2>2
<1>6. part = [k \in DOMAIN hs |-> HelperRow(hs[k], i)]
  BY <1>1 DEF HelperPart, HelpersFor
<1>7. row.helpers = [k \in DOMAIN part |-> DialogHelper(part[k], known)]
  BY <1>5 DEF PartDrafted
<1> HIDE DEF row, part, hs, q
<1>8. /\ DOMAIN row.helpers = DOMAIN hs
      /\ \A k \in DOMAIN hs : row.helpers[k] = DialogHelper(HelperRow(hs[k], i), known)
  BY <1>6, <1>7
<1>9. \A h : DialogHelper(HelperRow(h, i), known).role = h.role
  <2> SUFFICES ASSUME NEW h PROVE DialogHelper(HelperRow(h, i), known).role = h.role
    OBVIOUS
  <2>1. HelperRow(h, i).role = h.role
    BY HelperRowIs
  <2>2. \E ps : DialogHelper(HelperRow(h, i), known)
               = DraftHelper(HelperRow(h, i).member, HelperRow(h, i).role, ps)
    BY Zenon DEF DialogHelper
  <2>3. QED
    BY <2>1, <2>2, DraftHelperParts
<1>10. /\ DOMAIN Displayed(row) = DOMAIN hs
       /\ \A k \in DOMAIN hs : Displayed(row)[k].role = hs[k].role
  BY <1>5, <1>8, <1>9, RolesDisplayed
<1>11. a \in DOMAIN hs /\ b \in DOMAIN hs /\ hs[a].role = hs[b].role
  BY DEF hs, q
<1>12. <<i, a>> \in HelpersOf(rows) /\ <<i, b>> \in HelpersOf(rows) /\ <<i, a>> # <<i, b>>
  BY <1>3, <1>4, <1>10, <1>11 DEF HelpersOf, IsSigned, Displayed, row
<1>13. DisplayedHelpers(rows[i], EditorAudience)[a].role
         = DisplayedHelpers(rows[i], EditorAudience)[b].role
  BY <1>10, <1>11 DEF Displayed, row
<1>14. <<i, b>> \in HelpersOf(rows) \ {<<i, a>>}
  BY <1>12
<1>15. Entangled(rows)
  BY <1>12, <1>13, <1>14, Zenon DEF Entangled
<1>16. QED
  BY <1>15

\* No two helpers' rows of one requirement have a role and policies of their own.
LEMMA OwnRowsApart ==
  ASSUME NEW rs, RowsValid(rs), RolesApart(rs)
  PROVE  LET rows == Group(rs).requirements IN
         \A k, l \in DOMAIN rows :
            OwnPolicies(rows[k]) /\ OwnPolicies(rows[l])
              /\ rows[k].index = rows[l].index /\ rows[k].role = rows[l].role => k = l
<1> DEFINE n == Len(rs)
           parts == [i \in DOMAIN rs |-> RowsOf(rs[i], i)]
           rows == FlattenSeq(parts)
<1>1. /\ n \in Nat /\ DOMAIN rs = 1..n
      /\ \A i \in 1..n : rs[i].helpers # None => IsSequence(rs[i].helpers)
  <2>1. /\ n \in Nat /\ DOMAIN rs = 1..n /\ \A i \in 1..n : RequirementForm(rs[i])
    BY RowsForms
  <2>2. QED
    BY <2>1 DEF RequirementForm, HelpersWell, HelpersFormed
<1>2. Group(rs).requirements = rows
  BY DEF Group
<1>3. parts = [i \in 1..n |-> parts[i]] /\ \A i \in 1..n : parts[i] = RowsOf(rs[i], i)
  BY <1>1
<1> HIDE DEF parts
<1>4. \A i \in 1..n : IsSequence(parts[i])
  BY <1>1, <1>3, RowsOfAre
<1>5. PICK p, q : Laid(rows, parts, n, p, q)
  <2> HIDE DEF n
  <2>1. QED
    BY <1>1, <1>3, <1>4, Positions, Zenon
<1> HIDE DEF rows
<1>6. ASSUME NEW k \in DOMAIN rows, OwnPolicies(rows[k])
      PROVE  LET hs == rs[p[k]].helpers IN
             /\ p[k] \in 1..n /\ OwnOf(rs[p[k]]) /\ q[k] \in Nat /\ q[k] - 1 \in DOMAIN hs
             /\ rows[k].index = p[k] /\ rows[k].role = hs[q[k] - 1].role
  <2> DEFINE i == p[k]
             j == q[k]
             r == rs[i]
             hs == HelpersFor(r)
  <2>1. i \in 1..n /\ j \in DOMAIN parts[i] /\ rows[k] = parts[i][j]
    BY <1>5 DEF Laid
  <2>2. /\ parts[i] = RowsOf(r, i) /\ (r.helpers # None => IsSequence(r.helpers))
    BY <1>1, <1>3, <2>1
  <2> HIDE DEF r, i, j, n
  <2>3. /\ parts[i][1] = DirectRow(r, i) /\ DOMAIN parts[i] \subseteq Nat
        /\ j = 1 \/ (Includes(r) /\ j - 1 \in DOMAIN hs /\ parts[i][j] = HelperRow(hs[j - 1], i))
    BY <2>1, <2>2, RowsOfAre
  <2>4. j # 1
    BY <1>6, <2>1, <2>3, DirectFields DEF OwnPolicies
  <2>5. Includes(r) /\ j - 1 \in DOMAIN hs /\ rows[k] = HelperRow(hs[j - 1], i) /\ j \in Nat
    BY <2>1, <2>3, <2>4
  <2>6. /\ rows[k].index = i /\ rows[k].role = hs[j - 1].role
        /\ rows[k].policies = hs[j - 1].policies
    BY <2>5, HelperRowIs
  <2>7. hs[j - 1].policies # None
    BY <1>6, <2>6 DEF OwnPolicies
  <2>8. r.helpers # None
    <3>1. SUFFICES ASSUME r.helpers = None PROVE FALSE
      OBVIOUS
    <3>2. hs = GeneratedHelperRows(r.role)
      BY <3>1 DEF HelpersFor
    <3>3. DOMAIN hs = 1..2 /\ hs[1].policies = None /\ hs[2].policies = None
      BY <3>2, GeneratedHelpersAre
    <3>4. j - 1 = 1 \/ j - 1 = 2
      BY <2>5, <3>3, OneOrTwo
    <3>5. QED
      BY <2>7, <3>3, <3>4
  <2>9. hs = r.helpers
    BY <2>8 DEF HelpersFor
  <2>10. QED
    BY <2>1, <2>5, <2>6, <2>8, <2>9 DEF OwnOf, i, j, r
<1>7. ASSUME NEW k \in DOMAIN rows, NEW l \in DOMAIN rows,
             OwnPolicies(rows[k]), OwnPolicies(rows[l]),
             rows[k].index = rows[l].index, rows[k].role = rows[l].role
      PROVE  k = l
  <2> DEFINE i == p[k]
             hs == rs[i].helpers
             a == q[k] - 1
             b == q[l] - 1
  <2>1. /\ i \in 1..n /\ OwnOf(rs[i]) /\ q[k] \in Nat /\ a \in DOMAIN hs
        /\ rows[k].index = i /\ rows[k].role = hs[a].role
    BY <1>6, <1>7
  <2>2. p[l] = i
    BY <1>6, <1>7, <2>1, Zenon
  <2>3. q[l] \in Nat /\ b \in DOMAIN hs /\ rows[l].role = hs[b].role
    BY <1>6, <1>7, <2>2
  <2> HIDE DEF hs, a, b, i
  <2>4. a = b
    BY <1>7, <2>1, <2>3, Zenon DEF RolesApart, hs, n
  <2>5. q[k] = q[l]
    BY <2>1, <2>3, <2>4 DEF a, b
  <2>6. QED
    BY <1>5, <1>7, <2>2, <2>5 DEF Laid, i
<1>8. QED
  BY <1>2, <1>7

\* A row with policies of its own is of a helper that a requirement names.
LEMMA OwnRowFrom ==
  ASSUME NEW rs, RowsValid(rs), NEW x \in ToSet(Group(rs).requirements), OwnPolicies(x)
  PROVE  IsSequence(x.policies) /\ PoliciesValid(x.policies)
<1>1. RowsWell(rs)
  BY DEF RowsValid
<1>2. PICK i \in 1..Len(rs) : RowAt(x, rs, i)
  BY <1>1, RowsAt
<1> DEFINE q == rs[i]
<1>3. RequirementForm(q) /\ RequirementValid(q)
  BY RowsForms
<1>4. q.helpers # None => IsSequence(q.helpers)
  BY <1>3 DEF RequirementForm, HelpersWell, HelpersFormed
<1>5. x \in ToSet(HelperPart(q, i))
  BY <1>2, DirectFields DEF RowAt, OwnPolicies
<1>6. q.helpers # None /\ Includes(q)
  <2>1. q.helpers # None
    BY <1>5, GeneratedAreBare DEF OwnPolicies
  <2>2. Includes(q)
    BY <1>3, <2>1 DEF RequirementValid, Includes
  <2>3. QED
    BY <2>1, <2>2
<1>7. PICK h \in ToSet(q.helpers) : x = HelperRow(h, i)
  BY <1>4, <1>5, <1>6, PartElements DEF HelpersFor
<1>8. x.policies = h.policies /\ h.policies # None
  BY <1>7, HelperRowIs DEF OwnPolicies
<1>9. IsSequence(h.policies)
  BY <1>3, <1>6, <1>8 DEF RequirementForm, HelpersWell, HelpersFormed
<1>10. PoliciesValid(h.policies)
  <2>1. HelpersValid(q.helpers)
    BY <1>3, <1>6 DEF RequirementValid
  <2>2. QED
    BY <1>8, <2>1 DEF HelpersValid, ToSet
<1>11. QED
  BY <1>8, <1>9, <1>10

KeyAt(p) == <<p.index, PolicyKey(p)>>
LEMMA OwnPoliciesApart ==
  ASSUME NEW rs, RowsValid(rs), RolesApart(rs)
  PROVE  LET ps == Group(rs).policies IN
         \A k, l \in DOMAIN ps : KeyAt(ps[k]) = KeyAt(ps[l]) => k = l
<1> DEFINE rows == Group(rs).requirements
           n == Len(rows)
           parts == [k \in DOMAIN rows |-> ConfiguredPolicyRows(rows[k])]
           ps == FlattenSeq(parts)
<1>1. Group(rs).policies = ps
  BY DEF Group
<1>2. IsSequence(rows)
  BY RowsAt DEF RowsValid
<1>3. \A k, l \in DOMAIN rows :
        OwnPolicies(rows[k]) /\ OwnPolicies(rows[l])
          /\ rows[k].index = rows[l].index /\ rows[k].role = rows[l].role => k = l
  BY OwnRowsApart
<1>4. \A x \in ToSet(rows) : OwnPolicies(x) => IsSequence(x.policies) /\ PoliciesValid(x.policies)
  BY OwnRowFrom
<1> HIDE DEF rows
<1>5. n \in Nat /\ DOMAIN rows = 1..n /\ \A k \in 1..n : rows[k] \in ToSet(rows)
  BY <1>2, SequenceIs
<1> HIDE DEF n
<1>6. parts = [k \in 1..n |-> parts[k]] /\ \A k \in 1..n : parts[k] = ConfiguredPolicyRows(rows[k])
  BY <1>5
<1> HIDE DEF parts
<1>7. ASSUME NEW k \in 1..n
      PROVE  /\ IsSequence(parts[k])
             /\ \A j \in DOMAIN parts[k] :
                  /\ OwnPolicies(rows[k]) /\ j \in DOMAIN rows[k].policies
                  /\ parts[k][j] = Checked(rows[k], rows[k].policies[j])
  <2> DEFINE row == rows[k]
  <2>1. parts[k] = IF OwnPolicies(row) THEN [j \in DOMAIN row.policies |-> Checked(row, row.policies[j])]
                   ELSE << >>
    BY <1>6 DEF ConfiguredPolicyRows, Checked, OwnPolicies
  <2>2. OwnPolicies(row) => IsSequence(row.policies)
    BY <1>4, <1>5
  <2> HIDE DEF row
  <2>3. CASE ~OwnPolicies(row)
    <3>1. parts[k] = << >>
      BY <2>1, <2>3
    <3>2. QED
      BY <3>1, Nowhere, ShortSequences
  <2>4. CASE OwnPolicies(row)
    <3> DEFINE ss == row.policies
               m == Len(ss)
    <3>1. m \in Nat /\ DOMAIN ss = 1..m
      BY <2>2, <2>4, SequenceIs
    <3> HIDE DEF m
    <3>2. parts[k] = [j \in 1..m |-> Checked(row, ss[j])]
      BY <2>1, <2>4, <3>1
    <3> HIDE DEF ss
    <3>3. /\ parts[k] = [j \in 1..m |-> parts[k][j]] /\ DOMAIN parts[k] = 1..m
          /\ \A j \in 1..m : parts[k][j] = Checked(row, ss[j])
      BY <3>2
    <3>4. IsSequence(parts[k])
      BY <3>1, <3>3, Listed1
    <3>5. QED
      BY <2>4, <3>1, <3>3, <3>4 DEF row, ss
  <2>5. QED
    BY <2>3, <2>4
<1>8. PICK p, q : Laid(ps, parts, n, p, q)
  BY <1>5, <1>6, <1>7, Positions, Zenon
<1> HIDE DEF ps
<1>9. ASSUME NEW k \in DOMAIN ps
      PROVE  LET x == rows[p[k]] IN
             /\ p[k] \in 1..n /\ OwnPolicies(x) /\ q[k] \in DOMAIN x.policies
             /\ ps[k] = Checked(x, x.policies[q[k]])
  BY <1>7, <1>8 DEF Laid
<1>10. ASSUME NEW k \in DOMAIN ps, NEW l \in DOMAIN ps, KeyAt(ps[k]) = KeyAt(ps[l])
       PROVE  k = l
  <2> DEFINE x == rows[p[k]]
             y == rows[p[l]]
             s == x.policies[q[k]]
             t == y.policies[q[l]]
  <2>1. /\ p[k] \in 1..n /\ OwnPolicies(x) /\ q[k] \in DOMAIN x.policies /\ ps[k] = Checked(x, s)
        /\ p[l] \in 1..n /\ OwnPolicies(y) /\ q[l] \in DOMAIN y.policies /\ ps[l] = Checked(y, t)
    BY <1>9
  <2> HIDE DEF s, t
  <2>2. /\ ps[k].index = x.index /\ PolicyKey(ps[k]) = <<s.effect, s.action, x.role, s.resource>>
        /\ ps[l].index = y.index /\ PolicyKey(ps[l]) = <<t.effect, t.action, y.role, t.resource>>
    BY <2>1, CheckedIs
  <2>3. x.index = y.index /\ x.role = y.role /\ PolicyIdentity(s) = PolicyIdentity(t)
    <3>1. ps[k].index = ps[l].index /\ PolicyKey(ps[k]) = PolicyKey(ps[l])
      BY <1>10 DEF KeyAt
    <3>2. <<s.effect, s.action, x.role, s.resource>> = <<t.effect, t.action, y.role, t.resource>>
      BY <2>2, <3>1
    <3>3. s.effect = t.effect /\ s.action = t.action /\ x.role = y.role /\ s.resource = t.resource
      BY <3>2
    <3>4. QED
      BY <2>2, <3>1, <3>3 DEF PolicyIdentity
  <2>4. p[k] = p[l]
    BY <1>3, <1>5, <2>1, <2>3
  <2>5. PoliciesValid(x.policies)
    BY <1>4, <1>5, <2>1
  <2>6. q[k] = q[l]
    BY <2>1, <2>3, <2>4, <2>5 DEF PoliciesValid, Distinct, s, t
  <2>7. QED
    BY <1>8, <1>10, <2>4, <2>6 DEF Laid
<1>11. QED
  BY <1>1, <1>10

\* A rule that is added is added once, if no policy has its key.
LEMMA AddedApart ==
  ASSUME NEW g, IsGroup(g), IsSequence(g.requirements), IsSequence(g.policies),
         NEW audience, audience # None
  PROVE  \E added :
           /\ IsSequence(added)
           /\ WithExpectedPolicies(g, audience).policies = g.policies \o added
           /\ \A k, l \in DOMAIN added : PolicyKey(added[k]) = PolicyKey(added[l]) => k = l
           /\ \A k \in DOMAIN added : \A p \in ToSet(g.policies) : PolicyKey(added[k]) # PolicyKey(p)
<1> DEFINE rows == g.requirements
           n == Len(rows)
           parts == [i \in DOMAIN rows |-> ExpectedOf(rows[i], audience, SourceRoleOf(g))]
           expected == FlattenSeq(parts)
           w == WithExpectedPolicies(g, audience)
<1>1. n \in Nat /\ DOMAIN rows = 1..n
  BY SequenceIs
<1> HIDE DEF n
<1>2. parts = [i \in 1..n |-> parts[i]]
      /\ \A i \in 1..n : parts[i] = ExpectedOf(rows[i], audience, SourceRoleOf(g))
  BY <1>1
<1> HIDE DEF parts
<1>3. \A i \in 1..n : IsSequence(parts[i])
  BY <1>2, ExpectedOfRow
<1>4. IsSequence(expected)
  BY <1>1, <1>2, <1>3, Concatenated
<1> DEFINE present == {PolicyKey(p) : p \in ToSet(g.policies)}
           applies(k) ==
              /\ ~Unlisted(expected[k], {row.role : row \in ToSet(g.requirements)})
              /\ expected[k].source = "helper" =>
                    <<expected[k].index, expected[k].role>> \notin CustomizedRoles(g)
           first(k) == \A j \in 1 .. k - 1 :
                          applies(j) => PolicyKey(expected[j]) # PolicyKey(expected[k])
           kept == {k \in DOMAIN expected :
                      applies(k) /\ PolicyKey(expected[k]) \notin present /\ first(k)}
           added == Selected(expected, kept)
           m == Len(expected)
<1>5. w = [g EXCEPT !.policies = @ \o added]
  BY DEF WithExpectedPolicies, Adopted, parts
<1> HIDE DEF expected
<1>6. m \in Nat /\ DOMAIN expected = 1..m
  BY <1>4, SequenceIs
<1> HIDE DEF applies, m
<1>7. \A k \in kept : k \in 1..m /\ applies(k) /\ PolicyKey(expected[k]) \notin present /\ first(k)
  BY <1>6
<1> HIDE DEF kept
<1>8. PICK at : /\ \A k \in DOMAIN added : at[k] \in kept \cap DOMAIN expected /\ added[k] = expected[at[k]]
                /\ \A k, l \in DOMAIN added : at[k] = at[l] => k = l
  BY <1>4, SelectedPositions
<1>9. IsSequence(added)
  BY <1>4, SelectedElements
<1> HIDE DEF added
<1>10. w.policies = g.policies \o added
  BY <1>5 DEF IsGroup
<1>11. ASSUME NEW i \in kept, NEW j \in kept, PolicyKey(expected[i]) = PolicyKey(expected[j])
       PROVE  i = j
  <2>1. i \in 1..m /\ j \in 1..m /\ applies(i) /\ applies(j) /\ first(i) /\ first(j)
    BY <1>7
  <2> HIDE DEF present
  <2>2. ~(i < j)
    BY <1>6, <1>11, <2>1
  <2>3. ~(j < i)
    BY <1>6, <1>11, <2>1
  <2>4. QED
    BY <1>6, <2>1, <2>2, <2>3
<1>12. \A k, l \in DOMAIN added : PolicyKey(added[k]) = PolicyKey(added[l]) => k = l
  BY <1>8, <1>11
<1>13. \A k \in DOMAIN added : \A p \in ToSet(g.policies) : PolicyKey(added[k]) # PolicyKey(p)
  BY <1>7, <1>8
<1>14. QED
  BY <1>9, <1>10, <1>12, <1>13 DEF w

LEMMA JoinedApart ==
  ASSUME NEW s, NEW t, IsSequence(s), IsSequence(t),
         \A k, l \in DOMAIN s : KeyAt(s[k]) = KeyAt(s[l]) => k = l,
         \A k, l \in DOMAIN t : PolicyKey(t[k]) = PolicyKey(t[l]) => k = l,
         \A k \in DOMAIN t : \A p \in ToSet(s) : PolicyKey(t[k]) # PolicyKey(p)
  PROVE  LET u == s \o t IN
         \A k, l \in DOMAIN u : KeyAt(u[k]) = KeyAt(u[l]) => k = l
<1> DEFINE u == s \o t
           M == Len(s)
           N == Len(t)
<1>1. M \in Nat /\ N \in Nat /\ DOMAIN s = 1..M /\ DOMAIN t = 1..N
  BY SequenceIs
<1>2. /\ DOMAIN u = 1..M + N
      /\ \A k \in 1..M + N : u[k] = IF k <= M THEN s[k] ELSE t[k - M]
  <2> DEFINE U == ToSet(s) \cup ToSet(t)
  <2>1. s \in Seq(U) /\ t \in Seq(U)
    BY DEF IsSequence
  <2> HIDE DEF U
  <2>2. QED
    BY <2>1
<1> HIDE DEF u, M, N
<1>3. \A k \in 1..M : s[k] \in ToSet(s)
  BY <1>1, Zenon DEF ToSet
<1>4. ASSUME NEW k \in 1..M + N, NEW l \in 1..M + N, KeyAt(u[k]) = KeyAt(u[l])
      PROVE  k = l
  <2>1. PolicyKey(u[k]) = PolicyKey(u[l])
    BY <1>4 DEF KeyAt
  <2>2. CASE k <= M /\ l <= M
    <3>1. k \in 1..M /\ l \in 1..M /\ u[k] = s[k] /\ u[l] = s[l]
      BY <1>1, <1>2, <2>2
    <3>2. QED
      BY <1>1, <1>4, <3>1
  <2>3. CASE ~(k <= M) /\ ~(l <= M)
    <3>1. k - M \in 1..N /\ l - M \in 1..N /\ u[k] = t[k - M] /\ u[l] = t[l - M]
      BY <1>1, <1>2, <2>3
    <3>2. k - M = l - M
      BY <1>1, <2>1, <3>1
    <3>3. QED
      BY <1>1, <3>2
  <2>4. CASE k <= M /\ ~(l <= M)
    <3>1. k \in 1..M /\ l - M \in 1..N /\ u[k] = s[k] /\ u[l] = t[l - M]
      BY <1>1, <1>2, <2>4
    <3>2. QED
      BY <1>1, <1>3, <2>1, <3>1
  <2>5. CASE ~(k <= M) /\ l <= M
    <3>1. l \in 1..M /\ k - M \in 1..N /\ u[l] = s[l] /\ u[k] = t[k - M]
      BY <1>1, <1>2, <2>5
    <3>2. QED
      BY <1>1, <1>3, <2>1, <3>1
  <2>6. QED
    BY <2>2, <2>3, <2>4, <2>5
<1>5. QED
  BY <1>2, <1>4, Zenon DEF u

\* Policies of the page that differ in nothing are one.
LEMMA PoliciesAreApart ==
  ASSUME NEW rs, RowsValid(rs), RolesApart(rs)
  PROVE  LET known == PageOf(rs).policies IN
         /\ \A k, l \in DOMAIN known : KeyAt(known[k]) = KeyAt(known[l]) => k = l
         /\ \A h, i : ToldApart(h, i, known)
<1> DEFINE g == Group(rs)
           o == WithOwnAccess(g)
           known == PageOf(rs).policies
<1>1. RowsWell(rs)
  BY DEF RowsValid
<1>2. IsGroup(g) /\ IsSequence(g.requirements)
  BY <1>1, RowsAt DEF Group, IsGroup
<1>3. \A x \in ToSet(g.requirements) : x.source = "helper" /\ x.policies # None => IsSequence(x.policies)
  BY OwnRowFrom DEF OwnPolicies
<1>4. IsSequence(g.policies)
  BY <1>2, <1>3, SavedPolicies
<1>5. \A k, l \in DOMAIN g.policies : KeyAt(g.policies[k]) = KeyAt(g.policies[l]) => k = l
  BY OwnPoliciesApart
<1> HIDE DEF g
<1>6. IsGroup(o) /\ IsSequence(o.requirements) /\ o.policies = g.policies
  BY <1>2, OwnAccessRows
<1>7. PageOf(rs) = WithExpectedPolicies(o, EditorAudience)
  BY DEF PageOf, g
<1> HIDE DEF o
<1>8. \A k, l \in DOMAIN known : KeyAt(known[k]) = KeyAt(known[l]) => k = l
  <2>1. CASE EditorAudience = None
    <3>1. known = g.policies
      BY <1>6, <1>7, <2>1 DEF WithExpectedPolicies
    <3>2. QED
      BY <1>5, <3>1
  <2>2. CASE EditorAudience # None
    <3>1. PICK added :
            /\ IsSequence(added)
            /\ WithExpectedPolicies(o, EditorAudience).policies = o.policies \o added
            /\ \A k, l \in DOMAIN added : PolicyKey(added[k]) = PolicyKey(added[l]) => k = l
            /\ \A k \in DOMAIN added : \A p \in ToSet(o.policies) : PolicyKey(added[k]) # PolicyKey(p)
      BY <1>4, <1>6, <2>2, AddedApart, Zenon
    <3>2. known = g.policies \o added
      BY <1>6, <1>7, <3>1
    <3> HIDE DEF known
    <3>3. QED
      BY <1>4, <1>5, <1>6, <3>1, <3>2, JoinedApart, Zenon
  <2>3. QED
    BY <2>1, <2>2
<1> HIDE DEF known
<1>9. ASSUME NEW h, NEW i, NEW k \in DOMAIN known, NEW l \in DOMAIN known,
             IsOf(known[k], h, i), IsOf(known[l], h, i),
             PolicyIdentity(known[k]) = PolicyIdentity(known[l])
      PROVE  k = l
  <2>1. KeyAt(known[k]) = KeyAt(known[l])
    BY <1>9 DEF KeyAt, IsOf, PolicyIdentity, PolicyKey
  <2>2. QED
    BY <1>8, <2>1
<1>10. \A h, i : ToldApart(h, i, known)
  BY <1>9 DEF ToldApart
<1>11. QED
  BY <1>8, <1>10 DEF known

LEMMA RulesAreValid ==
  ASSUME NEW x
  PROVE  PolicyValid(JagRow(x)) /\ PolicyValid(TargetRow(x, EditorAudience))
<1>1. \A a, b : <<a, b>> # << >>
  OBVIOUS
<1>2. \A a, b, c : <<a, b, c>> # << >>
  OBVIOUS
<1>3. PolicyValid(JagRow(x))
  BY <1>1 DEF PolicyValid, JagRow, JagRule, Policy, PolicyRow
<1>4. PolicyValid(TargetRow(x, EditorAudience))
  BY <1>2 DEF PolicyValid, TargetRow, TargetRule, Policy, PolicyRow
<1>5. QED
  BY <1>3, <1>4

LEMMA CheckedIsValid ==
  ASSUME NEW x, NEW p, PolicyValid(p)
  PROVE  PolicyValid(Checked(x, p))
BY DEF PolicyValid, Checked, PolicyRow

\* The helpers' policies of a page are of roles and resources.
LEMMA KnownAreValid ==
  ASSUME NEW rs, RowsValid(rs)
  PROVE  \A p \in ToSet(PageOf(rs).policies) : p.source = "helper" => PolicyValid(p)
<1> DEFINE g == PageOf(rs)
           X == ToSet(g.requirements)
           X0 == ToSet(Group(rs).requirements)
           W == ToSet(g.policies)
           Q0 == ToSet(Group(rs).policies)
<1>1. PageFacts(rs, X, X0, W, Q0)
  BY PageIs DEF RowsValid
<1>2. \A x \in X0 : OwnPolicies(x) => PoliciesValid(x.policies)
  BY OwnRowFrom
<1> HIDE DEF g, X, X0, W, Q0
<1>3. ASSUME NEW p \in Q0 PROVE PolicyValid(p)
  <2>1. PoliciesMade(Q0, X0)
    BY <1>1 DEF PageFacts
  <2>2. PICK x \in X0 : /\ x.source = "helper" /\ x.policies # None
                        /\ \E s \in ToSet(x.policies) : p = Checked(x, s)
    BY <1>3, <2>1 DEF PoliciesMade
  <2>3. PICK s \in ToSet(x.policies) : p = Checked(x, s)
    BY <2>2
  <2>4. PolicyValid(s)
    BY <1>2, <2>2, <2>3 DEF OwnPolicies, PoliciesValid, ToSet
  <2>5. QED
    BY <2>3, <2>4, CheckedIsValid
<1>4. ASSUME NEW p \in W, p.source = "helper", p \notin Q0 PROVE PolicyValid(p)
  <2>1. EditorAudience # None
    BY <1>1, <1>4 DEF PageFacts
  <2>2. PoliciesResolved(X, X0, W, Q0)
    BY <1>1, <2>1 DEF PageFacts
  <2>3. PICK y \in X : Expected(p, y)
    BY <1>4, <2>2 DEF PoliciesResolved
  <2>4. p = JagRow(y) \/ p = TargetRow(y, EditorAudience)
    BY <1>4, <2>3 DEF Expected, ExpectedFrom
  <2>5. QED
    BY <2>4, RulesAreValid
<1>5. QED
  BY <1>3, <1>4 DEF W, g

\* So are those that a draft shows of a helper, and no two of them are one.
LEMMA ShownAreValid ==
  ASSUME NEW h, h.member # SignedIn,
         h.policies # None => IsSequence(h.policies) /\ PoliciesValid(h.policies),
         NEW i, NEW known, IsSequence(known), ToldApart(h, i, known),
         \A p \in ToSet(known) : p.source = "helper" => PolicyValid(p)
  PROVE  IsSequence(ShownFor(h, i, known)) /\ PoliciesValid(ShownFor(h, i, known))
<1> DEFINE ps == ShownFor(h, i, known)
<1>1. /\ IsSequence(ps)
      /\ \A s \in ToSet(ps) :
           \/ \E q \in OfHelper(h, i, known) : s = AsPolicy(q)
           \/ h.policies # None /\ \E p \in ToSet(h.policies) : s = AsPolicy(p)
  BY ShownPolicies
<1>2. Distinct(ps, PolicyIdentity)
  <2>1. h.policies # None => Distinct(h.policies, PolicyIdentity)
    BY DEF PoliciesValid
  <2>2. QED
    BY <2>1, ShownPolicies
<1> HIDE DEF ps
<1>3. \A q \in OfHelper(h, i, known) : PolicyValid(AsPolicy(q))
  BY AsPolicyIs DEF OfHelper, IsOf
<1>4. h.policies # None => \A p \in ToSet(h.policies) : PolicyValid(AsPolicy(p))
  BY AsPolicyIs DEF PoliciesValid, ToSet
<1>5. \A s \in ToSet(ps) : PolicyValid(s)
  BY <1>1, <1>3, <1>4
<1>6. \A k \in DOMAIN ps : PolicyValid(ps[k])
  BY <1>5 DEF ToSet
<1>7. PoliciesValid(ps)
  BY <1>2, <1>6 DEF PoliciesValid
<1>8. QED
  BY <1>1, <1>7 DEF ps

\* The helpers that are sent are complete and valid.
HelpersSent(hs) ==
  /\ IsSequence(hs) /\ HelpersValid(hs)
  /\ \A k \in DOMAIN hs :
        /\ hs[k].member # "" /\ hs[k].role # NoRole
        /\ \A j \in DOMAIN hs[k].policies : PolicyValid(hs[k].policies[j])
LEMMA SentHelpers ==
  ASSUME NEW hs, HelpersWell(hs), HelpersValid(hs), NEW i, NEW known, IsSequence(known),
         \A h : ToldApart(h, i, known),
         \A p \in ToSet(known) : p.source = "helper" => PolicyValid(p)
  PROVE  HelpersSent([k \in DOMAIN hs |-> ShownHelper(hs[k], i, known)])
<1> DEFINE ss == [k \in DOMAIN hs |-> ShownHelper(hs[k], i, known)]
           n == Len(hs)
<1>1. n \in Nat /\ DOMAIN hs = 1..n /\ \A k \in 1..n : hs[k] \in ToSet(hs)
  BY SequenceIs DEF HelpersWell, HelpersFormed
<1>2. ss = [k \in 1..n |-> ss[k]] /\ \A k \in 1..n : ss[k] = ShownHelper(hs[k], i, known)
  BY <1>1
<1> HIDE DEF ss, n
<1>3. IsSequence(ss) /\ DOMAIN ss = 1..n
  BY <1>1, <1>2, Listed1
<1>4. ASSUME NEW k \in 1..n
      PROVE  /\ ss[k].member = hs[k].member /\ ss[k].role = hs[k].role /\ ss[k].policy = None
             /\ MemberValid(hs[k].member) /\ hs[k].member # SignedIn /\ RoleValid(hs[k].role)
             /\ PoliciesValid(ss[k].policies)
  <2> DEFINE h == hs[k]
  <2>1. /\ MemberValid(h.member) /\ h.member # SignedIn /\ RoleValid(h.role)
        /\ h.policies # None => PoliciesValid(h.policies)
    BY <1>1 DEF HelpersValid
  <2>2. h.policies # None => IsSequence(h.policies)
    BY <1>1 DEF HelpersWell, HelpersFormed
  <2>3. /\ ss[k].member = h.member /\ ss[k].role = h.role /\ ss[k].policy = None
        /\ ss[k].policies = ShownFor(h, i, known)
    BY <1>2 DEF ShownHelper, Helper
  <2> HIDE DEF h
  <2>4. PoliciesValid(ShownFor(h, i, known))
    BY <2>1, <2>2, ShownAreValid
  <2>5. QED
    BY <2>1, <2>3, <2>4 DEF h
<1>5. Distinct(ss, Identity)
  <2>1. Distinct(hs, Identity)
    BY DEF HelpersValid
  <2>2. \A k \in 1..n : Identity(ss[k]) = Identity(hs[k])
    BY <1>4 DEF Identity
  <2>3. QED
    BY <1>1, <1>3, <2>1, <2>2 DEF Distinct
<1>6. HelpersValid(ss)
  BY <1>3, <1>4, <1>5 DEF HelpersValid
<1>7. \A r : RoleValid(r) => r # NoRole
  <2>1. NoRole.domain = ""
    BY DEF NoRole, Role
  <2>2. QED
    BY <2>1, Zenon DEF RoleValid
<1>8. \A k \in DOMAIN ss :
        /\ ss[k].member # "" /\ ss[k].role # NoRole
        /\ \A j \in DOMAIN ss[k].policies : PolicyValid(ss[k].policies[j])
  BY <1>3, <1>4, <1>7 DEF MemberValid, PoliciesValid
<1>9. QED
  BY <1>3, <1>6, <1>8 DEF HelpersSent, ss

LEMMA AskedIs ==
  ASSUME NEW rows
  PROVE  ConfiguredRows(rows, TRUE) = [i \in DOMAIN rows |-> RequirementFor(rows[i])]
<1> DEFINE rs == ConfiguredRows(rows, TRUE)
<1>1. rs = [i \in DOMAIN rows |-> rs[i]]
  BY DEF ConfiguredRows
<1>2. ASSUME NEW i \in DOMAIN rows PROVE rs[i] = RequirementFor(rows[i])
  BY DEF ConfiguredRows, IsSigned, RoleOf, OwnHelpers, RequirementFor, MemberBy, IncludedBy,
         HelpersBy
<1> HIDE DEF rs
<1>3. QED
  BY <1>1, <1>2, Zenon DEF rs

\* The draft of a page, nobody having edited it.
Unedited(rows, rs) ==
  /\ RowsValid(rs) /\ \A i \in 1..Len(rs) : Plain(rs[i])
  /\ rows = DialogRows(PageOf(rs)) /\ DraftWell(rows) /\ ~Entangled(rows)
\* What is sent of it, requirement by requirement.
SentAs(w, q, i, known) ==
  /\ w.member = q.member /\ w.role = q.role /\ StoredAs(w, q, i, known)
  /\ Includes(w) => q.member = SignedIn
  /\ RequirementValid(w)
  /\ w.helpers # None => HelpersSent(w.helpers)

LEMMA SignedIncludes ==
  ASSUME NothingAbsent, NEW q, IsDirectRole(q.role), NEW i, NEW known, Includes(Stored(q, i, known))
  PROVE  q.member = SignedIn
<1> DEFINE row == DialogRowOf(q, i, known)
<1>1. IsSigned(row) <=> q.member = SignedIn
  BY RowOfRequirement
<1> HIDE DEF row
<1>2. RequirementFor(row).include = IncludedBy(row)
  BY RequirementForIs
<1>3. IncludedBy(row) = TRUE
  BY <1>2 DEF Includes, Stored, row
<1>4. IsSigned(row)
  BY <1>3, Zenon DEF IncludedBy, NothingAbsent
<1>5. QED
  BY <1>1, <1>4

LEMMA SentRequirement ==
  ASSUME NothingAbsent, NEW q, RequirementForm(q), RequirementValid(q), Plain(q),
         NEW i, NEW known, IsSequence(known), \A h : ToldApart(h, i, known),
         \A p \in ToSet(known) : p.source = "helper" => PolicyValid(p)
  PROVE  SentAs(Stored(q, i, known), q, i, known)
<1> DEFINE w == Stored(q, i, known)
<1>1. w.member = q.member /\ w.role = q.role /\ StoredAs(w, q, i, known)
  BY StoredRequirement
<1>2. Includes(w) => q.member = SignedIn
  BY SignedIncludes DEF RequirementForm
<1> HIDE DEF w
<1>3. MemberValid(w.member) /\ RoleValid(w.role)
  BY <1>1 DEF RequirementValid
<1>4. CASE w = q /\ q.helpers = None
  BY <1>1, <1>2, <1>4 DEF SentAs, w
<1>5. CASE /\ Includes(q) /\ q.helpers # None /\ Includes(w)
           /\ w.helpers = [k \in DOMAIN q.helpers |-> ShownHelper(q.helpers[k], i, known)]
  <2>1. HelpersWell(q.helpers) /\ HelpersValid(q.helpers)
    BY <1>5 DEF RequirementForm, RequirementValid
  <2> DEFINE hs == q.helpers
  <2> HIDE DEF hs
  <2>2. HelpersSent([k \in DOMAIN hs |-> ShownHelper(hs[k], i, known)])
    BY <2>1, SentHelpers DEF hs
  <2>3. HelpersSent(w.helpers)
    BY <1>5, <2>2 DEF hs
  <2>4. RequirementValid(w)
    BY <1>1, <1>2, <1>3, <1>5, <2>3 DEF RequirementValid, HelpersSent, Includes
  <2>5. QED
    BY <1>1, <1>2, <2>3, <2>4 DEF SentAs, w
<1>6. CASE ~Includes(q) /\ q.helpers = None /\ Includes(w) /\ w.helpers = << >>
  <2>1. HelpersSent(<< >>)
    <3> DEFINE e == << >>
    <3>1. IsSequence(e) /\ DOMAIN e = {}
      BY ShortSequences, Nowhere
    <3> HIDE DEF e
    <3>2. HelpersSent(e)
      BY <3>1 DEF HelpersSent, HelpersValid, Distinct
    <3>3. QED
      BY <3>2 DEF e
  <2>2. HelpersSent(w.helpers)
    BY <1>6, <2>1
  <2>3. RequirementValid(w)
    BY <1>1, <1>2, <1>3, <1>6, <2>2, Zenon DEF RequirementValid, HelpersSent, Includes
  <2>4. QED
    BY <1>1, <1>2, <2>2, <2>3 DEF SentAs, w
<1>7. QED
  BY <1>1, <1>4, <1>5, <1>6 DEF StoredAs

LEMMA SentRows ==
  ASSUME NothingAbsent, NEW rows, NEW rs, Unedited(rows, rs)
  PROVE  LET known == PageOf(rs).policies
             sv == ConfiguredRows(rows, TRUE) IN
         /\ IsSequence(known) /\ Len(rs) \in Nat /\ DOMAIN rows = 1..Len(rs) /\ DOMAIN sv = 1..Len(rs)
         /\ \A i \in 1..Len(rs) : /\ rows[i] = DialogRowOf(rs[i], i, known)
                                  /\ SentAs(sv[i], rs[i], i, known)
<1> DEFINE known == PageOf(rs).policies
           sv == ConfiguredRows(rows, TRUE)
           n == Len(rs)
<1>1. RowsValid(rs) /\ RowsWell(rs)
  BY DEF Unedited, RowsValid
<1>2. rows = [i \in 1..n |-> DialogRowOf(rs[i], i, known)]
  BY <1>1, DialogRowsOf DEF Unedited
<1>3. IsSequence(known)
  BY <1>1, PageIs
<1>4. \A p \in ToSet(known) : p.source = "helper" => PolicyValid(p)
  BY <1>1, KnownAreValid
<1>5. ~Entangled(rows)
  BY DEF Unedited
<1>6. RolesApart(rs)
  <2> HIDE DEF known
  <2>1. QED
    BY <1>1, <1>2, <1>5, RolesAreApart, Zenon
<1>7. \A h, i : ToldApart(h, i, known)
  BY <1>1, <1>6, PoliciesAreApart
<1>8. \A i \in 1..n : RequirementForm(rs[i]) /\ RequirementValid(rs[i]) /\ Plain(rs[i])
  BY <1>1, RowsForms DEF Unedited
<1> HIDE DEF known
<1>9. DOMAIN rows = 1..n /\ \A i \in 1..n : rows[i] = DialogRowOf(rs[i], i, known)
  BY <1>2
<1>10. sv = [i \in DOMAIN rows |-> RequirementFor(rows[i])]
  BY AskedIs, Zenon
<1> HIDE DEF sv
<1>11. DOMAIN sv = 1..n /\ \A i \in 1..n : sv[i] = Stored(rs[i], i, known)
  BY <1>9, <1>10 DEF Stored
<1>12. \A i \in 1..n : SentAs(sv[i], rs[i], i, known)
  BY <1>3, <1>4, <1>7, <1>8, <1>11, SentRequirement
<1>13. n \in Nat
  BY <1>1, RowsForms
<1>14. QED
  BY <1>3, <1>9, <1>11, <1>12, <1>13, Zenon DEF known, sv, n

\* The draft of a page can be saved, and its tool will need what it needs now.
LEMMA UneditedSaves ==
  ASSUME NothingAbsent, NEW rows, NEW rs, Unedited(rows, rs)
  PROVE  LET b == ConfiguredRows(rows, TRUE) IN
         /\ Complete(rows) /\ HelpersComplete(b) /\ RequirementsValid(b)
         /\ Needed(Required(b)) = Needed(PageOf(rs))
         /\ Policies(Required(b)) = Policies(PageOf(rs))
<1> DEFINE known == PageOf(rs).policies
           b == ConfiguredRows(rows, TRUE)
           n == Len(rs)
<1>1. RowsValid(rs) /\ RowsWell(rs) /\ DraftWell(rows)
  BY DEF Unedited, RowsValid
<1>2. /\ IsSequence(known) /\ n \in Nat /\ DOMAIN rows = 1..n /\ DOMAIN b = 1..n
      /\ \A i \in 1..n : rows[i] = DialogRowOf(rs[i], i, known) /\ SentAs(b[i], rs[i], i, known)
  BY SentRows, Zenon
<1>3. /\ \A i \in 1..n : RequirementForm(rs[i]) /\ RequirementValid(rs[i])
      /\ \A i, l \in 1..n : Identity(rs[i]) = Identity(rs[l]) => i = l
  BY <1>1, RowsForms
<1>4. RequirementsFormed(b)
  BY <1>1, ConfiguredWell, Zenon
<1>5. ParsedRequirements(b) = b
  <2>1. ParsedRequirements(ConfiguredRows(rows, TRUE)) = [i \in DOMAIN rows |-> RequirementFor(rows[i])]
    BY StoredIsAsked, Zenon
  <2>2. ConfiguredRows(rows, TRUE) = [i \in DOMAIN rows |-> RequirementFor(rows[i])]
    BY AskedIs, Zenon
  <2>3. QED
    BY <2>1, <2>2, Zenon
<1> HIDE DEF known, b
<1>6. Complete(rows)
  <2>1. ASSUME NEW i \in 1..n
        PROVE  /\ rows[i].audience # "" /\ rows[i].name # "" /\ rows[i].member # ""
    <3>1. /\ rows[i].audience = rs[i].role.domain /\ rows[i].name = rs[i].role.name
          /\ rows[i].member = rs[i].member
      BY <1>2, <1>3, RowOfRequirement DEF RequirementForm
    <3>2. RoleValid(rs[i].role) /\ MemberValid(rs[i].member)
      BY <1>3 DEF RequirementValid
    <3>3. rs[i].role.domain # "" /\ rs[i].role.name # "" /\ rs[i].member # ""
      BY <3>2, Zenon DEF RoleValid, MemberValid
    <3>4. QED
      BY <3>1, <3>3, Zenon
  <2>2. QED
    BY <1>2, <2>1, Zenon DEF Complete
<1>7. HelpersComplete(b)
  <2>1. \A i \in 1..n : b[i].helpers # None => HelpersSent(b[i].helpers)
    BY <1>2 DEF SentAs
  <2>2. QED
    BY <1>2, <2>1 DEF HelpersComplete, HelpersSent
<1>8. RequirementsValid(b)
  <2>1. \A i \in 1..n : RequirementValid(b[i]) /\ Identity(b[i]) = Identity(rs[i])
    BY <1>2 DEF SentAs, Identity
  <2>2. \A i \in DOMAIN b : RequirementValid(b[i])
    BY <1>2, <2>1
  <2>3. Distinct(b, Identity)
    BY <1>2, <1>3, <2>1 DEF Distinct
  <2>4. QED
    BY <2>2, <2>3 DEF RequirementsValid, RequirementValid
<1>9. RowsWell(b)
  BY <1>4, <1>5, <1>8, ParsedRequirementsWell
<1>10. Len(b) = n
  <2>1. Len(b) \in Nat /\ DOMAIN b = 1..Len(b)
    BY <1>4, SequenceIs DEF RequirementsFormed
  <2>2. QED
    BY <1>2, <2>1
<1>11. SavedFrom(rs, b, known)
  BY <1>1, <1>2, <1>9, <1>10 DEF SavedFrom, SentAs
<1>12. Required(b) = PageOf(b)
  BY <1>5, RequiredIs DEF PageOf
<1>13. Needed(Required(b)) = Needed(PageOf(rs)) /\ Policies(Required(b)) = Policies(PageOf(rs))
  BY <1>11, <1>12, SavedNeedsSame DEF known
<1>14. QED
  BY <1>6, <1>7, <1>8, <1>13 DEF b

-----------------------------------------------------------------------------
(* Settings stay valid                                                      *)

LEMMA ParsedHelpersValid ==
  ASSUME NEW hs, HelpersFormed(hs), HelpersValid(hs)
  PROVE  HelpersValid([k \in DOMAIN hs |-> ParsedHelper(hs[k])])
<1> DEFINE ps == [k \in DOMAIN hs |-> ParsedHelper(hs[k])]
<1>1. DOMAIN ps = DOMAIN hs /\ \A k \in DOMAIN hs : ps[k] = ParsedHelper(hs[k])
  OBVIOUS
<1> HIDE DEF ps
<1>2. ASSUME NEW k \in DOMAIN hs
      PROVE  /\ ps[k].member = hs[k].member /\ ps[k].role = hs[k].role /\ ps[k].policy = None
             /\ ps[k].policies # None => PoliciesValid(ps[k].policies)
  <2>1. /\ hs[k].policy = None \/ hs[k].policies = None
        /\ hs[k].policies # None => PoliciesValid(hs[k].policies)
        /\ hs[k].policy # None => PolicyValid(hs[k].policy)
    BY DEF HelpersValid
  <2>2. CASE hs[k].policy = None
    <3>1. ps[k] = hs[k]
      BY <1>1, <2>2, Zenon DEF ParsedHelper
    <3>2. QED
      BY <2>1, <2>2, <3>1
  <2>3. CASE hs[k].policy # None
    <3> DEFINE p == hs[k].policy
               one == <<p>>
    <3>1. ps[k] = Helper(hs[k].member, hs[k].role, one)
      BY <1>1, <2>3 DEF ParsedHelper
    <3>2. DOMAIN one = 1..1 /\ one[1] = p /\ \A j \in 1..1 : j = 1
      OBVIOUS
    <3>3. PolicyValid(p)
      BY <2>1, <2>3
    <3> HIDE DEF one, p
    <3>4. PoliciesValid(one)
      BY <3>2, <3>3 DEF PoliciesValid, Distinct
    <3>5. QED
      BY <3>1, <3>4 DEF Helper
  <2>4. QED
    BY <2>2, <2>3
<1>3. \A k \in DOMAIN hs : MemberValid(hs[k].member) /\ hs[k].member # SignedIn /\ RoleValid(hs[k].role)
  BY DEF HelpersValid
<1>4. Distinct(ps, Identity)
  <2>1. Distinct(hs, Identity)
    BY DEF HelpersValid
  <2>2. \A k \in DOMAIN hs : Identity(ps[k]) = Identity(hs[k])
    BY <1>2 DEF Identity
  <2>3. QED
    BY <1>1, <2>1, <2>2 DEF Distinct
<1>5. HelpersValid(ps)
  BY <1>1, <1>2, <1>3, <1>4 DEF HelpersValid
<1>6. QED
  BY <1>5 DEF ps

\* Requirements that keep their members and roles, each of them valid.
LEMMA ValidFrom ==
  ASSUME NEW rs, RequirementsValid(rs), NEW ps, DOMAIN ps = DOMAIN rs,
         \A i \in DOMAIN rs :
            /\ ps[i].member = rs[i].member /\ ps[i].role = rs[i].role /\ RequirementValid(ps[i])
  PROVE  RequirementsValid(ps)
<1>1. \A i \in DOMAIN rs : Identity(ps[i]) = Identity(rs[i])
  BY DEF Identity
<1>2. Distinct(rs, Identity)
  BY DEF RequirementsValid
<1>3. Distinct(ps, Identity)
  BY <1>1, <1>2 DEF Distinct
<1>4. QED
  BY <1>3 DEF RequirementsValid, RequirementValid

LEMMA OtherHelpersValid ==
  ASSUME NEW q, RequirementValid(q), q.helpers # None, NEW p, p.member = q.member, p.role = q.role,
         p.include = q.include, HelpersValid(p.helpers)
  PROVE  RequirementValid(p)
<1>1. /\ MemberValid(q.member) /\ RoleValid(q.role) /\ q.include = TRUE /\ q.member = SignedIn
  BY DEF RequirementValid
<1>2. MemberValid(p.member) /\ RoleValid(p.role) /\ p.member = SignedIn
  BY <1>1
<1>3. p.include = TRUE
  BY <1>1
<1>4. QED
  BY <1>2, <1>3 DEF RequirementValid

LEMMA ParsedRequirementsValid ==
  ASSUME NEW rs, RequirementsFormed(rs), RequirementsValid(rs)
  PROVE  LET ps == ParsedRequirements(rs) IN
         /\ RequirementsValid(ps) /\ DOMAIN ps = DOMAIN rs
         /\ \A i \in DOMAIN rs : /\ ps[i].member = rs[i].member
                                 /\ rs[i].helpers = None => ps[i] = rs[i]
<1> DEFINE ps == ParsedRequirements(rs)
<1>1. DOMAIN ps = DOMAIN rs
  BY DEF ParsedRequirements
<1>2. ASSUME NEW i \in DOMAIN rs
      PROVE  /\ ps[i].member = rs[i].member /\ ps[i].role = rs[i].role /\ RequirementValid(ps[i])
             /\ rs[i].helpers = None => ps[i] = rs[i]
  <2>1. rs[i] = Requirement(rs[i].member, rs[i].role, rs[i].include, rs[i].helpers)
        /\ (rs[i].helpers # None => HelpersFormed(rs[i].helpers))
    BY SequenceIs DEF RequirementsFormed
  <2>2. RequirementValid(rs[i])
    BY DEF RequirementsValid, RequirementValid
  <2>3. CASE rs[i].helpers = None
    <3>1. ps[i] = rs[i]
      BY <2>3 DEF ParsedRequirements
    <3>2. QED
      BY <2>2, <2>3, <3>1
  <2>4. CASE rs[i].helpers # None
    <3> DEFINE hs == [k \in DOMAIN rs[i].helpers |-> ParsedHelper(rs[i].helpers[k])]
    <3>1. ps[i] = [rs[i] EXCEPT !.helpers = hs]
      BY <2>4 DEF ParsedRequirements
    <3>2. HelpersValid(hs)
      BY <2>1, <2>2, <2>4, ParsedHelpersValid DEF RequirementValid
    <3> HIDE DEF hs
    <3>3. ps[i] = Requirement(rs[i].member, rs[i].role, rs[i].include, hs)
      BY <2>1, <3>1 DEF Requirement
    <3>4. /\ ps[i].member = rs[i].member /\ ps[i].role = rs[i].role
          /\ ps[i].include = rs[i].include /\ ps[i].helpers = hs
      BY <3>3 DEF Requirement
    <3>5. QED
      <4>1. RequirementValid(ps[i])
        BY <2>2, <2>4, <3>2, <3>4, OtherHelpersValid
      <4>2. QED
        BY <2>4, <3>4, <4>1
  <2>5. QED
    BY <2>3, <2>4
<1> HIDE DEF ps
<1>3. RequirementsValid(ps)
  BY <1>1, <1>2, ValidFrom
<1>4. QED
  BY <1>1, <1>2, <1>3 DEF ps

LEMMA ParsedToolValid ==
  ASSUME NEW t, RequirementsFormed(t.requirements),
         t.helpers # None => HelpersFormed(t.helpers), ToolValid(t)
  PROVE  RowsValid(ParsedTool(t))
<1> DEFINE qs == t.requirements
           rs == ParsedRequirements(qs)
           ps == ParsedTool(t)
           hs == IF t.helpers = None THEN None
                 ELSE [k \in DOMAIN t.helpers |-> ParsedHelper(t.helpers[k])]
<1>1. RowsWell(ps)
  BY ParsedToolWell
<1>2. RequirementsValid(qs)
  BY DEF ToolValid
<1>3. /\ RequirementsValid(rs) /\ DOMAIN rs = DOMAIN qs
      /\ \A i \in DOMAIN qs : /\ rs[i].member = qs[i].member
                              /\ qs[i].helpers = None => rs[i] = qs[i]
  BY <1>2, ParsedRequirementsValid
<1>4. hs # None => t.include = TRUE /\ HelpersValid(hs)
  BY ParsedHelpersValid DEF ToolValid
<1> HIDE DEF rs, hs
<1>5. ps = IF ~Legacy(t) THEN rs
           ELSE [i \in DOMAIN rs |->
                   IF rs[i].member # SignedIn THEN rs[i]
                   ELSE [rs[i] EXCEPT !.include = t.include, !.helpers = hs]]
  BY DEF ParsedTool, rs, hs
<1> HIDE DEF ps
<1>6. CASE ~Legacy(t)
  BY <1>1, <1>3, <1>5, <1>6 DEF RowsValid, ps
<1>7. CASE Legacy(t)
  <2>1. DOMAIN ps = DOMAIN rs
    BY <1>5, <1>7
  <2>2. ASSUME NEW i \in DOMAIN rs
        PROVE  /\ ps[i].member = rs[i].member /\ ps[i].role = rs[i].role /\ RequirementValid(ps[i])
    <3>1. RequirementValid(rs[i])
      BY <1>3 DEF RequirementsValid, RequirementValid
    <3>2. CASE rs[i].member # SignedIn
      <4>1. ps[i] = rs[i]
        BY <1>5, <1>7, <3>2
      <4>2. QED
        BY <3>1, <4>1
    <3>3. CASE rs[i].member = SignedIn
      <4>1. ps[i] = [rs[i] EXCEPT !.include = t.include, !.helpers = hs]
        BY <1>5, <1>7, <3>3
      <4>2. qs[i].helpers = None /\ rs[i] = qs[i]
        BY <1>3, <1>7 DEF ToolValid
      <4>3. rs[i] = Requirement(rs[i].member, rs[i].role, rs[i].include, rs[i].helpers)
        BY <1>3, <4>2, SequenceIs DEF RequirementsFormed
      <4>4. ps[i] = Requirement(rs[i].member, rs[i].role, t.include, hs)
        BY <4>1, <4>3, Zenon DEF Requirement
      <4>5. /\ ps[i].member = rs[i].member /\ ps[i].role = rs[i].role
            /\ ps[i].include = t.include /\ ps[i].helpers = hs
        BY <4>4 DEF Requirement
      <4>6. t.include \in {None} \cup BOOLEAN
        BY DEF ToolValid
      <4>7. QED
        BY <1>4, <3>1, <3>3, <4>5, <4>6 DEF RequirementValid
    <3>4. QED
      BY <3>2, <3>3
  <2>3. RequirementsValid(ps)
    BY <1>3, <2>1, <2>2, ValidFrom
  <2>4. QED
    BY <1>1, <2>3 DEF RowsValid, ps
<1>8. QED
  BY <1>6, <1>7

ValidSettings(s) == s # None => \A t \in DOMAIN s.tools : RowsValid(s.tools[t])
PageMade(g) == \E rs : RowsValid(rs) /\ g = PageOf(rs)

LEMMA ParsedValid ==
  ASSUME NEW s, s # None, SettingsFormed(s), SettingsValid(s)
  PROVE  ValidSettings(Parsed(s))
<1>1. DOMAIN Parsed(s).tools = DOMAIN s.tools
      /\ \A t \in DOMAIN s.tools : Parsed(s).tools[t] = ParsedTool(s.tools[t])
  BY DEF Parsed
<1>2. ASSUME NEW t \in DOMAIN s.tools PROVE RowsValid(ParsedTool(s.tools[t]))
  <2>1. RequirementsFormed(s.tools[t].requirements)
        /\ (s.tools[t].helpers # None => HelpersFormed(s.tools[t].helpers))
    BY DEF SettingsFormed
  <2>2. ToolValid(s.tools[t])
    BY DEF SettingsValid
  <2>3. QED
    BY <2>1, <2>2, ParsedToolValid
<1>3. QED
  BY <1>1, <1>2 DEF ValidSettings

LEMMA MergedValid ==
  ASSUME NEW base, NEW over, ValidSettings(base), ValidSettings(over)
  PROVE  ValidSettings(Merged(base, over))
<1>1. CASE base = None \/ over = None
  BY <1>1 DEF Merged
<1>2. CASE base # None /\ over # None
  <2>1. /\ DOMAIN Merged(base, over).tools = DOMAIN base.tools \cup DOMAIN over.tools
        /\ \A t \in DOMAIN base.tools \cup DOMAIN over.tools :
             Merged(base, over).tools[t] = IF t \in DOMAIN over.tools THEN over.tools[t]
                                           ELSE base.tools[t]
    BY <1>2 DEF Merged
  <2>2. QED
    BY <1>2, <2>1 DEF ValidSettings
<1>3. QED
  BY <1>1, <1>2

\* The page of tools that are not listed is that of no requirements.
LEMMA NothingRequired ==
  /\ RowsValid(<< >>)
  /\ EditorScope # << >> =>
       WithOwnAccess(Group(<< >>)) = [requirements |-> ManagedRows(EditorScope), policies |-> << >>]
<1> DEFINE e == << >>
<1>1. IsSequence(e) /\ ToSet(e) = {} /\ DOMAIN e = {}
  BY ShortSequences, Nowhere
<1>2. \A f : f = [k \in {} |-> f[k]] => f = e
  <2>1. 1..0 = {}
    OBVIOUS
  <2>2. QED
    BY <2>1
<1>3. FlattenSeq(e) = e
  <2> DEFINE one == << e >>
  <2>1. \A i \in 1..0 + 1 : IsSequence(one[i])
    BY <1>1
  <2> HIDE DEF one
  <2>2. FlattenSeq(Pre(one, 0)) = << >>
    BY <2>1, FlattenGrows
  <2>3. Pre(one, 0) = << >>
    BY PrefixEnds
  <2>4. QED
    BY <2>2, <2>3
<1>4. \A s : IsSequence(s) => e \o s = s
  BY <1>1, Chained
<1> HIDE DEF e
<1>5. RowsValid(e)
  BY <1>1 DEF RowsValid, RowsWell, RequirementsFormed, RequirementsValid, Distinct
<1>6. Group(e) = [requirements |-> e, policies |-> e]
  <2> DEFINE parts == [i \in DOMAIN e |-> RowsOf(e[i], i)]
             rows == FlattenSeq(parts)
             ps == [k \in DOMAIN rows |-> ConfiguredPolicyRows(rows[k])]
  <2>1. Group(e) = [requirements |-> rows, policies |-> FlattenSeq(ps)]
    BY DEF Group
  <2>2. parts = e
    <3>1. parts = [i \in {} |-> parts[i]]
      BY <1>1
    <3> HIDE DEF parts
    <3>2. QED
      BY <1>2, <3>1
  <2>3. rows = e
    BY <1>3, <2>2
  <2> HIDE DEF rows
  <2>4. ps = e
    <3>1. ps = [i \in {} |-> ps[i]]
      BY <1>1, <2>3
    <3> HIDE DEF ps
    <3>2. QED
      BY <1>2, <3>1
  <2>5. QED
    BY <1>3, <2>1, <2>3, <2>4
<1>7. MergedRows(e, ManagedRows(EditorScope)) = ManagedRows(EditorScope)
  <2> DEFINE m == ManagedRows(EditorScope)
             all == {k \in DOMAIN m : \A i \in DOMAIN e : Identity(e[i]) # Identity(m[k])}
  <2>1. IsSequence(m)
    BY EditorAssumption, ManagedRowsAre
  <2> HIDE DEF m
  <2>2. Kept(m, ToSet(m)) = m
    BY <2>1, KeptAll
  <2>3. all = {k \in DOMAIN m : m[k] \in ToSet(m)}
    BY <1>1 DEF ToSet
  <2>4. Selected(m, all) = m
    BY <2>2, <2>3 DEF Kept
  <2> HIDE DEF all
  <2>5. QED
    BY <1>4, <2>1, <2>4, Zenon DEF MergedRows, m, all
<1>8. EditorScope # << >> =>
        WithOwnAccess(Group(e)) = [requirements |-> ManagedRows(EditorScope), policies |-> e]
  BY <1>6, <1>7 DEF WithOwnAccess
<1>9. QED
  BY <1>5, <1>8 DEF e

LEMMA DefinitionMade ==
  ASSUME NEW settings, ValidSettings(settings),
         NEW k \in DOMAIN Definition(settings, EditorScope, EditorAudience)
  PROVE  PageMade(Definition(settings, EditorScope, EditorAudience)[k])
<1> DEFINE groups == IF settings = None THEN << >>
                     ELSE [t \in DOMAIN settings.tools |-> Group(settings.tools[t])]
           default == IF settings = None THEN None ELSE settings.default
           all == WithManagedAccess(groups, default, EditorScope)
           d == Definition(settings, EditorScope, EditorAudience)
<1>1. d = [g \in DOMAIN all |-> WithExpectedPolicies(all[g], EditorAudience)]
  BY DEF Definition
<1>2. \A t \in DOMAIN groups : \E rs : RowsValid(rs) /\ groups[t] = Group(rs)
  <2>1. CASE settings = None
    BY <2>1, Nowhere
  <2>2. CASE settings # None
    BY <2>2 DEF ValidSettings
  <2>3. QED
    BY <2>1, <2>2
<1> HIDE DEF groups, default
<1>3. \A g \in DOMAIN all : \E rs : RowsValid(rs) /\ all[g] = WithOwnAccess(Group(rs))
  <2>1. CASE EditorScope = << >>
    <3>1. all = groups
      BY <2>1 DEF WithManagedAccess
    <3>2. \A x : WithOwnAccess(x) = x
      BY <2>1 DEF WithOwnAccess
    <3>3. QED
      BY <1>2, <3>1, <3>2
  <2>2. CASE EditorScope # << >>
    <3> SUFFICES ASSUME NEW g \in DOMAIN all
                 PROVE  \E rs : RowsValid(rs) /\ all[g] = WithOwnAccess(Group(rs))
      OBVIOUS
    <3>1. all[g] = IF g \in DOMAIN groups
                   THEN [groups[g] EXCEPT !.requirements = MergedRows(@, ManagedRows(EditorScope))]
                   ELSE [requirements |-> ManagedRows(EditorScope), policies |-> << >>]
      BY <2>2 DEF WithManagedAccess
    <3> HIDE DEF all
    <3>2. CASE g \in DOMAIN groups
      <4>1. all[g] = WithOwnAccess(groups[g])
        BY <2>2, <3>1, <3>2 DEF WithOwnAccess
      <4>2. QED
        BY <1>2, <3>2, <4>1
    <3>3. CASE g \notin DOMAIN groups
      <4>1. all[g] = WithOwnAccess(Group(<< >>))
        BY <2>2, <3>1, <3>3, NothingRequired
      <4>2. RowsValid(<< >>)
        BY NothingRequired
      <4>3. QED
        BY <4>1, <4>2
    <3>4. QED
      BY <3>2, <3>3
  <2>3. QED
    BY <2>1, <2>2
<1> HIDE DEF all
<1>4. k \in DOMAIN all /\ d[k] = WithExpectedPolicies(all[k], EditorAudience)
  BY <1>1
<1>5. PICK rs : RowsValid(rs) /\ all[k] = WithOwnAccess(Group(rs))
  BY <1>3, <1>4
<1>6. d[k] = PageOf(rs)
  BY <1>4, <1>5 DEF PageOf
<1>7. QED
  BY <1>5, <1>6 DEF PageMade, d

LEMMA ShownMade ==
  ASSUME NEW settings, ValidSettings(PresetEntry(preset)), ValidSettings(settings),
         Shown(settings) # None
  PROVE  PageMade(Shown(settings))
<1> DEFINE all == Merged(PresetEntry(preset), settings)
           groups == Definition(all, EditorScope, EditorAudience)
<1>1. ValidSettings(all)
  BY MergedValid
<1> HIDE DEF all
<1>2. \A g \in DOMAIN groups : PageMade(groups[g])
  BY <1>1, DefinitionMade
<1> HIDE DEF groups
<1>3. \/ Edited \in DOMAIN groups /\ Shown(settings) = groups[Edited]
      \/ SharedGroup \in DOMAIN groups /\ Shown(settings) = groups[SharedGroup]
  BY DEF Shown, groups, all
<1>4. QED
  BY <1>2, <1>3

-----------------------------------------------------------------------------
(* A draft that nobody has edited is that of a page, at every step           *)

LEMMA PlainRows ==
  ASSUME NEW rs, RowsValid(rs), ~Legacy1(PageOf(rs)), ~NamesTemplate(PageOf(rs))
  PROVE  \A i \in 1..Len(rs) : Plain(rs[i])
<1> DEFINE g == PageOf(rs)
           X == ToSet(g.requirements)
           X0 == ToSet(Group(rs).requirements)
<1>1. \A x \in X : /\ ~(x.source = "tool" /\ x.configured = SignedIn /\ x.include = None)
                   /\ ~(x.source = "helper" /\ x.configured = TemplateMember)
  BY DEF Legacy1, NamesTemplate, ToSet
<1>2. PageFacts(rs, X, X0, ToSet(g.policies), ToSet(Group(rs).policies))
  BY PageIs DEF RowsValid
<1> HIDE DEF X, X0, g
<1>3. \A i \in 1..Len(rs) : \A x : RowAt(x, rs, i) => x \in X
  BY <1>2 DEF PageFacts
<1>4. \A i \in 1..Len(rs) : RequirementForm(rs[i]) /\ RequirementValid(rs[i])
  BY RowsForms
<1> SUFFICES ASSUME NEW i \in 1..Len(rs) PROVE Plain(rs[i])
  OBVIOUS
<1> DEFINE q == rs[i]
<1>5. q.member = SignedIn => q.include # None
  <2>1. DirectRow(q, i) \in X
    BY <1>3 DEF RowAt
  <2>2. QED
    BY <1>1, <2>1, DirectFields
<1>6. ASSUME q.helpers # None, NEW h \in ToSet(q.helpers)
      PROVE  h.member # TemplateMember
  <2>1. IsSequence(q.helpers)
    BY <1>4, <1>6 DEF RequirementForm, HelpersWell, HelpersFormed
  <2>2. Includes(q)
    BY <1>4, <1>6 DEF RequirementValid, Includes
  <2>3. HelpersFor(q) = q.helpers
    BY <1>6 DEF HelpersFor
  <2> HIDE DEF q
  <2>4. HelperRow(h, i) \in ToSet(HelperPart(q, i))
    BY <1>6, <2>1, <2>2, <2>3, PartElements
  <2>5. HelperRow(h, i) \in X
    BY <1>3, <2>4 DEF RowAt, q
  <2>6. QED
    BY <1>1, <2>5, HelperRowIs
<1>7. QED
  BY <1>5, <1>6 DEF Plain

\* What is stored, and what a save is to be merged with, has been validated;
\* what is shown, and what editing began with, is the page of such settings; and
\* a draft that is clean is that page's.
SettingsKept ==
  /\ ValidSettings(PresetEntry(preset)) /\ ValidSettings(stored)
  /\ \A e \in Editors : put[e].pc = "write" => ValidSettings(put[e].seen)
DisplayMade == display.group # None => PageMade(display.group)
BeganMade ==
  /\ began.group # None => PageMade(began.group)
  /\ dialog.editing /\ began.clean /\ began.group # None => dialog.rows = DialogRows(began.group)
UneditedWell == SettingsKept /\ DisplayMade /\ BeganMade

LEMMA InitUnedited == EditorInit => UneditedWell
<1> SUFFICES ASSUME EditorInit PROVE UneditedWell
  OBVIOUS
<1>1. PICK s \in EditorStarts : preset = s.preset /\ stored = PresetEntry(s.stored)
  BY DEF EditorInit
<1>2. ASSUME NEW x \in {s.preset, s.stored}
      PROVE  ValidSettings(PresetEntry(x))
  <2>1. PresetEntryValid(x) /\ SettingsFormed(x)
    BY EditorAssumption
  <2>2. CASE x = None
    BY <2>2 DEF PresetEntry, ValidSettings
  <2>3. CASE x # None
    <3>1. SettingsValid(x) /\ PresetEntry(x) = Parsed(x)
      BY <2>1, <2>3 DEF PresetEntryValid, PresetEntry
    <3>2. QED
      BY <2>1, <2>3, <3>1, ParsedValid
  <2>4. QED
    BY <2>2, <2>3
<1>3. ValidSettings(PresetEntry(preset)) /\ ValidSettings(stored)
  BY <1>1, <1>2
<1>4. SettingsKept
  <2>1. \A e \in Editors : put[e] = NoPut
    BY DEF EditorInit
  <2>2. NoPut.pc # "write"
    BY DEF NoPut
  <2>3. QED
    BY <1>3, <2>1, <2>2 DEF SettingsKept
<1>5. DisplayMade
  <2>1. display.group = Shown(stored)
    BY DEF EditorInit
  <2>2. QED
    BY <1>3, <2>1, ShownMade DEF DisplayMade
<1>6. BeganMade
  <2>1. dialog.editing = FALSE /\ began.group = None
    BY DEF EditorInit
  <2>2. QED
    BY <2>1 DEF BeganMade
<1>7. QED
  BY <1>4, <1>5, <1>6 DEF UneditedWell

LEMMA SettingsUnmoved == ASSUME SettingsKept, UNCHANGED <<preset, stored, put>> PROVE SettingsKept'
BY DEF SettingsKept
LEMMA DisplayUnmoved == ASSUME DisplayMade, display'.group = display.group PROVE DisplayMade'
BY DEF DisplayMade
LEMMA BeganUnmoved ==
  ASSUME BeganMade, began'.group = began.group, began'.clean => began.clean,
         dialog'.editing = dialog.editing, began'.clean => dialog'.rows = dialog.rows
  PROVE  BeganMade'
BY DEF BeganMade
LEMMA NothingBegan == ASSUME began'.group = None PROVE BeganMade'
BY DEF BeganMade

\* A save that is made or ends has nothing to write yet, or no more.
LEMMA PutElsewhere ==
  ASSUME ServerWell, SettingsKept, NEW e \in Editors, NEW p, p.pc # "write",
         put' = [put EXCEPT ![e] = p], preset' = preset, ValidSettings(stored')
  PROVE  SettingsKept'
<1>1. put = [x \in Editors |-> put[x]]
  BY DEF ServerWell
<1>2. \A x \in Editors : put'[x] = IF x = e THEN p ELSE put[x]
  BY <1>1
<1>3. QED
  BY <1>2 DEF SettingsKept

LEMMA SettledValid ==
  ASSUME ServerWell, SettingsKept, NEW e \in Editors, NEW pc, pc # "write", Settled(e, pc),
         preset' = preset, ValidSettings(stored')
  PROVE  SettingsKept'
<1> DEFINE p == [NoPut EXCEPT !.pc = pc]
<1>1. p.pc = pc
  BY DEF NoPut
<1>2. put' = [put EXCEPT ![e] = p]
  BY DEF Settled
<1> HIDE DEF p
<1>3. QED
  BY <1>1, <1>2, PutElsewhere, Zenon

LEMMA SendsValid ==
  ASSUME ServerWell, SettingsKept, SaveDialog \/ SaveWizard
  PROVE  SettingsKept'
<1>1. PICK e \in Editors : \E p : p.pc = "asked" /\ put' = [put EXCEPT ![e] = p]
  <2>1. NoPut = [pc |-> "idle", tools |-> << >>, default |-> None, seen |-> None]
    BY DEF NoPut
  <2>2. IsPutRecord(NoPut)
    BY <2>1 DEF IsPutRecord
  <2>3. ASSUME SaveDialog
        PROVE  \E e \in Editors : \E p : p.pc = "asked" /\ put' = [put EXCEPT ![e] = p]
    <3> DEFINE p == [NoPut EXCEPT !.pc = "asked", !.tools = ForEdited(Body)]
    <3>1. put' = [put EXCEPT !["dialog"] = p]
      BY <2>3 DEF SaveDialog
    <3>2. ASSUME NEW ts PROVE [NoPut EXCEPT !.pc = "asked", !.tools = ts].pc = "asked"
      BY <2>2, PutTools
    <3>3. p.pc = "asked"
      BY <3>2
    <3> HIDE DEF p
    <3>4. "dialog" \in Editors
      BY DEF Editors
    <3>5. QED
      BY <3>1, <3>3, <3>4, Zenon
  <2>4. ASSUME SaveWizard
        PROVE  \E e \in Editors : \E p : p.pc = "asked" /\ put' = [put EXCEPT ![e] = p]
    <3> DEFINE s == Parsed(WizardSettings(wizard.tools, TRUE, wizard.default))
               p == [NoPut EXCEPT !.pc = "asked", !.tools = s.tools, !.default = s.default]
    <3>1. put' = [put EXCEPT !["wizard"] = p]
      BY <2>4 DEF SaveWizard
    <3> HIDE DEF s
    <3>2. p = [pc |-> "asked", tools |-> s.tools, default |-> s.default, seen |-> NoPut.seen]
      BY <2>2, PutDocument
    <3>3. p.pc = "asked"
      BY <3>2
    <3> HIDE DEF p
    <3>4. "wizard" \in Editors
      BY DEF Editors
    <3>5. QED
      BY <3>1, <3>3, <3>4, Zenon
  <2>5. QED
    BY <2>3, <2>4
<1>2. UNCHANGED <<preset, stored>>
  BY Zenon DEF SaveDialog, SaveWizard
<1>3. ValidSettings(stored')
  BY <1>2 DEF SettingsKept
<1>4. PICK p : p.pc = "asked" /\ put' = [put EXCEPT ![e] = p]
  BY <1>1
<1>5. QED
  BY <1>2, <1>3, <1>4, PutElsewhere, Zenon

LEMMA PutValid ==
  ASSUME ServerWell, SettingsKept, NEW e \in Editors, PutReads(e) \/ PutWrites(e) \/ PutFails(e)
  PROVE  SettingsKept'
<1> DEFINE p == put[e]
<1>1. IsPut(p) /\ ValidSettings(stored)
  BY DEF ServerWell, SettingsKept
<1>2. /\ DOMAIN PutBody(e).tools = DOMAIN p.tools
      /\ \A t \in DOMAIN p.tools : PutBody(e).tools[t] = Tool(p.tools[t])
  BY DEF PutBody
<1>3. CASE PutReads(e)
  <2>1. UNCHANGED <<preset, stored, roles>>
    BY <1>3 DEF PutReads
  <2>2. CASE SettingsValid(PutBody(e))
    <3> DEFINE new == [p EXCEPT !.pc = "write", !.seen = stored]
    <3>1. put' = [put EXCEPT ![e].pc = "write", ![e].seen = stored]
      BY <1>3, <2>2 DEF PutReads
    <3>2. put' = [put EXCEPT ![e] = new]
      BY <3>1, Zenon DEF ServerWell
    <3>3. new = [pc |-> "write", tools |-> p.tools, default |-> p.default, seen |-> stored]
      <4>1. \A pc, seen : [p EXCEPT !.pc = pc, !.seen = seen] =
                            [pc |-> pc, tools |-> p.tools, default |-> p.default, seen |-> seen]
        BY <1>1, PutSeen DEF IsPut, IsPutRecord
      <4>2. QED
        BY <4>1, Zenon
    <3>4. new.seen = stored
      BY <3>3
    <3> HIDE DEF new, p
    <3>5. put = [x \in Editors |-> put[x]]
      BY DEF ServerWell
    <3>6. \A x \in Editors : put'[x] = IF x = e THEN new ELSE put[x]
      BY <3>2, <3>5
    <3>7. QED
      BY <1>1, <2>1, <3>4, <3>6 DEF SettingsKept
  <2>3. CASE ~SettingsValid(PutBody(e))
    <3>1. Settled(e, "refused")
      BY <1>3, <2>3 DEF PutReads
    <3>2. QED
      BY <1>1, <2>1, <3>1, SettledValid
  <2>4. QED
    BY <2>2, <2>3
<1>4. CASE PutWrites(e)
  <2> DEFINE before == IF p.seen = None THEN [default |-> None, tools |-> << >>] ELSE p.seen
             mine == Parsed(PutBody(e))
             over == [default |-> None, tools |-> mine.tools]
  <2>1. /\ p.pc = "write" /\ Settled(e, "saved") /\ UNCHANGED <<preset, roles>>
        /\ stored' = mine \/ stored' = Merged(before, over)
    BY <1>4 DEF PutWrites
  <2>2. /\ ValidSettings(p.seen)
        /\ \A t \in DOMAIN p.tools : RequirementsFormed(p.tools[t]) /\ ToolValid(Tool(p.tools[t]))
    BY <1>1, <2>1 DEF IsPut, SettingsKept
  <2>3. /\ DOMAIN mine.tools = DOMAIN p.tools
        /\ \A t \in DOMAIN p.tools : mine.tools[t] = ParsedTool(Tool(p.tools[t]))
    BY <1>2 DEF Parsed
  <2> HIDE DEF mine
  <2>4. ASSUME NEW t \in DOMAIN mine.tools PROVE RowsValid(mine.tools[t])
    <3>1. Tool(p.tools[t]).requirements = p.tools[t] /\ Tool(p.tools[t]).helpers = None
      BY DEF Tool
    <3>2. RequirementsFormed(Tool(p.tools[t]).requirements) /\ ToolValid(Tool(p.tools[t]))
      BY <2>2, <2>3, <3>1
    <3>3. RowsValid(ParsedTool(Tool(p.tools[t])))
      BY <3>1, <3>2, ParsedToolValid
    <3>4. QED
      BY <2>3, <3>3
  <2>5. ValidSettings(mine) /\ ValidSettings(over)
    BY <2>4 DEF ValidSettings
  <2>6. ValidSettings(before)
    BY <2>2, Nowhere DEF ValidSettings
  <2> HIDE DEF over, before
  <2>7. ValidSettings(stored')
    BY <2>1, <2>5, <2>6, MergedValid
  <2>8. QED
    BY <2>1, <2>7, SettledValid
<1>5. CASE PutFails(e)
  <2>1. Settled(e, "refused") /\ UNCHANGED <<preset, stored, roles>>
    BY <1>5 DEF PutFails
  <2>2. QED
    BY <1>1, <2>1, SettledValid
<1>6. QED
  BY <1>3, <1>4, <1>5

\* Ending and beginning to edit, an edit, and an answer to a lookup.
LEMMA MenusUnedited ==
  ASSUME DialogWell, BeganMade, MenuSteps
  PROVE  BeganMade'
<1>1. PICK i \in DOMAIN selects :
        (\E force \in BOOLEAN : OpenMenu(i, force)) \/ RolesAnswered(i) \/ RolesFailed(i)
  BY DEF MenuSteps
<1>2. CASE (\E force \in BOOLEAN : OpenMenu(i, force)) \/ RolesFailed(i)
  <2>1. UNCHANGED <<dialog, began>>
    BY <1>2 DEF OpenMenu, RolesFailed
  <2>2. QED
    BY <2>1, BeganUnmoved
<1>3. CASE RolesAnswered(i)
  <2> DEFINE names == SelectableNames(selects[i].asked)
             gone == dialog.rows[i].name \notin names \cup {""}
             rows == IF gone THEN [dialog.rows EXCEPT ![i].name = ""] ELSE dialog.rows
  <2>1. dialog' = [dialog EXCEPT !.rows = rows] /\ began' = [began EXCEPT !.clean = @ /\ ~gone]
    BY <1>3 DEF RolesAnswered
  <2>2. ~gone => rows = dialog.rows
    OBVIOUS
  <2> HIDE DEF gone, rows
  <2>3. /\ dialog'.rows = rows /\ dialog'.editing = dialog.editing
        /\ began'.group = began.group /\ (began'.clean => began.clean /\ ~gone)
    BY <2>1, Zenon DEF DialogWell, DialogForm
  <2>4. QED
    BY <2>2, <2>3, BeganUnmoved
<1>4. QED
  BY <1>1, <1>2, <1>3

LEMMA EditsUnedited ==
  ASSUME DialogWell, BeganMade, DialogEdits
  PROVE  BeganMade'
<1>1. PICK rows : Edit(rows)
  BY EditsAre
<1>2. dialog' = [dialog EXCEPT !.rows = rows] /\ began' = [began EXCEPT !.clean = FALSE]
  BY <1>1 DEF Edit, Draft
<1>3. dialog'.editing = dialog.editing /\ began'.group = began.group /\ ~began'.clean
  BY <1>2 DEF DialogWell, DialogForm
<1>4. QED
  BY <1>3, BeganUnmoved

LEMMA BeginsUnedited ==
  ASSUME DialogWell, DisplayMade, BeginEditing
  PROVE  BeganMade'
<1> DEFINE rows == IF display.group = None THEN << EmptyRow >> ELSE DialogRows(display.group)
<1>1. /\ dialog' = [dialog EXCEPT !.editing = TRUE, !.rows = rows]
      /\ began' = [group |-> display.group, clean |-> TRUE]
  BY DEF BeginEditing
<1>2. "rows" \in DOMAIN dialog
  BY DEF DialogWell, DialogForm
<1> HIDE DEF rows
<1>3. dialog'.rows = rows /\ began'.group = display.group
  BY <1>1, <1>2
<1>4. QED
  BY <1>3 DEF BeganMade, DisplayMade, rows

LEMMA AnswerUnedited ==
  ASSUME DialogWell, DisplayMade, DisplayWell, BeganMade, DialogAnswered
  PROVE  BeganMade' /\ DisplayMade'
<1>1. PICK saving, loading :
        \/ /\ NotEditing([dialog EXCEPT !.saving = saving])
           /\ display' = [display EXCEPT !.loading = loading]
        \/ dialog' = [dialog EXCEPT !.saving = saving] /\ UNCHANGED <<selects, began, display>>
  BY Zenon DEF DialogAnswered
<1>2. CASE NotEditing([dialog EXCEPT !.saving = saving])
           /\ display' = [display EXCEPT !.loading = loading]
  <2>1. began'.group = None
    BY <1>2 DEF NotEditing
  <2>2. display'.group = display.group
    BY <1>2 DEF DisplayWell
  <2>3. QED
    BY <2>1, <2>2, NothingBegan, DisplayUnmoved
<1>3. CASE dialog' = [dialog EXCEPT !.saving = saving] /\ UNCHANGED <<selects, began, display>>
  <2>1. dialog'.rows = dialog.rows /\ dialog'.editing = dialog.editing
    BY <1>3 DEF DialogWell, DialogForm
  <2>2. QED
    BY <1>3, <2>1, BeganUnmoved, DisplayUnmoved
<1>4. QED
  BY <1>1, <1>2, <1>3

LEMMA ReadsMade ==
  ASSUME SettingsKept, DisplayWell, DisplayMade, RefreshPage \/ Load
  PROVE  DisplayMade'
<1>1. CASE RefreshPage
  <2>1. display'.group = display.group
    BY <1>1 DEF RefreshPage, DisplayWell
  <2>2. QED
    BY <2>1, DisplayUnmoved
<1>2. CASE Load
  <2>1. display'.group = None \/ display'.group = Shown(stored)
    BY <1>2 DEF Load
  <2>2. Shown(stored) # None => PageMade(Shown(stored))
    BY ShownMade DEF SettingsKept
  <2>3. QED
    BY <2>1, <2>2 DEF DisplayMade
<1>3. QED
  BY <1>1, <1>2

LEMMA UneditedKeeps == EditorWell /\ UneditedWell /\ [EditorNext]_editorVars => UneditedWell'
<1> SUFFICES ASSUME EditorWell, UneditedWell, [EditorNext]_editorVars PROVE UneditedWell'
  OBVIOUS
<1>1. ServerWell /\ DisplayWell /\ DialogWell /\ WizardWell
  BY DEF EditorWell, DialogWell
<1>2. SettingsKept /\ DisplayMade /\ BeganMade
  BY DEF UneditedWell
<1>3. ASSUME UNCHANGED <<server, display, dialog, began>>
      PROVE  UneditedWell'
  BY <1>2, <1>3, SettingsUnmoved, DisplayUnmoved, BeganUnmoved DEF server, UneditedWell
<1>4. ASSUME UNCHANGED <<server, display>>, BeganMade'
      PROVE  UneditedWell'
  BY <1>2, <1>4, SettingsUnmoved, DisplayUnmoved DEF server, UneditedWell
<1>5. CASE UNCHANGED editorVars
  BY <1>3, <1>5 DEF editorVars, server
<1>6. CASE EditorNext
  <2>1. CASE RefreshPage \/ Load
    <3>1. UNCHANGED <<server, dialog, began>>
      BY <2>1 DEF RefreshPage, Load
    <3>2. DisplayMade'
      BY <1>1, <1>2, <2>1, ReadsMade
    <3>3. QED
      BY <1>2, <3>1, <3>2, SettingsUnmoved, BeganUnmoved DEF server, UneditedWell
  <2>2. CASE OpenDialog \/ CloseDialog \/ CancelEditing
    <3>1. UNCHANGED <<server, display>> /\ began'.group = None
      BY <2>2 DEF OpenDialog, CloseDialog, CancelEditing, NotEditing
    <3>2. QED
      BY <1>4, <3>1, NothingBegan
  <2>3. CASE MenuSteps
    BY <1>1, <1>2, <1>4, <2>3, MenusUnedited, MenuKeeps
  <2>4. CASE BeginEditing
    <3>1. UNCHANGED <<server, display>>
      BY <2>4 DEF BeginEditing
    <3>2. QED
      BY <1>1, <1>2, <1>4, <2>4, <3>1, BeginsUnedited
  <2>5. CASE DialogEdits
    <3>1. UNCHANGED <<server, display>>
      BY <2>5, EditsAre, EditFrame
    <3>2. QED
      BY <1>1, <1>2, <1>4, <2>5, <3>1, EditsUnedited
  <2>6. CASE OpenWizard \/ LeaveWizard \/ WizardEdits
    <3>1. UNCHANGED <<server, display, dialog, began>>
      BY <1>1, <2>6, WizardKeeps DEF WizardEdits
    <3>2. QED
      BY <1>3, <3>1
  <2>7. CASE SaveDialog \/ SaveWizard
    <3>1. SettingsKept'
      BY <1>1, <1>2, <2>7, SendsValid
    <3>2. UNCHANGED <<display, began>>
      BY <2>7, Zenon DEF SaveDialog, SaveWizard
    <3>3. dialog' = dialog \/ dialog' = [dialog EXCEPT !.saving = TRUE]
      BY <2>7, Zenon DEF SaveDialog, SaveWizard
    <3>4. dialog'.rows = dialog.rows /\ dialog'.editing = dialog.editing
      BY <1>1, <3>3 DEF DialogWell, DialogForm
    <3>5. QED
      BY <1>2, <3>1, <3>2, <3>4, DisplayUnmoved, BeganUnmoved DEF UneditedWell
  <2>8. CASE DialogAnswered
    <3>1. BeganMade' /\ DisplayMade'
      BY <1>1, <1>2, <2>8, AnswerUnedited
    <3>2. "dialog" \in Editors /\ Settled("dialog", "idle") /\ UNCHANGED <<preset, stored>>
      BY <2>8 DEF DialogAnswered, Editors
    <3>3. SettingsKept'
      BY <1>1, <1>2, <3>2, SettledValid DEF SettingsKept
    <3>4. QED
      BY <3>1, <3>3 DEF UneditedWell
  <2>9. CASE WizardAnswered
    <3>1. /\ "wizard" \in Editors /\ Settled("wizard", "idle")
          /\ UNCHANGED <<preset, stored, display, dialog, began>>
      BY <2>9 DEF WizardAnswered, Editors
    <3>2. SettingsKept'
      BY <1>1, <1>2, <3>1, SettledValid DEF SettingsKept
    <3>3. QED
      BY <1>2, <3>1, <3>2, DisplayUnmoved, BeganUnmoved DEF UneditedWell
  <2>10. CASE \E e \in Editors : PutReads(e) \/ PutWrites(e) \/ PutFails(e)
    <3>1. UNCHANGED <<display, dialog, began>>
      BY <2>10 DEF PutReads, PutWrites, PutFails
    <3>2. SettingsKept'
      BY <1>1, <1>2, <2>10, PutValid
    <3>3. QED
      BY <1>2, <3>1, <3>2, DisplayUnmoved, BeganUnmoved DEF UneditedWell
  <2>11. CASE RoleChanges
    <3>1. UNCHANGED <<preset, stored, put, display, dialog, began>>
      BY <2>11 DEF RoleChanges
    <3>2. QED
      BY <1>2, <3>1, SettingsUnmoved, DisplayUnmoved, BeganUnmoved DEF UneditedWell
  <2>12. QED
    BY <1>6, <2>1, <2>2, <2>3, <2>4, <2>5, <2>6, <2>7, <2>8, <2>9, <2>10, <2>11, EditorSteps
<1>7. QED
  BY <1>5, <1>6

LEMMA UneditedIsNeutral ==
  ASSUME NothingAbsent, EditorWell, UneditedWell
  PROVE  UnchangedIsNeutral
<1> SUFFICES ASSUME dialog.editing, began.clean, began.group # None, ~Legacy1(began.group),
                    ~NamesTemplate(began.group), ~Entangled(dialog.rows)
             PROVE  /\ CanSave
                    /\ Needed(Required(Body)) = Needed(began.group)
                    /\ Policies(Required(Body)) = Policies(began.group)
  BY DEF UnchangedIsNeutral
<1>1. PageMade(began.group) /\ dialog.rows = DialogRows(began.group)
  BY DEF UneditedWell, BeganMade
<1>2. PICK rs : RowsValid(rs) /\ began.group = PageOf(rs)
  BY <1>1 DEF PageMade
<1>3. \A i \in 1..Len(rs) : Plain(rs[i])
  BY <1>2, PlainRows
<1>4. DraftWell(dialog.rows)
  BY DEF EditorWell, DialogDraft
<1>5. Unedited(dialog.rows, rs)
  BY <1>1, <1>2, <1>3, <1>4 DEF Unedited
<1>6. QED
  BY <1>2, <1>5, UneditedSaves, Zenon DEF CanSave, Body

\* To save a draft that nobody has edited is not refused, and leaves the tool
\* with the memberships and the policies that the page showed when editing began:
\* the draft that is made of the page, the requirements made of the draft, what
\* the server parses of them and the page that it resolves of that agree with the
\* first page, whoever saved what meanwhile (PermissionRequestDialog.tsx,
\* permissionPreset.ts).
THEOREM EditorSavesUnchanged ==
  ASSUME NothingAbsent
  PROVE  EditorSpec => []UnchangedIsNeutral
<1>1. EditorInit => EditorWell /\ UneditedWell
  BY InitEditor, InitUnedited
<1>2. EditorWell /\ UneditedWell /\ [EditorNext]_editorVars => (EditorWell /\ UneditedWell)'
  BY EditorKeeps, UneditedKeeps
<1>3. EditorWell /\ UneditedWell => UnchangedIsNeutral
  BY UneditedIsNeutral
<1>4. QED
  BY <1>1, <1>2, <1>3, PTL DEF EditorSpec

=============================================================================
