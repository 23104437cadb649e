----------------------- MODULE HubRegistration_proofs -----------------------
(***************************************************************************)
(* Proofs about HubRegistration: what runs has what it names, a running    *)
(* identity has its key registered, a refusal changed nothing, and what    *)
(* succeeds is complete.                                                   *)
(***************************************************************************)
EXTENDS HubRegistration, SequenceTheorems, TLAPS

Docs == {"env", "identity", "deployment", "service"}

Configuration ==
  [access : {"hub", "server"}, identity : BOOLEAN, env : BOOLEAN, scoped : BOOLEAN,
   tools : [Tools -> {None} \cup Audiences]]

\* Where a request of each kind can be until it ends.
Stages(kind) ==
  CASE kind = "create" -> {"routes", "collision", "dryrun", "template", "check", "put",
                           "verify", "checkkey", "verifykey", "provider", "trust", "create"}
    [] kind = "update" -> {"read", "template", "check", "put", "verify", "trust", "reread",
                           "secret", "dryupdate", "applysecret", "patch", "patchservice"}
    [] kind = "delete" -> {"read", "find", "remove", "gone", "redelete", "unload"}
    [] kind = "tool"   -> {"read", "check", "put", "verify", "patchtool"}
    [] kind = "access" -> {"read", "template", "check", "put", "verify", "reconcile"}

Kinds == {"create", "update", "delete", "tool", "access"}

\* A request that asks ZMS for one thing after the other, and one that creates
\* or deletes documents.
Asking == {"template", "check", "put", "verify", "find", "remove", "gone"}
Listing == {"create", "unload"}

\* A request that is at pc and has todo to do: what it can have to do depends on
\* where it is.
Request(pc, todo) ==
  [pc : {pc},
   kind : Kinds \cup {None}, server : Servers \cup {<<None, None>>},
   access : {"hub", "server"}, env : {"none", "new", "keep"},
   tool : Tools \cup {None}, tools : [Tools -> {None} \cup Audiences],
   user : Users \cup {None}, seen : Configuration,
   todo : {todo}, sources : SUBSET Facts,
   found : BOOLEAN, error : BOOLEAN]

Live(r) == r.pc \notin {"idle"} \cup Final

RequestOK(r) ==
  /\ r \in Request(r.pc, r.todo)
  /\ r.pc # "idle" => r.server \in Servers
  /\ Live(r) => r.kind \in Kinds /\ r.pc \in Stages(r.kind)
  /\ r.pc \in Asking => r.todo \in Seq(SUBSET Facts) /\ r.todo # << >>
  /\ r.pc \in Listing => r.todo \in Seq(Docs) /\ r.todo # << >>
  /\ r.kind = "create" => r.env # "keep"
  /\ r.kind = "access" => r.user \in Users

\* The types of the variables.
StoresOK ==
  /\ objects \in [Servers -> SUBSET Docs]
  /\ deployed \in [Servers -> Configuration]
  /\ bootstrap \in [Servers -> Ops \cup {None}]
  /\ publicKey \in [Servers -> Ops \cup {None}]
  /\ zms \in [Servers -> SUBSET Facts]

Shape == StoresOK /\ DOMAIN op = Ops /\ \A o \in Ops : RequestOK(op[o])

\* Requests for one server that overlap are on record.
Overlaps ==
  \A o, p \in Ops :
    (o # p /\ Live(op[o]) /\ Live(op[p]) /\ op[o].server = op[p].server) =>
      /\ op[o].kind = "create" /\ op[p].kind = "create" => op[o].server \in raced
      /\ op[o].kind = "delete" => op[o].server \in contended

-----------------------------------------------------------------------------
(* What a request knows of ZMS *)

Helpers == {Helper(a) : a \in Audiences}

\* The fact x is in one of the sets of a list.
Within(x, list) == \E i \in 1..Len(list) : x \in list[i]

\* A creation or a request for access is past the template.
Templated(r) ==
  /\ (r.kind = "create" /\ r.access = "hub") \/ r.kind = "access"
  /\ r.pc \in {"check", "put", "verify", "checkkey", "verifykey", "provider", "trust",
               "create", "reconcile"}

NeededFor(r) == {Member("accessor", r.user)} \cup {Helper(a) : a \in Preset \cap Helped}

\* What ZMS holds for the server of a request, facts, fits the request.
ZmsFits(r, facts) ==
  /\ Templated(r) => TemplateFacts \subseteq facts
  /\ r.kind = "access" /\ r.pc \in {"template", "check", "put", "verify"} =>
       \A f \in NeededFor(r) : f \in facts \/ Within(f, r.todo)
  /\ r.kind = "access" /\ r.pc = "reconcile" => NeededFor(r) \subseteq facts
  /\ r.kind = "delete" /\ r.access = "hub" /\ r.pc \in {"find", "remove", "gone"} =>
       \A f \in facts : f \in Helpers \/ Within(f, r.todo)
  /\ r.kind = "delete" /\ r.access = "hub" /\ r.pc \in {"redelete", "unload"} =>
       facts \subseteq Helpers

ZmsKnown(o) ==
  Live(op[o]) /\ op[o].server \notin contended => ZmsFits(op[o], zms[op[o].server])

-----------------------------------------------------------------------------
(* What a request knows of the Kubernetes objects *)

Listed(d, list) == \E i \in 1..Len(list) : list[i] = d

\* The document d comes no later than the Deployment.
Precedes(list, objs, d) ==
  \A i \in 1..Len(list) : list[i] = "deployment" =>
    d \in objs \/ \E j \in 1..(i - 1) : list[j] = d

\* The objects of the server, objs, fit the request.
ObjectsFit(r, objs) ==
  /\ r.pc = "create" =>
       /\ r.env = "new" => Precedes(r.todo, objs, "env")
       /\ r.access = "hub" => Precedes(r.todo, objs, "identity")
  /\ r.pc \in {"secret", "dryupdate", "applysecret", "patch"} =>
       /\ "deployment" \in objs
       /\ r.env = "keep" => "env" \in objs
       /\ r.seen.identity => "identity" \in objs
  /\ r.pc = "patch" /\ r.env = "new" => "env" \in objs
  /\ r.pc = "unload" =>
       /\ r.todo[1] = "deployment" \/ "deployment" \notin objs
       /\ \A d \in objs : d = "identity" \/ Listed(d, r.todo)

ObjectsKnown(o) ==
  Live(op[o]) /\ op[o].server \notin contended => ObjectsFit(op[o], objects[op[o].server])

-----------------------------------------------------------------------------
(* What a creation and an update know of the keys *)

Calm == Servers \ (raced \cup contended)

Prepared(s) == {s[1]} \X {"provider", "ca"} \subseteq prepared

\* Documents to create: none twice, the Deployment after what it names.
Ordered(list) ==
  /\ \A i, j \in 1..Len(list) : list[i] = list[j] => i = j
  /\ \A i \in 1..Len(list) : list[i] \in {"env", "identity"} =>
        \E j \in (i + 1)..Len(list) : list[j] = "deployment"

NoneThere(list, objs) == \A i \in 1..Len(list) : list[i] \notin objs

\* No document that a creation still has to create is there, and one that
\* generated a key has registered it before.
CreationFits(o) ==
  LET r == op[o]
      s == r.server IN
  /\ r.kind = "create" => ~r.error
  /\ r.pc \in {"collision", "dryrun"} => ~Has(s, "deployment")
  /\ r.kind = "create" /\ r.pc \in {"template", "check", "put", "verify", "checkkey",
                                    "verifykey", "provider", "trust"} =>
       NoneThere(Manifest(o), objects[s])
  /\ r.pc = "create" => NoneThere(r.todo, objects[s]) /\ Ordered(r.todo)
  /\ r.kind = "create" /\ r.access = "hub" =>
       /\ r.pc \in {"provider", "trust", "create"} => publicKey[s] = o
       /\ r.pc \in {"trust", "create"} => <<s[1], "provider">> \in prepared
       /\ r.pc = "create" =>
            /\ <<s[1], "ca">> \in prepared
            /\ bootstrap[s] = o \/ Listed("identity", r.todo)

UpdateFits(o) ==
  LET r == op[o] IN
  r.pc \in {"secret", "dryupdate", "applysecret", "patch"} /\ r.seen.identity =>
    publicKey[r.server] = bootstrap[r.server] /\ Prepared(r.server)

KeysKnown(o) ==
  Live(op[o]) /\ op[o].server \in Calm => CreationFits(o) /\ UpdateFits(o)

\* A request that has not come past the dry run has no key anywhere, and one
\* that was refused has none on its server.
Keyless(o) ==
  /\ op[o].pc \in {"idle", "routes", "collision", "dryrun"} =>
       \A s \in Servers : publicKey[s] # o /\ bootstrap[s] # o
  /\ op[o].pc = "conflict" /\ op[o].server \in Calm =>
       publicKey[op[o].server] # o /\ bootstrap[op[o].server] # o

Knows(o) == ZmsKnown(o) /\ ObjectsKnown(o) /\ KeysKnown(o) /\ Keyless(o)

\* What the requests know holds until they end.
IInv ==
  /\ Shape /\ Overlaps /\ \A o \in Ops : Knows(o)
  /\ ReferencesResolve /\ KeyRegistered

-----------------------------------------------------------------------------
(* Lists of things to do *)

LEMMA ConcatList ==
  ASSUME NEW S, NEW s \in Seq(S), NEW t \in Seq(S), NEW x
  PROVE  /\ s \o t \in Seq(S)
         /\ t # << >> => s \o t # << >>
         /\ s # << >> => s \o t # << >>
         /\ Within(x, s) \/ Within(x, t) => Within(x, s \o t)
<1>1. /\ s \o t \in Seq(S) /\ Len(s \o t) = Len(s) + Len(t)
      /\ \A i \in 1..Len(s) : (s \o t)[i] = s[i]
      /\ \A i \in 1..Len(t) : (s \o t)[Len(s) + i] = t[i]
      /\ Len(s) \in Nat /\ Len(t) \in Nat
  OBVIOUS
<1>2. /\ s # << >> => Len(s) > 0
      /\ t # << >> => Len(t) > 0
  OBVIOUS
<1>3. s \o t = << >> => Len(s \o t) = 0
  OBVIOUS
<1>4. Within(x, s) => Within(x, s \o t)
  BY <1>1 DEF Within
<1>5. Within(x, t) => Within(x, s \o t)
  <2>1. \A i \in 1..Len(t) : Len(s) + i \in 1..Len(s \o t)
    BY <1>1
  <2>2. QED
    BY <1>1, <2>1 DEF Within
<1>6. QED
  BY <1>1, <1>2, <1>3, <1>4, <1>5

LEMMA TailList ==
  ASSUME NEW S, NEW s \in Seq(S), s # << >>
  PROVE  /\ Head(s) \in S /\ Head(s) = s[1] /\ Len(s) \in Nat \ {0}
         /\ Tail(s) \in Seq(S) /\ Len(Tail(s)) = Len(s) - 1
         /\ \A i \in 1..Len(s) - 1 : Tail(s)[i] = s[i + 1]
         /\ Len(s) # 1 => Tail(s) # << >>
<1>1. Len(s) \in Nat \ {0} /\ Head(s) = s[1] /\ Head(s) \in S
  OBVIOUS
<1>2. /\ Tail(s) \in Seq(S) /\ Len(Tail(s)) = Len(s) - 1
      /\ \A i \in 1..Len(s) - 1 : Tail(s)[i] = s[i + 1]
  BY HeadTailProperties
<1>3. Len(s) # 1 => Tail(s) # << >>
  <2> DEFINE t == Tail(s)
  <2>1. Len(t) = Len(s) - 1
    BY <1>2
  <2> HIDE DEF t
  <2>2. t = << >> => Len(s) = 1
    BY <1>1, <2>1
  <2>3. QED
    BY <2>2 DEF t
<1>4. QED
  BY <1>1, <1>2, <1>3

\* What is within a list is in its head or within its tail.
LEMMA TailWithin ==
  ASSUME NEW S, NEW s \in Seq(S), s # << >>, NEW x, Within(x, s)
  PROVE  x \in Head(s) \/ (Len(s) # 1 /\ Within(x, Tail(s)))
<1>1. PICK i \in 1..Len(s) : x \in s[i]
  BY DEF Within
<1>2. CASE i = 1
  BY <1>1, <1>2, TailList
<1>3. CASE i # 1
  <2>1. i - 1 \in 1..Len(s) - 1 /\ (i - 1) + 1 = i /\ Len(s) # 1
    BY <1>1, <1>3, TailList
  <2>2. x \in Tail(s)[i - 1]
    BY <1>1, <2>1, TailList
  <2>3. QED
    BY <2>1, <2>2, TailList DEF Within
<1>4. QED
  BY <1>2, <1>3

LEMMA FactKinds ==
  /\ \A r \in Roles : Role(r) \in Facts
  /\ Jag \in Facts
  /\ \A a \in Audiences : Source(a) \in Facts /\ Helper(a) \in Facts
  /\ \A u \in Users : Member("accessor", u) \in Facts
  /\ Member("exchanger", Gateway) \in Facts /\ Member("source", Service) \in Facts
  /\ {"accessor", "exchanger", "source"} \subseteq Roles
BY DEF Facts, Roles

LEMMA FactsShape ==
  \A f \in Facts : f \in Helpers \/ Within(f, Entities)
<1> SUFFICES ASSUME NEW f \in Facts, f \notin Helpers PROVE Within(f, Entities)
  OBVIOUS
<1>1. /\ Len(Entities) = 5 /\ Entities[1] = JagPolicy /\ Entities[2] = SourcePolicy
      /\ Entities[3] = RoleFacts("exchanger") /\ Entities[4] = RoleFacts("source")
      /\ Entities[5] = RoleFacts("accessor")
  BY DEF Entities
<1>2. \/ f \in JagPolicy \/ f \in SourcePolicy \/ f \in RoleFacts("exchanger")
      \/ f \in RoleFacts("source") \/ f \in RoleFacts("accessor")
  BY DEF Facts, Helpers, JagPolicy, SourcePolicy, RoleFacts, Roles, Member
<1>3. QED
  BY <1>1, <1>2 DEF Within

LEMMA EntitiesList == Entities \in Seq(SUBSET Facts) /\ Entities # << >>
<1>1. /\ JagPolicy \in SUBSET Facts /\ SourcePolicy \in SUBSET Facts
      /\ \A r : RoleFacts(r) \in SUBSET Facts
  BY DEF Facts, JagPolicy, SourcePolicy, RoleFacts
<1>2. QED
  BY <1>1 DEF Entities

LEMMA AudiencesOfTools ==
  \A tools \in [Tools -> {None} \cup Audiences] : AudiencesOf(tools) \subseteq Audiences
BY DEF AudiencesOf

LEMMA ManagedList == ManagedAccess \in Seq(SUBSET Facts) /\ ManagedAccess # << >>
<1>1. /\ {Role("accessor")} \in SUBSET Facts /\ {Role("exchanger")} \in SUBSET Facts
      /\ {Role("source")} \in SUBSET Facts /\ {Jag} \in SUBSET Facts
      /\ {Member("exchanger", Gateway)} \in SUBSET Facts
      /\ {Member("source", Service)} \in SUBSET Facts
  BY FactKinds
<1>2. QED
  BY <1>1 DEF ManagedAccess

LEMMA SourceList ==
  ASSUME NEW auds \in SUBSET Audiences
  PROVE  /\ SourceAccess(auds) \in Seq(SUBSET Facts)
         /\ auds # {} => SourceAccess(auds) # << >>
<1>1. /\ {Role("source")} \in SUBSET Facts /\ {Member("source", Service)} \in SUBSET Facts
      /\ {Source(a) : a \in auds} \in SUBSET Facts
  BY FactKinds
<1>2. QED
  <2>1. CASE auds = {}
    BY <2>1 DEF SourceAccess
  <2>2. CASE auds # {}
    <3>1. SourceAccess(auds) = << {Role("source")}, {Member("source", Service)},
                                  {Source(a) : a \in auds} >>
      BY <2>2 DEF SourceAccess
    <3>2. QED
      BY <1>1, <3>1
  <2>3. QED
    BY <2>1, <2>2

LEMMA HelperList ==
  ASSUME NEW auds \in SUBSET Audiences
  PROVE  /\ HelperAccess(auds) \in Seq(SUBSET Facts)
         /\ \A a \in auds \cap Helped : Within(Helper(a), HelperAccess(auds))
<1>1. {Helper(a) : a \in auds \cap Helped} \in SUBSET Facts
  BY FactKinds
<1>2. CASE auds \cap Helped = {}
  BY <1>2 DEF HelperAccess
<1>3. CASE auds \cap Helped # {}
  <2>1. HelperAccess(auds) = << {Helper(a) : a \in auds \cap Helped} >>
    BY <1>3 DEF HelperAccess
  <2>2. QED
    BY <1>1, <2>1 DEF Within
<1>4. QED
  BY <1>2, <1>3

LEMMA MemberList ==
  ASSUME NEW u \in Users
  PROVE  /\ AccessorMember(u) \in Seq(SUBSET Facts)
         /\ Within(Member("accessor", u), AccessorMember(u))
<1>1. {Role("accessor")} \in SUBSET Facts /\ {Member("accessor", u)} \in SUBSET Facts
  BY FactKinds
<1>2. /\ AccessorMember(u) \in Seq(SUBSET Facts) /\ Len(AccessorMember(u)) = 2
      /\ AccessorMember(u)[2] = {Member("accessor", u)}
  BY <1>1 DEF AccessorMember
<1>3. QED
  BY <1>2 DEF Within

\* A request for access has all that its user needs on its list.
LEMMA ProvisioningList ==
  ASSUME NEW o \in Ops, NEW auds \in SUBSET Audiences,
         op[o].kind = "access" => op[o].user \in Users
  PROVE  /\ Provisioning(o, auds) \in Seq(SUBSET Facts) /\ Provisioning(o, auds) # << >>
         /\ op[o].kind = "access" /\ Preset \subseteq auds =>
              \A f \in NeededFor(op[o]) : Within(f, Provisioning(o, auds))
<1> DEFINE S == SUBSET Facts
           A == ManagedAccess
           B == HelperAccess(auds)
           C == IF op[o].kind = "access" THEN AccessorMember(op[o].user) ELSE << >>
           D == SourceAccess(auds)
<1>1. Provisioning(o, auds) = ((A \o B) \o C) \o D
  BY DEF Provisioning
<1>2. A \in Seq(S) /\ A # << >> /\ B \in Seq(S) /\ D \in Seq(S)
  BY ManagedList, HelperList, SourceList
<1>3. C \in Seq(S)
  BY MemberList
<1>4. \A f \in NeededFor(op[o]) : op[o].kind = "access" /\ Preset \subseteq auds =>
        Within(f, B) \/ Within(f, C)
  BY HelperList, MemberList DEF NeededFor
<1> HIDE DEF A, B, C, D
<1>5. A \o B \in Seq(S) /\ A \o B # << >>
  BY <1>2, ConcatList
<1>6. (A \o B) \o C \in Seq(S) /\ (A \o B) \o C # << >>
  BY <1>3, <1>5, ConcatList
<1>7. ((A \o B) \o C) \o D \in Seq(S) /\ ((A \o B) \o C) \o D # << >>
  BY <1>2, <1>6, ConcatList
<1>8. ASSUME NEW f, Within(f, B) \/ Within(f, C) PROVE Within(f, ((A \o B) \o C) \o D)
  <2>1. Within(f, B) => Within(f, A \o B)
    BY <1>2, ConcatList
  <2>2. Within(f, (A \o B) \o C)
    BY <1>3, <1>5, <1>8, <2>1, ConcatList
  <2>3. QED
    BY <1>2, <1>6, <2>2, ConcatList
<1>9. QED
  BY <1>1, <1>4, <1>7, <1>8

\* Short lists joined.
LEMMA OneAndOne ==
  ASSUME NEW S, NEW x1 \in S, NEW x2 \in S
  PROVE  <<x1>> \o <<x2>> = <<x1, x2>>
<1>1. <<x1>> \in Seq(S) /\ <<x2>> \in Seq(S) /\ <<x1, x2>> \in Seq(S)
  OBVIOUS
<1>2. <<x1>> \o <<x2>> \in Seq(S) /\ Len(<<x1>> \o <<x2>>) = 2
  BY <1>1
<1>3. \A i \in 1..2 : (<<x1>> \o <<x2>>)[i] = <<x1, x2>>[i]
  BY <1>1, ConcatProperties
<1>4. QED
  BY <1>1, <1>2, <1>3, SeqEqual

LEMMA OneAndTwo ==
  ASSUME NEW S, NEW x1 \in S, NEW x2 \in S, NEW x3 \in S
  PROVE  <<x1>> \o <<x2, x3>> = <<x1, x2, x3>>
<1>1. <<x1>> \in Seq(S) /\ <<x2, x3>> \in Seq(S) /\ <<x1, x2, x3>> \in Seq(S)
  OBVIOUS
<1>2. <<x1>> \o <<x2, x3>> \in Seq(S) /\ Len(<<x1>> \o <<x2, x3>>) = 3
  BY <1>1
<1>3. \A i \in 1..3 : (<<x1>> \o <<x2, x3>>)[i] = <<x1, x2, x3>>[i]
  BY <1>1, ConcatProperties
<1>4. QED
  BY <1>1, <1>2, <1>3, SeqEqual

LEMMA TwoAndTwo ==
  ASSUME NEW S, NEW x1 \in S, NEW x2 \in S, NEW x3 \in S, NEW x4 \in S
  PROVE  <<x1, x2>> \o <<x3, x4>> = <<x1, x2, x3, x4>>
<1>1. <<x1, x2>> \in Seq(S) /\ <<x3, x4>> \in Seq(S) /\ <<x1, x2, x3, x4>> \in Seq(S)
  OBVIOUS
<1>2. <<x1, x2>> \o <<x3, x4>> \in Seq(S) /\ Len(<<x1, x2>> \o <<x3, x4>>) = 4
  BY <1>1
<1>3. \A i \in 1..4 : (<<x1, x2>> \o <<x3, x4>>)[i] = <<x1, x2, x3, x4>>[i]
  BY <1>1, ConcatProperties
<1>4. QED
  BY <1>1, <1>2, <1>3, SeqEqual

LEMMA DocLists ==
  /\ <<"env">> \o <<"identity">> = <<"env", "identity">>
  /\ <<"env", "identity">> \o <<"deployment", "service">>
       = <<"env", "identity", "deployment", "service">>
  /\ <<"env">> \o << >> = <<"env">> /\ << >> \o << >> = << >>
  /\ <<"env">> \o <<"deployment", "service">> = <<"env", "deployment", "service">>
  /\ << >> \o <<"identity">> = <<"identity">>
  /\ <<"identity">> \o <<"deployment", "service">> = <<"identity", "deployment", "service">>
  /\ << >> \o <<"deployment", "service">> = <<"deployment", "service">>
<1>1. /\ "env" \in Docs /\ "identity" \in Docs
      /\ "deployment" \in Docs /\ "service" \in Docs
  BY DEF Docs
<1>2. /\ <<"env">> \in Seq(Docs) /\ <<"identity">> \in Seq(Docs)
      /\ <<"deployment", "service">> \in Seq(Docs) /\ << >> \in Seq(Docs)
  BY <1>1
<1>3. QED
  BY <1>1, <1>2, OneAndOne, OneAndTwo, TwoAndTwo, ConcatEmptySeq

\* The manifest names each document once, in an order that can be run.
LEMMA ManifestList ==
  ASSUME NEW o \in Ops
  PROVE  /\ Manifest(o) \in Seq(Docs) /\ Manifest(o) # << >> /\ Ordered(Manifest(o))
         /\ Listed("deployment", Manifest(o))
         /\ op[o].access = "hub" => Listed("identity", Manifest(o))
         /\ \A objs :
              /\ op[o].env = "new" => Precedes(Manifest(o), objs, "env")
              /\ op[o].access = "hub" => Precedes(Manifest(o), objs, "identity")
<1>1. CASE op[o].env = "new" /\ op[o].access = "hub"
  <2>1. Manifest(o) = <<"env", "identity", "deployment", "service">>
    BY <1>1, DocLists DEF Manifest
  <2>2. QED
    BY <1>1, <2>1 DEF Docs, Ordered, Listed, Precedes
<1>2. CASE op[o].env = "new" /\ op[o].access # "hub"
  <2>1. Manifest(o) = <<"env", "deployment", "service">>
    BY <1>2, DocLists DEF Manifest
  <2>2. QED
    BY <1>2, <2>1 DEF Docs, Ordered, Listed, Precedes
<1>3. CASE op[o].env # "new" /\ op[o].access = "hub"
  <2>1. Manifest(o) = <<"identity", "deployment", "service">>
    BY <1>3, DocLists DEF Manifest
  <2>2. QED
    BY <1>3, <2>1 DEF Docs, Ordered, Listed, Precedes
<1>4. CASE op[o].env # "new" /\ op[o].access # "hub"
  <2>1. Manifest(o) = <<"deployment", "service">>
    BY <1>4, DocLists DEF Manifest
  <2>2. QED
    BY <1>4, <2>1 DEF Docs, Ordered, Listed, Precedes
<1>5. QED
  BY <1>1, <1>2, <1>3, <1>4

-----------------------------------------------------------------------------
(* How requests move *)

\* Only the request o moves.
Alone(o) == DOMAIN op' = Ops /\ \A p \in Ops \ {o} : op'[p] = op[p]

\* The request o is still what it was, if it has not ended.
Advances(o) ==
  /\ Alone(o) /\ Live(op[o]) /\ RequestOK(op'[o])
  /\ op'[o].pc # "idle" /\ op'[o].server = op[o].server
  /\ Live(op'[o]) => op'[o].kind = op[o].kind

EndsAs(o, pc) == Advances(o) /\ op'[o].pc = pc

\* It goes on with a list of things to do, and with what it was asked for.
Onward(o, pc, todo) ==
  /\ Advances(o) /\ op'[o].pc = pc /\ op'[o].todo = todo
  /\ op'[o].kind = op[o].kind /\ op'[o].access = op[o].access
  /\ op'[o].env = op[o].env /\ op'[o].user = op[o].user
  /\ op'[o].tools = op[o].tools /\ op'[o].seen = op[o].seen
  /\ op'[o].error = op[o].error

LEMMA EndedEffect ==
  ASSUME Shape, NEW o \in Ops, Live(op[o]), NEW pc \in Final, op' = Ended(o, pc)
  PROVE  EndsAs(o, pc)
<1> DEFINE r == [Idle EXCEPT !.pc = pc, !.server = op[o].server]
<1>1. Alone(o) /\ op'[o] = r
  BY DEF Ended, Shape, Alone
<1>2. op[o].server \in Servers /\ r = [Idle EXCEPT !.pc = pc, !.server = op[o].server]
  BY DEF Shape, RequestOK, Live
<1> HIDE DEF r
<1>3. r \in Request(r.pc, r.todo) /\ r.pc = pc /\ r.server = op[o].server /\ r.kind = None
  BY <1>2 DEF Idle, Request, Configuration, NoDeployment, NoTools, None, Kinds
<1>4. pc # "idle" /\ pc \notin Asking /\ pc \notin Listing /\ None \notin {"create", "access"}
  BY DEF Final, Asking, Listing, None
<1>5. QED
  BY <1>1, <1>2, <1>3, <1>4 DEF EndsAs, Advances, RequestOK, Live

\* A request takes up a list, todo, at pc.
LEMMA ListEffect ==
  ASSUME Shape, NEW o \in Ops, Live(op[o]), NEW pc, NEW todo,
         Alone(o), op'[o] = [op[o] EXCEPT !.todo = todo, !.pc = pc],
         pc \in Stages(op[o].kind), pc \notin Final \cup {"idle"},
         pc \in Asking => todo \in Seq(SUBSET Facts) /\ todo # << >>,
         pc \in Listing => todo \in Seq(Docs) /\ todo # << >>
  PROVE  Onward(o, pc, todo)
<1>1. op[o] \in Request(op[o].pc, op[o].todo) /\ RequestOK(op[o])
  BY DEF Shape, RequestOK
<1>2. /\ op'[o] \in Request(pc, todo) /\ op'[o].pc = pc /\ op'[o].todo = todo
      /\ op'[o].kind = op[o].kind /\ op'[o].access = op[o].access
      /\ op'[o].env = op[o].env /\ op'[o].user = op[o].user
      /\ op'[o].tools = op[o].tools /\ op'[o].seen = op[o].seen
      /\ op'[o].error = op[o].error /\ op'[o].server = op[o].server
  BY <1>1 DEF Request
<1>3. RequestOK(op'[o])
  BY <1>1, <1>2 DEF RequestOK, Live
<1>4. QED
  BY <1>1, <1>2, <1>3 DEF Onward, Advances, RequestOK, Live

\* It moves on to pc with the list it has.
LEMMA GotoEffect ==
  ASSUME Shape, NEW o \in Ops, Live(op[o]), NEW pc, Goto(o, pc),
         pc \in Stages(op[o].kind), pc \notin Final \cup {"idle"},
         pc \in Asking => op[o].pc \in Asking, pc \in Listing => op[o].pc \in Listing
  PROVE  Onward(o, pc, op[o].todo)
<1>1. Alone(o) /\ op'[o] = [op[o] EXCEPT !.pc = pc]
  BY DEF Goto, Moved, Shape, Alone
<1>2. RequestOK(op[o]) /\ op[o] \in Request(op[o].pc, op[o].todo)
  BY DEF Shape, RequestOK
<1>3. op'[o] = [op[o] EXCEPT !.todo = op[o].todo, !.pc = pc]
  BY <1>1, <1>2 DEF Request
<1>4. QED
  BY <1>1, <1>2, <1>3, ListEffect DEF RequestOK

\* It moves on to pc as the record r: what it was asked for is the same.
LEMMA RecordEffect ==
  ASSUME Shape, NEW o \in Ops, Live(op[o]), NEW r, Alone(o), op'[o] = r,
         r \in Request(r.pc, r.todo), r.pc \in Stages(op[o].kind),
         r.pc \notin Final \cup {"idle"},
         r.kind = op[o].kind, r.server = op[o].server, r.env = op[o].env,
         r.user = op[o].user,
         r.pc \in Asking => r.todo \in Seq(SUBSET Facts) /\ r.todo # << >>,
         r.pc \in Listing => r.todo \in Seq(Docs) /\ r.todo # << >>
  PROVE  Advances(o)
<1>1. RequestOK(op[o])
  BY DEF Shape
<1>2. RequestOK(r)
  BY <1>1 DEF RequestOK, Live
<1>3. QED
  BY <1>1, <1>2 DEF Advances, RequestOK, Live

\* Where a request is tells what kind of request it is.
LEMMA KindAt ==
  ASSUME Shape, NEW o \in Ops
  PROVE  /\ op[o].pc \in {"routes", "collision", "dryrun", "checkkey", "verifykey",
                          "provider", "create"}
               => Live(op[o]) /\ op[o].kind = "create"
         /\ op[o].pc \in {"reread", "secret", "dryupdate", "applysecret", "patch",
                          "patchservice"}
               => Live(op[o]) /\ op[o].kind = "update"
         /\ op[o].pc \in {"find", "remove", "gone", "redelete", "unload"}
               => Live(op[o]) /\ op[o].kind = "delete"
         /\ op[o].pc = "patchtool" => Live(op[o]) /\ op[o].kind = "tool"
         /\ op[o].pc = "reconcile" => Live(op[o]) /\ op[o].kind = "access"
         /\ op[o].pc = "trust" => Live(op[o]) /\ op[o].kind \in {"create", "update"}
         /\ op[o].pc = "template" =>
               Live(op[o]) /\ op[o].kind \in {"create", "update", "access"}
         /\ op[o].pc \in {"check", "put", "verify"} =>
               Live(op[o]) /\ op[o].kind \in {"create", "update", "tool", "access"}
         /\ op[o].pc = "read" => Live(op[o]) /\ op[o].kind # "create"
<1>1. Live(op[o]) => op[o].kind \in Kinds /\ op[o].pc \in Stages(op[o].kind)
  BY DEF Shape, RequestOK
<1>2. \A pc : pc \notin {"idle"} \cup Final /\ op[o].pc = pc => Live(op[o])
  BY DEF Live
<1>3. CASE op[o].kind = "create"
  BY <1>1, <1>3 DEF Stages, Live, Final
<1>4. CASE op[o].kind = "update"
  BY <1>1, <1>4 DEF Stages, Live, Final
<1>5. CASE op[o].kind = "delete"
  BY <1>1, <1>5 DEF Stages, Live, Final
<1>6. CASE op[o].kind = "tool"
  BY <1>1, <1>6 DEF Stages, Live, Final
<1>7. CASE op[o].kind = "access"
  BY <1>1, <1>7 DEF Stages, Live, Final
<1>8. CASE op[o].kind \notin Kinds
  BY <1>1, <1>8 DEF Live, Final
<1>9. QED
  BY <1>3, <1>4, <1>5, <1>6, <1>7, <1>8 DEF Kinds

-----------------------------------------------------------------------------
(* Steps that change nothing but their request *)

stores == <<objects, deployed, bootstrap, zms, publicKey>>

LEMMA OverlapsKept ==
  ASSUME Overlaps, NEW o \in Ops, Advances(o), UNCHANGED <<raced, contended>>
  PROVE  Overlaps'
<1> SUFFICES ASSUME NEW p \in Ops, NEW q \in Ops, p # q, Live(op'[p]), Live(op'[q]),
                    op'[p].server = op'[q].server
             PROVE  /\ op'[p].kind = "create" /\ op'[q].kind = "create"
                         => op'[p].server \in raced
                    /\ op'[p].kind = "delete" => op'[p].server \in contended
  BY DEF Overlaps
<1>1. \A r \in Ops : Live(op'[r]) =>
        Live(op[r]) /\ op'[r].server = op[r].server /\ op'[r].kind = op[r].kind
  BY DEF Advances, Alone
<1>2. QED
  BY <1>1 DEF Overlaps

LEMMA ShapeKept ==
  ASSUME Shape, NEW o \in Ops, Alone(o), RequestOK(op'[o]), StoresOK'
  PROVE  Shape'
BY DEF Shape, Alone

\* What another request knows does not depend on this one.
LEMMA OthersKnow ==
  ASSUME IInv, NEW o \in Ops, Alone(o), UNCHANGED stores, prepared \subseteq prepared',
         raced \subseteq raced', contended \subseteq contended', NEW p \in Ops \ {o}
  PROVE  Knows(p)'
<1>1. op'[p] = op[p] /\ Knows(p) /\ Manifest(p)' = Manifest(p)
  BY DEF Alone, IInv, Manifest
<1>2. ZmsKnown(p)' /\ ObjectsKnown(p)'
  BY <1>1 DEF Knows, ZmsKnown, ObjectsKnown, stores
<1>3. KeysKnown(p)'
  <2>1. op[p].server \in Calm' => op[p].server \in Calm
    BY DEF Calm
  <2>2. CreationFits(p) => CreationFits(p)'
    BY <1>1 DEF CreationFits, stores, Has
  <2>3. UpdateFits(p) => UpdateFits(p)'
    BY <1>1 DEF UpdateFits, stores, Prepared
  <2>4. QED
    BY <1>1, <2>1, <2>2, <2>3 DEF Knows, KeysKnown
<1>4. Keyless(p)'
  BY <1>1 DEF Knows, Keyless, stores, Calm
<1>5. QED
  BY <1>2, <1>3, <1>4 DEF Knows

LEMMA QuietKeeps ==
  ASSUME IInv, NEW o \in Ops, Advances(o), Knows(o)',
         UNCHANGED <<stores, raced, contended>>, prepared \subseteq prepared'
  PROVE  IInv'
<1>1. Shape'
  BY ShapeKept DEF IInv, Shape, Advances, stores, StoresOK
<1>2. Overlaps'
  BY OverlapsKept DEF IInv
<1>3. \A p \in Ops : Knows(p)'
  BY OthersKnow DEF Advances
<1>4. ReferencesResolve' /\ KeyRegistered'
  BY DEF IInv, ReferencesResolve, KeyRegistered, stores, Has
<1>5. QED
  BY <1>1, <1>2, <1>3, <1>4 DEF IInv

\* A request that has ended knows nothing, unless it was refused.
LEMMA EndedKnows ==
  ASSUME NEW o \in Ops, NEW pc \in Final, EndsAs(o, pc),
         pc = "conflict" /\ op[o].server \in Calm' =>
           publicKey'[op[o].server] # o /\ bootstrap'[op[o].server] # o
  PROVE  Knows(o)'
<1>1. ~Live(op'[o])
  BY DEF EndsAs, Live
<1>2. Keyless(o)'
  BY DEF EndsAs, Advances, Keyless, Final
<1>3. QED
  BY <1>1, <1>2 DEF Knows, ZmsKnown, ObjectsKnown, KeysKnown

\* A request ends, and that is all.
LEMMA EndedKeeps ==
  ASSUME IInv, NEW o \in Ops, Live(op[o]), NEW pc \in Final, op' = Ended(o, pc),
         pc = "conflict" => op[o].pc \in {"routes", "collision", "dryrun"},
         UNCHANGED <<stores, raced, contended>>, prepared \subseteq prepared'
  PROVE  IInv'
<1>1. EndsAs(o, pc)
  BY EndedEffect DEF IInv
<1>2. pc = "conflict" => publicKey'[op[o].server] # o /\ bootstrap'[op[o].server] # o
  <2>1. op[o].server \in Servers
    BY DEF IInv, Shape, RequestOK, Live
  <2>2. QED
    BY <2>1 DEF IInv, Knows, Keyless, stores
<1>3. QED
  BY <1>1, <1>2, EndedKnows, QuietKeeps DEF EndsAs

-----------------------------------------------------------------------------
(* Requests arrive *)

LEMMA BeginsKeeps ==
  ASSUME IInv, NEW o \in Ops, NEW r, Begins(o, r), RequestOK(r),
         r.pc \in {"routes", "read"}, ~r.error
  PROVE  IInv'
<1>1. /\ op[o].pc = "idle" /\ Alone(o) /\ op'[o] = r /\ UNCHANGED <<stores, prepared>>
      /\ raced \subseteq raced' /\ contended \subseteq contended'
  BY DEF Begins, At, Alone, IInv, Shape, stores
<1>2. Shape'
  BY <1>1, ShapeKept DEF IInv, Shape, stores, StoresOK
<1>3. Overlaps'
  <2>1. ASSUME NEW p \in Ops, p # o, Live(op[p]), op[p].server = r.server
        PROVE  /\ op[p].kind = "create" /\ r.kind = "create" => r.server \in raced'
               /\ "delete" \in {r.kind, op[p].kind} => r.server \in contended'
    <3>1. Running(p)
      BY <2>1 DEF Running, Live, Final
    <3>2. QED
      BY <2>1, <3>1 DEF Begins
  <2>2. ASSUME NEW p \in Ops \ {o}, NEW q \in Ops \ {o}, p # q, Live(op[p]), Live(op[q]),
               op[p].server = op[q].server
        PROVE  /\ op[p].kind = "create" /\ op[q].kind = "create" => op[p].server \in raced'
               /\ op[p].kind = "delete" => op[p].server \in contended'
    BY <1>1, <2>2 DEF IInv, Overlaps
  <2>3. QED
    BY <1>1, <2>1, <2>2 DEF Overlaps, Alone
<1>4. Knows(o)'
  <2>1. ZmsKnown(o)' /\ ObjectsKnown(o)'
    BY <1>1 DEF ZmsKnown, ZmsFits, Templated, ObjectsKnown, ObjectsFit
  <2>2. KeysKnown(o)'
    BY <1>1 DEF KeysKnown, CreationFits, UpdateFits
  <2>3. Keyless(o)'
    BY <1>1 DEF IInv, Knows, Keyless, stores
  <2>4. QED
    BY <2>1, <2>2, <2>3 DEF Knows
<1>5. \A p \in Ops : Knows(p)'
  BY <1>1, <1>4, OthersKnow
<1>6. ReferencesResolve' /\ KeyRegistered'
  BY <1>1 DEF IInv, ReferencesResolve, KeyRegistered, stores, Has
<1>7. QED
  BY <1>2, <1>3, <1>5, <1>6 DEF IInv

LEMMA IdleIs ==
  /\ Idle \in Request(Idle.pc, Idle.todo) /\ Idle.pc = "idle" /\ ~Idle.error
  /\ Idle.kind = None /\ NoTools \in [Tools -> {None} \cup Audiences]
BY DEF Idle, Request, Configuration, NoDeployment, NoTools, None, Kinds

LEMMA ArrivalsKeep ==
  ASSUME IInv, NEW o \in Ops,
         PostServer(o) \/ PutServer(o) \/ DeleteServer(o) \/ PutPermission(o) \/ PostAccess(o)
  PROVE  IInv'
<1>1. CASE PostServer(o)
  <2>1. PICK s \in Servers, a \in {"hub", "server"}, e \in {"none", "new"},
             ts \in [Tools -> {None} \cup Audiences] :
          Begins(o, [Idle EXCEPT !.pc = "routes", !.kind = "create", !.server = s,
                                 !.access = a, !.env = e, !.tools = ts])
    BY <1>1 DEF PostServer
  <2> DEFINE r == [Idle EXCEPT !.pc = "routes", !.kind = "create", !.server = s,
                               !.access = a, !.env = e, !.tools = ts]
  <2>2. /\ r \in Request(r.pc, r.todo) /\ r.pc = "routes" /\ r.kind = "create"
        /\ r.server = s /\ r.env = e /\ ~r.error
    BY IdleIs DEF Request, Kinds
  <2> HIDE DEF r
  <2>3. RequestOK(r)
    BY <2>2 DEF RequestOK, Kinds, Stages, Asking, Listing
  <2>4. Begins(o, r)
    BY <2>1 DEF r
  <2>5. QED
    BY <2>2, <2>3, <2>4, BeginsKeeps
<1>2. CASE PutServer(o)
  <2>1. PICK s \in Servers, a \in {"hub", "server"}, e \in {"none", "new", "keep"},
             ts \in [Tools -> {None} \cup Audiences] :
          Begins(o, [Idle EXCEPT !.pc = "read", !.kind = "update", !.server = s,
                                 !.access = a, !.env = e, !.tools = ts])
    BY <1>2 DEF PutServer
  <2> DEFINE r == [Idle EXCEPT !.pc = "read", !.kind = "update", !.server = s,
                               !.access = a, !.env = e, !.tools = ts]
  <2>2. /\ r \in Request(r.pc, r.todo) /\ r.pc = "read" /\ r.kind = "update"
        /\ r.server = s /\ ~r.error
    BY IdleIs DEF Request, Kinds
  <2> HIDE DEF r
  <2>3. RequestOK(r)
    BY <2>2 DEF RequestOK, Kinds, Stages, Asking, Listing
  <2>4. Begins(o, r)
    BY <2>1 DEF r
  <2>5. QED
    BY <2>2, <2>3, <2>4, BeginsKeeps
<1>3. CASE DeleteServer(o)
  <2>1. PICK s \in Servers :
          Begins(o, [Idle EXCEPT !.pc = "read", !.kind = "delete", !.server = s])
    BY <1>3 DEF DeleteServer
  <2> DEFINE r == [Idle EXCEPT !.pc = "read", !.kind = "delete", !.server = s]
  <2>2. /\ r \in Request(r.pc, r.todo) /\ r.pc = "read" /\ r.kind = "delete"
        /\ r.server = s /\ ~r.error
    BY IdleIs DEF Request, Kinds
  <2> HIDE DEF r
  <2>3. RequestOK(r)
    BY <2>2 DEF RequestOK, Kinds, Stages, Asking, Listing
  <2>4. Begins(o, r)
    BY <2>1 DEF r
  <2>5. QED
    BY <2>2, <2>3, <2>4, BeginsKeeps
<1>4. CASE PutPermission(o)
  <2>1. PICK s \in Servers, t \in Tools, a \in {None} \cup Audiences :
          Begins(o, [Idle EXCEPT !.pc = "read", !.kind = "tool", !.server = s,
                                 !.tool = t, !.tools = [NoTools EXCEPT ![t] = a]])
    BY <1>4 DEF PutPermission
  <2> DEFINE r == [Idle EXCEPT !.pc = "read", !.kind = "tool", !.server = s,
                               !.tool = t, !.tools = [NoTools EXCEPT ![t] = a]]
  <2>2. [NoTools EXCEPT ![t] = a] \in [Tools -> {None} \cup Audiences]
    BY IdleIs
  <2>3. /\ r \in Request(r.pc, r.todo) /\ r.pc = "read" /\ r.kind = "tool"
        /\ r.server = s /\ ~r.error
    BY <2>2, IdleIs DEF Request, Kinds
  <2> HIDE DEF r
  <2>4. RequestOK(r)
    BY <2>3 DEF RequestOK, Kinds, Stages, Asking, Listing
  <2>5. Begins(o, r)
    BY <2>1 DEF r
  <2>6. QED
    BY <2>3, <2>4, <2>5, BeginsKeeps
<1>5. CASE PostAccess(o)
  <2>1. PICK s \in Servers, u \in Users :
          Begins(o, [Idle EXCEPT !.pc = "read", !.kind = "access", !.server = s, !.user = u])
    BY <1>5 DEF PostAccess
  <2> DEFINE r == [Idle EXCEPT !.pc = "read", !.kind = "access", !.server = s, !.user = u]
  <2>2. /\ r \in Request(r.pc, r.todo) /\ r.pc = "read" /\ r.kind = "access"
        /\ r.server = s /\ r.user = u /\ ~r.error
    BY IdleIs DEF Request, Kinds
  <2> HIDE DEF r
  <2>3. RequestOK(r)
    BY <2>2 DEF RequestOK, Kinds, Stages, Asking, Listing
  <2>4. Begins(o, r)
    BY <2>1 DEF r
  <2>5. QED
    BY <2>2, <2>3, <2>4, BeginsKeeps
<1>6. QED
  BY <1>1, <1>2, <1>3, <1>4, <1>5

-----------------------------------------------------------------------------
(* A creation, up to the dry run *)

LEMMA CallFailsKeeps ==
  ASSUME IInv, NEW o \in Ops, CallFails(o)
  PROVE  IInv'
<1>1. Live(op[o]) /\ op' = Ended(o, "failed") /\ UNCHANGED <<stores, prepared, raced, contended>>
  BY DEF CallFails, Running, Live, Final, Goto, Moved, stores
<1>2. QED
  BY <1>1, EndedKeeps DEF Final

LEMMA LookUpKeeps ==
  ASSUME IInv, NEW o \in Ops, ListRoutes(o) \/ FindCollision(o)
  PROVE  IInv'
<1>1. /\ Live(op[o]) /\ op[o].kind = "create" /\ op[o].pc \in {"routes", "collision"}
      /\ op[o].server \in Servers /\ UNCHANGED <<stores, prepared, raced, contended>>
  <2>1. op[o].pc \in {"routes", "collision"} /\ UNCHANGED <<stores, prepared, raced, contended>>
    BY DEF ListRoutes, FindCollision, At, Other, stores
  <2>2. QED
    BY <2>1, KindAt DEF IInv, Shape, RequestOK, Live
<1>2. CASE Goto(o, "conflict")
  <2>1. op' = Ended(o, "conflict")
    BY <1>2 DEF Goto, Moved, Final
  <2>2. QED
    BY <1>1, <2>1, EndedKeeps DEF Final
<1>3. ASSUME NEW pc \in {"collision", "dryrun"}, Goto(o, pc), ~Has(op[o].server, "deployment")
      PROVE  IInv'
  <2>1. Onward(o, pc, op[o].todo)
    <3>1. /\ pc \in Stages(op[o].kind) /\ pc \notin Final \cup {"idle"}
          /\ pc \notin Asking /\ pc \notin Listing
      BY <1>1 DEF Stages, Final, Asking, Listing
    <3>2. QED
      BY <1>1, <1>3, <3>1, GotoEffect DEF IInv
  <2>2. ZmsKnown(o)' /\ ObjectsKnown(o)'
    BY <1>1, <2>1 DEF Onward, ZmsKnown, ZmsFits, Templated, ObjectsKnown, ObjectsFit
  <2>3. KeysKnown(o)'
    BY <1>1, <1>3, <2>1 DEF IInv, Knows, KeysKnown, CreationFits, UpdateFits, Onward,
                            Advances, Calm, Has, stores
  <2>4. Keyless(o)'
    BY <1>1, <2>1 DEF IInv, Knows, Keyless, Onward, stores
  <2>5. QED
    BY <1>1, <2>1, <2>2, <2>3, <2>4, QuietKeeps DEF Onward, Knows
<1>4. CASE ListRoutes(o)
  BY <1>1, <1>2, <1>3, <1>4 DEF ListRoutes, RouteTaken
<1>5. CASE FindCollision(o)
  BY <1>2, <1>3, <1>5 DEF FindCollision, Has
<1>6. QED
  BY <1>4, <1>5

LEMMA DryRunCreateKeeps ==
  ASSUME IInv, NEW o \in Ops, DryRunCreate(o)
  PROVE  IInv'
<1>1. /\ Live(op[o]) /\ op[o].kind = "create" /\ op[o].pc = "dryrun"
      /\ op[o].server \in Servers /\ UNCHANGED <<stores, prepared, raced, contended>>
      /\ RequestOK(op[o])
  BY KindAt DEF DryRunCreate, At, Other, stores, IInv, Shape, RequestOK, Live
<1>2. CASE op' = Ended(o, "conflict")
  BY <1>1, <1>2, EndedKeeps DEF Final
<1>3. CASE op' # Ended(o, "conflict")
  <2>1. /\ Elements(Manifest(o)) \cap objects[op[o].server] = {}
        /\ IF op[o].access = "hub"
           THEN op' = [op EXCEPT ![o].pc = "template",
                                 ![o].todo = Provisioning(o, AudiencesOf(op[o].tools))]
           ELSE op' = [op EXCEPT ![o].pc = "create", ![o].todo = Manifest(o)]
    BY <1>3 DEF DryRunCreate
  <2>2. NoneThere(Manifest(o), objects[op[o].server])
    BY <2>1, ManifestList DEF NoneThere, Elements
  <2>3. op[o].server \in Calm => ~op[o].error
    BY <1>1 DEF IInv, Knows, KeysKnown, CreationFits
  <2>4. CASE op[o].access = "hub"
    <3> DEFINE todo == Provisioning(o, AudiencesOf(op[o].tools))
    <3>1. Alone(o) /\ op'[o] = [op[o] EXCEPT !.todo = todo, !.pc = "template"]
      <4>1. DOMAIN op = Ops
        BY DEF IInv, Shape
      <4>2. op' = [op EXCEPT ![o].pc = "template", ![o].todo = todo]
        BY <2>1, <2>4
      <4> HIDE DEF todo
      <4>3. QED
        BY <4>1, <4>2 DEF Alone
    <3>2. todo \in Seq(SUBSET Facts) /\ todo # << >>
      <4>1. AudiencesOf(op[o].tools) \in SUBSET Audiences
        BY <1>1, AudiencesOfTools DEF RequestOK, Request
      <4>2. QED
        BY <1>1, <4>1, ProvisioningList
    <3> HIDE DEF todo
    <3>3. Onward(o, "template", todo)
      BY <1>1, <3>1, <3>2, ListEffect DEF IInv, Stages, Final, Listing
    <3>4. ZmsKnown(o)' /\ ObjectsKnown(o)' /\ Keyless(o)'
      BY <1>1, <3>3 DEF Onward, ZmsKnown, ZmsFits, Templated, ObjectsKnown, ObjectsFit,
                        Keyless
    <3>5. Manifest(o)' = Manifest(o)
      BY <3>3 DEF Onward, Manifest
    <3>6. KeysKnown(o)'
      BY <1>1, <2>2, <2>3, <3>3, <3>5 DEF KeysKnown, CreationFits, UpdateFits, Onward,
                                          Advances, Calm, stores
    <3>7. QED
      BY <1>1, <3>3, <3>4, <3>6, QuietKeeps DEF Onward, Knows
  <2>5. CASE op[o].access # "hub"
    <3>1. Alone(o) /\ op'[o] = [op[o] EXCEPT !.todo = Manifest(o), !.pc = "create"]
      <4>1. DOMAIN op = Ops
        BY DEF IInv, Shape
      <4>2. op' = [op EXCEPT ![o].pc = "create", ![o].todo = Manifest(o)]
        BY <2>1, <2>5
      <4>3. QED
        BY <4>1, <4>2 DEF Alone
    <3>2. Onward(o, "create", Manifest(o))
      BY <1>1, <3>1, ManifestList, ListEffect DEF IInv, Stages, Final, Asking
    <3>3. ZmsKnown(o)' /\ Keyless(o)'
      BY <1>1, <2>5, <3>2 DEF Onward, ZmsKnown, ZmsFits, Templated, Keyless
    <3>4. ObjectsKnown(o)'
      BY <1>1, <2>5, <3>2, ManifestList DEF Onward, ObjectsKnown, ObjectsFit
    <3>5. KeysKnown(o)'
      BY <1>1, <2>2, <2>3, <2>5, <3>2, ManifestList
      DEF KeysKnown, CreationFits, UpdateFits, Onward, Advances, Calm, stores
    <3>6. QED
      BY <1>1, <3>2, <3>3, <3>4, <3>5, QuietKeeps DEF Onward, Knows
  <2>6. QED
    BY <2>4, <2>5
<1>4. QED
  BY <1>2, <1>3

-----------------------------------------------------------------------------
(* Provisioning: the steps that only look *)

\* What a request knows of the Kubernetes objects while it asks ZMS.
LEMMA AskingKeys ==
  ASSUME IInv, NEW o \in Ops, Advances(o),
         UNCHANGED <<objects, deployed, bootstrap, publicKey, prepared, raced, contended>>,
         op'[o].kind = op[o].kind, op'[o].access = op[o].access, op'[o].env = op[o].env,
         op'[o].error = op[o].error,
         op[o].pc \in {"template", "check", "put", "verify"},
         op'[o].pc \in {"check", "put", "verify", "checkkey", "trust", "patchtool", "reconcile"},
         op'[o].pc = "trust" => op[o].kind # "create"
  PROVE  ObjectsKnown(o)' /\ KeysKnown(o)' /\ Keyless(o)'
<1>1. Live(op[o]) /\ op'[o].server = op[o].server /\ Manifest(o)' = Manifest(o)
  BY DEF Advances, Manifest
<1>2. ObjectsKnown(o)' /\ Keyless(o)'
  BY DEF ObjectsKnown, ObjectsFit, Keyless
<1>3. KeysKnown(o)'
  <2> SUFFICES ASSUME op[o].server \in Calm PROVE CreationFits(o)' /\ UpdateFits(o)'
    BY <1>1 DEF KeysKnown, Calm
  <2>1. CreationFits(o)
    BY <1>1 DEF IInv, Knows, KeysKnown
  <2>2. QED
    BY <1>1, <2>1 DEF CreationFits, UpdateFits
<1>4. QED
  BY <1>2, <1>3

LEMMA NextTodoKeeps ==
  ASSUME IInv, NEW o \in Ops, op[o].pc \in {"check", "verify"},
         Head(op[o].todo) \subseteq zms[op[o].server], op' = NextTodo(o),
         UNCHANGED <<stores, prepared, raced, contended>>
  PROVE  IInv'
<1> DEFINE pc == IF Len(op[o].todo) = 1 THEN AfterProvisioning(o) ELSE "check"
           todo == Tail(op[o].todo)
<1>1. /\ Live(op[o]) /\ op[o].kind \in {"create", "update", "tool", "access"}
      /\ op[o].todo \in Seq(SUBSET Facts) /\ op[o].todo # << >>
  BY KindAt DEF IInv, Shape, RequestOK, Asking
<1>2. Alone(o) /\ op'[o] = [op[o] EXCEPT !.todo = todo, !.pc = pc]
  BY DEF NextTodo, Alone, IInv, Shape
<1>3. /\ pc \in {"check", "checkkey", "trust", "patchtool", "reconcile"}
      /\ pc = "trust" => op[o].kind # "create"
      /\ pc = "reconcile" => Len(op[o].todo) = 1
      /\ pc = "check" => Len(op[o].todo) # 1
      /\ pc \in Stages(op[o].kind)
  BY <1>1 DEF AfterProvisioning, Stages
<1>4. todo \in Seq(SUBSET Facts) /\ (Len(op[o].todo) # 1 => todo # << >>)
  BY <1>1, TailList
<1> HIDE DEF pc
<1>5. Onward(o, pc, todo)
  BY <1>1, <1>2, <1>3, <1>4, ListEffect DEF IInv, Final, Asking, Listing
<1>6. ObjectsKnown(o)' /\ KeysKnown(o)' /\ Keyless(o)'
  BY <1>3, <1>5, AskingKeys DEF Onward, stores
<1>7. ZmsKnown(o)'
  <2> SUFFICES ASSUME op[o].server \notin contended
               PROVE  ZmsFits(op'[o], zms[op[o].server])
    BY <1>5 DEF ZmsKnown, Onward, Advances, stores
  <2>1. ZmsFits(op[o], zms[op[o].server])
    BY <1>1 DEF IInv, Knows, ZmsKnown
  <2>2. Templated(op'[o]) => Templated(op[o])
    BY <1>5 DEF Onward, Templated
  <2>3. ASSUME op[o].kind = "access", NEW f \in NeededFor(op[o])
        PROVE  f \in zms[op[o].server] \/ (Len(op[o].todo) # 1 /\ Within(f, todo))
    <3>1. f \in zms[op[o].server] \/ Within(f, op[o].todo)
      BY <2>1, <2>3 DEF ZmsFits
    <3>2. QED
      BY <1>1, <3>1, TailWithin
  <2>4. NeededFor(op'[o]) = NeededFor(op[o])
    BY <1>5 DEF Onward, NeededFor
  <2> HIDE DEF todo
  <2>5. QED
    BY <1>1, <1>3, <1>5, <2>1, <2>2, <2>3, <2>4 DEF ZmsFits, Onward
<1>8. QED
  BY <1>5, <1>6, <1>7, QuietKeeps DEF Onward, Knows

LEMMA CheckFactsKeeps ==
  ASSUME IInv, NEW o \in Ops, CheckFacts(o)
  PROVE  IInv'
<1>1. op[o].pc = "check" /\ UNCHANGED <<stores, prepared, raced, contended>>
  BY DEF CheckFacts, At, Other, stores
<1>2. CASE Head(op[o].todo) \subseteq zms[op[o].server]
  BY <1>1, <1>2, NextTodoKeeps DEF CheckFacts
<1>3. CASE ~(Head(op[o].todo) \subseteq zms[op[o].server])
  <2> DEFINE r == [op[o] EXCEPT !.pc = "put",
                                !.sources = zms[op[o].server] \cap SourcePolicy]
  <2>1. Alone(o) /\ op'[o] = r
    BY <1>3 DEF CheckFacts, Alone, IInv, Shape
  <2>2. /\ Live(op[o]) /\ op[o].kind \in {"create", "update", "tool", "access"}
        /\ RequestOK(op[o])
    BY <1>1, KindAt DEF IInv, Shape
  <2>3. zms[op[o].server] \cap SourcePolicy \in SUBSET Facts
    BY DEF SourcePolicy, Facts
  <2>4. op[o] \in Request(op[o].pc, op[o].todo)
    BY <2>2 DEF RequestOK
  <2>5. /\ r \in Request(r.pc, r.todo) /\ r.pc = "put" /\ r.kind = op[o].kind
        /\ r.server = op[o].server /\ r.env = op[o].env /\ r.user = op[o].user
        /\ r.todo = op[o].todo /\ r.access = op[o].access /\ r.error = op[o].error
    BY <2>3, <2>4 DEF Request
  <2> HIDE DEF r
  <2>6. Advances(o)
    <3>1. r.todo \in Seq(SUBSET Facts) /\ r.todo # << >>
      BY <1>1, <2>2, <2>5 DEF RequestOK, Asking
    <3>2. "put" \in Stages(op[o].kind)
      BY <2>2 DEF Stages
    <3>3. QED
      BY <2>1, <2>2, <2>5, <3>1, <3>2, RecordEffect DEF IInv, Final, Listing
  <2>7. ObjectsKnown(o)' /\ KeysKnown(o)' /\ Keyless(o)'
    BY <1>1, <2>1, <2>5, <2>6, AskingKeys DEF stores
  <2>8. ZmsKnown(o)'
    BY <1>1, <2>1, <2>2, <2>5, <2>6
    DEF IInv, Knows, ZmsKnown, ZmsFits, Templated, NeededFor, stores
  <2>9. QED
    BY <1>1, <2>6, <2>7, <2>8, QuietKeeps DEF Knows
<1>4. QED
  BY <1>2, <1>3

LEMMA VerifyFactsKeeps ==
  ASSUME IInv, NEW o \in Ops, VerifyFacts(o)
  PROVE  IInv'
<1>1. op[o].pc = "verify" /\ Live(op[o]) /\ UNCHANGED <<stores, prepared, raced, contended>>
  BY KindAt DEF VerifyFacts, At, Other, stores, IInv
<1>2. CASE op' = Ended(o, "failed")
  BY <1>1, <1>2, EndedKeeps DEF Final
<1>3. CASE op' # Ended(o, "failed")
  BY <1>1, <1>3, NextTodoKeeps DEF VerifyFacts
<1>4. QED
  BY <1>2, <1>3

-----------------------------------------------------------------------------
(* The key, the provider and the CA *)

LEMMA VerifyKeyKeeps ==
  ASSUME IInv, NEW o \in Ops, VerifyKey(o)
  PROVE  IInv'
<1>1. /\ op[o].pc = "verifykey" /\ Live(op[o]) /\ op[o].kind = "create"
      /\ UNCHANGED <<stores, prepared, raced, contended>>
  BY KindAt DEF VerifyKey, At, Other, stores, IInv
<1>2. CASE publicKey[op[o].server] # o
  <2>1. op' = Ended(o, "failed")
    BY <1>2 DEF VerifyKey, Goto, Moved, Final
  <2>2. QED
    BY <1>1, <2>1, EndedKeeps DEF Final
<1>3. CASE publicKey[op[o].server] = o
  <2>1. Onward(o, "provider", op[o].todo)
    BY <1>1, <1>3, GotoEffect DEF VerifyKey, IInv, Stages, Final, Asking, Listing
  <2>2. ZmsKnown(o)' /\ ObjectsKnown(o)' /\ Keyless(o)'
    BY <1>1, <2>1 DEF IInv, Knows, ZmsKnown, ZmsFits, Templated, ObjectsKnown, ObjectsFit,
                      Keyless, Onward, Advances, stores
  <2>3. Manifest(o)' = Manifest(o)
    BY <2>1 DEF Onward, Manifest
  <2>4. KeysKnown(o)'
    BY <1>1, <1>3, <2>1, <2>3 DEF IInv, Knows, KeysKnown, CreationFits, UpdateFits, Onward,
                                  Advances, Calm, stores
  <2>5. QED
    BY <1>1, <2>1, <2>2, <2>4, QuietKeeps DEF Onward, Knows
<1>4. QED
  BY <1>2, <1>3

LEMMA EnableProviderKeeps ==
  ASSUME IInv, NEW o \in Ops, EnableProvider(o)
  PROVE  IInv'
<1>1. /\ op[o].pc = "provider" /\ Live(op[o]) /\ op[o].kind = "create"
      /\ UNCHANGED <<stores, raced, contended>>
      /\ prepared' = prepared \cup {<<op[o].server[1], "provider">>}
  BY KindAt DEF EnableProvider, At, stores, IInv
<1>2. Onward(o, "trust", op[o].todo)
  BY <1>1, GotoEffect DEF EnableProvider, IInv, Stages, Final, Asking, Listing
<1>3. ZmsKnown(o)' /\ ObjectsKnown(o)' /\ Keyless(o)'
  BY <1>1, <1>2 DEF IInv, Knows, ZmsKnown, ZmsFits, Templated, ObjectsKnown, ObjectsFit,
                    Keyless, Onward, Advances, stores
<1>4. Manifest(o)' = Manifest(o)
  BY <1>2 DEF Onward, Manifest
<1>5. KeysKnown(o)'
  BY <1>1, <1>2, <1>4 DEF IInv, Knows, KeysKnown, CreationFits, UpdateFits, Onward,
                          Advances, Calm, stores
<1>6. QED
  BY <1>1, <1>2, <1>3, <1>5, QuietKeeps DEF Onward, Knows

LEMMA ApplyTrustKeeps ==
  ASSUME IInv, NEW o \in Ops, ApplyTrust(o)
  PROVE  IInv'
<1>1. /\ op[o].pc = "trust" /\ Live(op[o]) /\ op[o].kind \in {"create", "update"}
      /\ UNCHANGED <<stores, raced, contended>>
      /\ prepared' = prepared \cup {<<op[o].server[1], "ca">>}
  BY KindAt DEF ApplyTrust, At, stores, IInv
<1>2. CASE op[o].kind = "update"
  <2>1. Onward(o, "reread", op[o].todo)
    BY <1>1, <1>2, GotoEffect DEF ApplyTrust, Goto, IInv, Stages, Final, Asking, Listing
  <2>2. Knows(o)'
    BY <1>2, <2>1 DEF Knows, ZmsKnown, ZmsFits, Templated, ObjectsKnown, ObjectsFit,
                      KeysKnown, CreationFits, UpdateFits, Keyless, Onward
  <2>3. QED
    BY <1>1, <2>1, <2>2, QuietKeeps DEF Onward
<1>3. CASE op[o].kind = "create"
  <2>1. Alone(o) /\ op'[o] = [op[o] EXCEPT !.todo = Manifest(o), !.pc = "create"]
    BY <1>3 DEF ApplyTrust, Alone, IInv, Shape
  <2>2. Onward(o, "create", Manifest(o))
    BY <1>1, <1>3, <2>1, ManifestList, ListEffect DEF IInv, Stages, Final, Asking
  <2>3. ZmsKnown(o)' /\ Keyless(o)'
    BY <1>1, <1>3, <2>2 DEF IInv, Knows, ZmsKnown, ZmsFits, Templated, Keyless, Onward,
                            Advances, stores
  <2>4. ObjectsKnown(o)'
    BY <2>2, ManifestList DEF ObjectsKnown, ObjectsFit, Onward
  <2>5. KeysKnown(o)'
    BY <1>1, <1>3, <2>2, ManifestList
    DEF IInv, Knows, KeysKnown, CreationFits, UpdateFits, Onward, Advances, Calm, stores
  <2>6. QED
    BY <1>1, <2>2, <2>3, <2>4, <2>5, QuietKeeps DEF Onward, Knows
<1>4. QED
  BY <1>1, <1>2, <1>3

-----------------------------------------------------------------------------
(* The Deployment is read *)

\* An update or an edit that has not read the Deployment to write it knows nothing.
LEMMA NothingKnown ==
  ASSUME NEW o \in Ops, op'[o].kind \in {"update", "tool"},
         op'[o].pc \in {"template", "check", "patchtool", "reread", "patchservice"}
  PROVE  Knows(o)'
BY DEF Knows, ZmsKnown, ZmsFits, Templated, ObjectsKnown, ObjectsFit, KeysKnown,
       CreationFits, UpdateFits, Keyless

LEMMA NotFoundKeeps ==
  ASSUME IInv, NEW o \in Ops, NotFound(o) \/ PatchService(o)
  PROVE  IInv'
<1>1. Live(op[o]) /\ UNCHANGED <<stores, prepared, raced, contended>>
  BY KindAt DEF NotFound, PatchService, At, Other, stores, IInv
<1>2. PICK pc \in {"done", "failed"} : op' = Ended(o, pc)
  BY DEF NotFound, PatchService, Goto, Moved, Final
<1>3. QED
  BY <1>1, <1>2, EndedKeeps DEF Final

LEMMA ReadForUpdateKeeps ==
  ASSUME IInv, NEW o \in Ops, ReadForUpdate(o)
  PROVE  IInv'
<1>1. /\ op[o].pc = "read" /\ Live(op[o]) /\ op[o].kind = "update" /\ RequestOK(op[o])
      /\ UNCHANGED <<stores, prepared, raced, contended>>
  BY KindAt DEF ReadForUpdate, Reads, At, Other, stores, IInv, Shape
<1>2. CASE op' = Ended(o, "failed")
  BY <1>1, <1>2, EndedKeeps DEF Final
<1>3. CASE op' # Ended(o, "failed")
  <2> DEFINE pc == IF op[o].access = "hub" THEN "template" ELSE "reread"
             todo == Provisioning(o, AudiencesOf(op[o].tools))
  <2>1. Alone(o) /\ op'[o] = [op[o] EXCEPT !.todo = todo, !.pc = pc]
    BY <1>3 DEF ReadForUpdate, Alone, IInv, Shape
  <2>2. todo \in Seq(SUBSET Facts) /\ todo # << >>
    <3>1. AudiencesOf(op[o].tools) \in SUBSET Audiences
      BY <1>1, AudiencesOfTools DEF RequestOK, Request
    <3>2. QED
      BY <1>1, <3>1, ProvisioningList
  <2> HIDE DEF todo
  <2>3. Onward(o, pc, todo)
    BY <1>1, <2>1, <2>2, ListEffect DEF IInv, Stages, Final, Asking, Listing
  <2>4. QED
    BY <1>1, <2>3, NothingKnown, QuietKeeps DEF Onward
<1>4. QED
  BY <1>2, <1>3

LEMMA ReadForAccessKeeps ==
  ASSUME IInv, NEW o \in Ops, ReadForAccess(o)
  PROVE  IInv'
<1>1. /\ op[o].pc = "read" /\ Live(op[o]) /\ op[o].kind = "access" /\ RequestOK(op[o])
      /\ op[o].server \in Servers /\ UNCHANGED <<stores, prepared, raced, contended>>
  BY KindAt DEF ReadForAccess, Reads, At, Other, stores, IInv, Shape, RequestOK
<1>2. CASE op' = Ended(o, "failed")
  BY <1>1, <1>2, EndedKeeps DEF Final
<1>3. CASE op' # Ended(o, "failed")
  <2> DEFINE auds == Preset \cup AudiencesOf(deployed[op[o].server].tools)
             todo == Provisioning(o, auds)
  <2>1. Alone(o) /\ op'[o] = [op[o] EXCEPT !.todo = todo, !.pc = "template"]
    BY <1>3 DEF ReadForAccess, Alone, IInv, Shape
  <2>2. auds \in SUBSET Audiences
    <3>1. deployed[op[o].server].tools \in [Tools -> {None} \cup Audiences]
      BY <1>1 DEF IInv, Shape, StoresOK, Configuration
    <3>2. QED
      BY <3>1, AudiencesOfTools, RegistrationAssumption
  <2>3. Preset \subseteq auds
    OBVIOUS
  <2> HIDE DEF auds
  <2>4. /\ todo \in Seq(SUBSET Facts) /\ todo # << >>
        /\ \A f \in NeededFor(op[o]) : Within(f, todo)
    BY <1>1, <2>2, <2>3, ProvisioningList DEF RequestOK
  <2> HIDE DEF todo
  <2>5. Onward(o, "template", todo)
    BY <1>1, <2>1, <2>4, ListEffect DEF IInv, Stages, Final, Listing
  <2>6. ZmsKnown(o)'
    BY <1>1, <2>4, <2>5 DEF ZmsKnown, ZmsFits, Templated, NeededFor, Onward
  <2>7. ObjectsKnown(o)' /\ KeysKnown(o)' /\ Keyless(o)'
    BY <1>1, <2>5 DEF ObjectsKnown, ObjectsFit, KeysKnown, CreationFits, UpdateFits,
                      Keyless, Onward
  <2>8. QED
    BY <1>1, <2>5, <2>6, <2>7, QuietKeeps DEF Onward, Knows
<1>4. QED
  BY <1>2, <1>3

LEMMA ReadForDeleteKeeps ==
  ASSUME IInv, NEW o \in Ops, ReadForDelete(o)
  PROVE  IInv'
<1> DEFINE d == deployed[op[o].server]
           pc == IF d.access = "hub" THEN "find" ELSE "redelete"
           r == [op[o] EXCEPT !.access = d.access, !.todo = Entities, !.pc = pc]
<1>1. /\ op[o].pc = "read" /\ Live(op[o]) /\ op[o].kind = "delete" /\ RequestOK(op[o])
      /\ op[o].server \in Servers /\ UNCHANGED <<stores, prepared, raced, contended>>
  BY KindAt DEF ReadForDelete, Reads, At, Other, stores, IInv, Shape, RequestOK
<1>2. Alone(o) /\ op'[o] = r
  BY DEF ReadForDelete, Alone, IInv, Shape
<1>3. d.access \in {"hub", "server"} /\ zms[op[o].server] \subseteq Facts
  BY <1>1 DEF IInv, Shape, StoresOK, Configuration
<1>4. /\ r \in Request(r.pc, r.todo) /\ r.pc = pc /\ r.kind = op[o].kind
      /\ r.server = op[o].server /\ r.env = op[o].env /\ r.user = op[o].user
      /\ r.todo = Entities /\ r.access = d.access
  <2>1. op[o] \in Request(op[o].pc, op[o].todo)
    BY <1>1 DEF RequestOK
  <2>2. QED
    BY <1>3, <2>1 DEF Request
<1> HIDE DEF r, d
<1>5. Advances(o)
  BY <1>1, <1>2, <1>4, EntitiesList, RecordEffect DEF IInv, Stages, Final, Asking, Listing
<1>6. ZmsKnown(o)'
  BY <1>1, <1>2, <1>3, <1>4, FactsShape DEF ZmsKnown, ZmsFits, Templated, stores
<1>7. ObjectsKnown(o)' /\ KeysKnown(o)' /\ Keyless(o)'
  BY <1>1, <1>2, <1>4 DEF ObjectsKnown, ObjectsFit, KeysKnown, CreationFits, UpdateFits,
                          Keyless
<1>8. QED
  BY <1>1, <1>5, <1>6, <1>7, QuietKeeps DEF Knows

LEMMA ReadForToolKeeps ==
  ASSUME IInv, NEW o \in Ops, ReadForTool(o)
  PROVE  IInv'
<1> DEFINE d == deployed[op[o].server]
           auds == AudiencesOf(op[o].tools)
           todo == HelperAccess(auds) \o SourceAccess(auds)
           pc == IF auds # {} /\ d.access = "hub" THEN "check" ELSE "patchtool"
           r == [op[o] EXCEPT !.seen = d, !.todo = todo, !.pc = pc]
<1>1. /\ op[o].pc = "read" /\ Live(op[o]) /\ op[o].kind = "tool" /\ RequestOK(op[o])
      /\ op[o].server \in Servers /\ UNCHANGED <<stores, prepared, raced, contended>>
  BY KindAt DEF ReadForTool, Reads, At, Other, stores, IInv, Shape, RequestOK
<1>2. CASE op' = Ended(o, "failed")
  BY <1>1, <1>2, EndedKeeps DEF Final
<1>3. CASE op' # Ended(o, "failed")
  <2>1. Alone(o) /\ op'[o] = r
    BY <1>3 DEF ReadForTool, Alone, IInv, Shape
  <2>2. d \in Configuration
    BY <1>1 DEF IInv, Shape, StoresOK
  <2>3. todo \in Seq(SUBSET Facts) /\ (auds # {} => todo # << >>)
    <3>1. auds \in SUBSET Audiences
      BY <1>1, AudiencesOfTools DEF RequestOK, Request
    <3> HIDE DEF auds
    <3>2. /\ HelperAccess(auds) \in Seq(SUBSET Facts) /\ SourceAccess(auds) \in Seq(SUBSET Facts)
          /\ auds # {} => SourceAccess(auds) # << >>
      BY <3>1, HelperList, SourceList
    <3>3. QED
      BY <3>2, ConcatList
  <2> HIDE DEF todo, auds, d
  <2>4. pc = "check" \/ pc = "patchtool"
    OBVIOUS
  <2>5. /\ r \in Request(r.pc, r.todo) /\ r.pc = pc /\ r.kind = op[o].kind
        /\ r.server = op[o].server /\ r.env = op[o].env /\ r.user = op[o].user
        /\ r.todo = todo
    <3>1. op[o] \in Request(op[o].pc, op[o].todo)
      BY <1>1 DEF RequestOK
    <3>2. QED
      BY <2>2, <3>1 DEF Request
  <2>6. pc = "check" => todo # << >>
    BY <2>3
  <2> HIDE DEF r, pc
  <2>7. pc \in Stages(op[o].kind) /\ pc \notin Final \cup {"idle"} /\ pc \notin Listing
    BY <1>1, <2>4 DEF Stages, Final, Listing
  <2>8. pc \in Asking => pc = "check"
    BY <2>4 DEF Asking
  <2>9. Advances(o)
    BY <1>1, <2>1, <2>3, <2>5, <2>6, <2>7, <2>8, RecordEffect DEF IInv
  <2>10. QED
    BY <1>1, <2>1, <2>4, <2>5, <2>9, NothingKnown, QuietKeeps
<1>4. QED
  BY <1>2, <1>3 DEF ReadForTool

\* What an update keeps in mind from its second reading on.
LEMMA UpdateKnows ==
  ASSUME NEW o \in Ops, Advances(o), UNCHANGED <<stores, raced, contended>>,
         prepared \subseteq prepared', op'[o].kind = "update",
         op'[o].pc \in {"secret", "dryupdate", "applysecret", "patch"},
         op'[o].server \notin contended => ObjectsFit(op'[o], objects[op'[o].server]),
         op'[o].server \in Calm /\ op'[o].seen.identity =>
           publicKey[op'[o].server] = bootstrap[op'[o].server] /\ Prepared(op'[o].server)
  PROVE  Knows(o)'
<1>1. ZmsKnown(o)' /\ ObjectsKnown(o)' /\ Keyless(o)'
  BY DEF ZmsKnown, ZmsFits, Templated, ObjectsKnown, Keyless, stores
<1>2. KeysKnown(o)'
  BY DEF KeysKnown, CreationFits, UpdateFits, Calm, Prepared, stores
<1>3. QED
  BY <1>1, <1>2 DEF Knows

LEMMA RereadKeeps ==
  ASSUME IInv, NEW o \in Ops, Reread(o)
  PROVE  IInv'
<1> DEFINE s == op[o].server
           d == deployed[s]
           pc == IF op[o].env = "new" THEN "secret" ELSE "dryupdate"
           r == [op[o] EXCEPT !.seen = d, !.pc = pc]
<1>1. /\ op[o].pc = "reread" /\ Live(op[o]) /\ op[o].kind = "update" /\ RequestOK(op[o])
      /\ s \in Servers /\ UNCHANGED <<stores, prepared, raced, contended>>
  BY KindAt DEF Reread, At, Other, stores, IInv, Shape, RequestOK
<1>2. CASE op' = Ended(o, "failed")
  BY <1>1, <1>2, EndedKeeps DEF Final
<1>3. CASE op' # Ended(o, "failed")
  <2>1. Alone(o) /\ op'[o] = r
    BY <1>3 DEF Reread, Alone, IInv, Shape
  <2>2. Has(s, "deployment") /\ (op[o].env = "keep" => d.env)
    BY <1>3 DEF Reread
  <2>3. d \in Configuration
    BY <1>1 DEF IInv, Shape, StoresOK
  <2>4. s \notin contended =>
          (op[o].env = "keep" => Has(s, "env")) /\ (d.identity => Has(s, "identity"))
    BY <1>1, <2>2 DEF IInv, ReferencesResolve
  <2>5. s \in Calm /\ d.identity => publicKey[s] = bootstrap[s] /\ Prepared(s)
    BY <2>2 DEF IInv, KeyRegistered, Calm, Prepared
  <2> HIDE DEF d
  <2>6. /\ r \in Request(r.pc, r.todo) /\ r.pc = pc /\ r.kind = op[o].kind
        /\ r.server = op[o].server /\ r.env = op[o].env /\ r.user = op[o].user
        /\ r.seen = d
    <3>1. op[o] \in Request(op[o].pc, op[o].todo)
      BY <1>1 DEF RequestOK
    <3>2. QED
      BY <2>3, <3>1 DEF Request
  <2>7. pc \in {"secret", "dryupdate"}
    OBVIOUS
  <2> HIDE DEF r, pc
  <2>8. Advances(o)
    BY <1>1, <2>1, <2>6, <2>7, RecordEffect DEF IInv, Stages, Final, Asking, Listing
  <2>9. Knows(o)'
    BY <1>1, <2>1, <2>2, <2>4, <2>5, <2>6, <2>7, <2>8, UpdateKnows DEF ObjectsFit, Has
  <2>10. QED
    BY <1>1, <2>8, <2>9, QuietKeeps
<1>4. QED
  BY <1>2, <1>3

LEMMA FindSecretKeeps ==
  ASSUME IInv, NEW o \in Ops, FindSecret(o)
  PROVE  IInv'
<1> DEFINE r == [op[o] EXCEPT !.found = Has(op[o].server, "env"), !.pc = "dryupdate"]
<1>1. /\ op[o].pc = "secret" /\ Live(op[o]) /\ op[o].kind = "update" /\ RequestOK(op[o])
      /\ UNCHANGED <<stores, prepared, raced, contended>>
  BY KindAt DEF FindSecret, At, Other, stores, IInv, Shape
<1>2. Alone(o) /\ op'[o] = r
  BY DEF FindSecret, Alone, IInv, Shape
<1>3. /\ r \in Request(r.pc, r.todo) /\ r.pc = "dryupdate" /\ r.kind = op[o].kind
      /\ r.server = op[o].server /\ r.env = op[o].env /\ r.user = op[o].user
      /\ r.seen = op[o].seen
  <2>1. op[o] \in Request(op[o].pc, op[o].todo)
    BY <1>1 DEF RequestOK
  <2>2. Has(op[o].server, "env") \in BOOLEAN
    BY DEF Has
  <2>3. QED
    BY <2>1, <2>2 DEF Request
<1> HIDE DEF r
<1>4. Advances(o)
  BY <1>1, <1>2, <1>3, RecordEffect DEF IInv, Stages, Final, Asking, Listing
<1>5. Knows(o)'
  <2>1. Knows(o)
    BY DEF IInv
  <2>2. QED
    BY <1>1, <1>2, <1>3, <1>4, <2>1, UpdateKnows
    DEF Knows, ObjectsKnown, ObjectsFit, KeysKnown, UpdateFits
<1>6. QED
  BY <1>1, <1>4, <1>5, QuietKeeps

LEMMA DryRunUpdateKeeps ==
  ASSUME IInv, NEW o \in Ops, DryRunUpdate(o)
  PROVE  IInv'
<1>1. /\ op[o].pc = "dryupdate" /\ Live(op[o]) /\ op[o].kind = "update"
      /\ UNCHANGED <<stores, prepared, raced, contended>>
  BY KindAt DEF DryRunUpdate, At, Other, stores, IInv
<1>2. PICK pc \in {"failed", "applysecret", "patch"} :
        Goto(o, pc) /\ (pc = "patch" => op[o].env # "new")
  BY DEF DryRunUpdate
<1>3. CASE pc = "failed"
  <2>1. op' = Ended(o, "failed")
    BY <1>2, <1>3 DEF Goto, Moved, Final
  <2>2. QED
    BY <1>1, <2>1, EndedKeeps DEF Final
<1>4. CASE pc # "failed"
  <2>1. Onward(o, pc, op[o].todo)
    <3>1. /\ pc \in Stages(op[o].kind) /\ pc \notin Final \cup {"idle"}
          /\ pc \notin Asking /\ pc \notin Listing
      BY <1>1, <1>2, <1>4 DEF Stages, Final, Asking, Listing
    <3>2. QED
      BY <1>1, <1>2, <3>1, GotoEffect DEF IInv
  <2>2. Knows(o)
    BY DEF IInv
  <2>3. Knows(o)'
    BY <1>1, <1>2, <1>4, <2>1, <2>2, UpdateKnows
    DEF Knows, ObjectsKnown, ObjectsFit, KeysKnown, UpdateFits, Onward, Advances
  <2>4. QED
    BY <1>1, <2>1, <2>3, QuietKeeps DEF Onward
<1>5. QED
  BY <1>3, <1>4

-----------------------------------------------------------------------------
(* A deletion: the steps that only look *)

\* What a deletion that looks for entities knows is about ZMS only.
LEMMA DeletionKnows ==
  ASSUME NEW o \in Ops, op'[o].kind = "delete", op'[o].pc \in {"find", "remove", "gone", "redelete"}
  PROVE  ObjectsKnown(o)' /\ KeysKnown(o)' /\ Keyless(o)'
BY DEF ObjectsKnown, ObjectsFit, KeysKnown, CreationFits, UpdateFits, Keyless

LEMMA NextEntityKeeps ==
  ASSUME IInv, NEW o \in Ops, op[o].pc \in {"find", "gone"},
         Head(op[o].todo) \cap zms[op[o].server] = {}, op' = NextEntity(o),
         UNCHANGED <<stores, prepared, raced, contended>>
  PROVE  IInv'
<1> DEFINE pc == IF Len(op[o].todo) = 1 THEN "redelete" ELSE "find"
           todo == Tail(op[o].todo)
<1>1. /\ Live(op[o]) /\ op[o].kind = "delete"
      /\ op[o].todo \in Seq(SUBSET Facts) /\ op[o].todo # << >>
  BY KindAt DEF IInv, Shape, RequestOK, Asking
<1>2. Alone(o) /\ op'[o] = [op[o] EXCEPT !.todo = todo, !.pc = pc]
  BY DEF NextEntity, Alone, IInv, Shape
<1>3. todo \in Seq(SUBSET Facts) /\ (Len(op[o].todo) # 1 => todo # << >>)
  BY <1>1, TailList
<1>4. Onward(o, pc, todo)
  BY <1>1, <1>2, <1>3, ListEffect DEF IInv, Stages, Final, Asking, Listing
<1>5. ObjectsKnown(o)' /\ KeysKnown(o)' /\ Keyless(o)'
  BY <1>1, <1>4, DeletionKnows DEF Onward
<1>6. ZmsKnown(o)'
  <2> SUFFICES ASSUME op[o].server \notin contended
               PROVE  ZmsFits(op'[o], zms[op[o].server])
    BY <1>4 DEF ZmsKnown, Onward, Advances, stores
  <2>1. ZmsFits(op[o], zms[op[o].server])
    BY <1>1 DEF IInv, Knows, ZmsKnown
  <2>2. ASSUME op[o].access = "hub", NEW f \in zms[op[o].server]
        PROVE  f \in Helpers \/ (Len(op[o].todo) # 1 /\ Within(f, todo))
    <3>1. f \in Helpers \/ Within(f, op[o].todo)
      BY <1>1, <2>1, <2>2 DEF ZmsFits
    <3>2. QED
      BY <1>1, <3>1, TailWithin
  <2> HIDE DEF todo
  <2>3. QED
    BY <1>1, <1>4, <2>2 DEF ZmsFits, Templated, Onward
<1>7. QED
  BY <1>4, <1>5, <1>6, QuietKeeps DEF Onward, Knows

LEMMA FindEntityKeeps ==
  ASSUME IInv, NEW o \in Ops, FindEntity(o)
  PROVE  IInv'
<1>1. /\ op[o].pc = "find" /\ Live(op[o]) /\ op[o].kind = "delete" /\ RequestOK(op[o])
      /\ UNCHANGED <<stores, prepared, raced, contended>>
  BY KindAt DEF FindEntity, At, Other, stores, IInv, Shape
<1>2. CASE Head(op[o].todo) \cap zms[op[o].server] = {}
  BY <1>1, <1>2, NextEntityKeeps DEF FindEntity
<1>3. CASE Head(op[o].todo) \cap zms[op[o].server] # {}
  <2>1. Goto(o, "remove")
    BY <1>3 DEF FindEntity, Goto, Moved, Final
  <2>2. Onward(o, "remove", op[o].todo)
    BY <1>1, <2>1, GotoEffect DEF IInv, Stages, Final, Asking, Listing
  <2>3. ZmsKnown(o)'
    BY <1>1, <2>2 DEF IInv, Knows, ZmsKnown, ZmsFits, Templated, Onward, Advances, stores
  <2>4. QED
    BY <1>1, <2>2, <2>3, DeletionKnows, QuietKeeps DEF Onward, Knows
<1>4. QED
  BY <1>2, <1>3

LEMMA VerifyGoneKeeps ==
  ASSUME IInv, NEW o \in Ops, VerifyGone(o)
  PROVE  IInv'
<1>1. /\ op[o].pc = "gone" /\ Live(op[o]) /\ UNCHANGED <<stores, prepared, raced, contended>>
  BY KindAt DEF VerifyGone, At, Other, stores, IInv
<1>2. CASE op' = Ended(o, "failed")
  BY <1>1, <1>2, EndedKeeps DEF Final
<1>3. CASE op' # Ended(o, "failed")
  BY <1>1, <1>3, NextEntityKeeps DEF VerifyGone
<1>4. QED
  BY <1>2, <1>3

LEMMA PlanDeletionKeeps ==
  ASSUME IInv, NEW o \in Ops, PlanDeletion(o)
  PROVE  IInv'
<1> DEFINE s == op[o].server
           first == <<"deployment", "service", "env">>
           rest == IF deployed[s].identity THEN <<"identity">> ELSE << >>
           todo == first \o rest
<1>1. /\ op[o].pc = "redelete" /\ Live(op[o]) /\ op[o].kind = "delete"
      /\ s \in Servers /\ UNCHANGED <<stores, prepared, raced, contended>>
  BY KindAt DEF PlanDeletion, At, Other, stores, IInv, Shape, RequestOK, Live
<1>2. CASE op' = Ended(o, "failed")
  BY <1>1, <1>2, EndedKeeps DEF Final
<1>3. CASE op' # Ended(o, "failed")
  <2>1. Alone(o) /\ op'[o] = [op[o] EXCEPT !.todo = todo, !.pc = "unload"]
    BY <1>3 DEF PlanDeletion, Alone, IInv, Shape
  <2>2. first \in Seq(Docs) /\ rest \in Seq(Docs) /\ Len(first) = 3
    <3>1. /\ "deployment" \in Docs /\ "service" \in Docs /\ "env" \in Docs
          /\ "identity" \in Docs
      BY DEF Docs
    <3>2. <<"identity">> \in Seq(Docs) /\ << >> \in Seq(Docs)
      BY <3>1
    <3>3. QED
      BY <3>1, <3>2
  <2>3. first[1] = "deployment" /\ first[2] = "service" /\ first[3] = "env"
    OBVIOUS
  <2> HIDE DEF first, rest
  <2>4. /\ todo \in Seq(Docs) /\ Len(todo) \in Nat /\ Len(todo) >= 3
        /\ \A i \in 1..3 : todo[i] = first[i]
    <3>1. /\ todo \in Seq(Docs) /\ Len(todo) = Len(first) + Len(rest)
          /\ \A i \in 1..Len(first) + Len(rest) :
               todo[i] = IF i <= Len(first) THEN first[i] ELSE rest[i - Len(first)]
      BY <2>2, ConcatProperties
    <3>2. Len(rest) \in Nat
      BY <2>2
    <3>3. QED
      BY <2>2, <3>1, <3>2
  <2> HIDE DEF todo
  <2>5. todo # << >>
    BY <2>4
  <2>6. /\ todo[1] = "deployment"
        /\ \A d \in Docs : d = "identity" \/ Listed(d, todo)
    BY <2>3, <2>4 DEF Docs, Listed
  <2>7. Onward(o, "unload", todo)
    BY <1>1, <2>1, <2>4, <2>5, ListEffect DEF IInv, Stages, Final, Asking
  <2>8. ZmsKnown(o)'
    BY <1>1, <2>7 DEF IInv, Knows, ZmsKnown, ZmsFits, Templated, Onward, Advances, stores
  <2>9. ObjectsKnown(o)'
    <3>1. objects[s] \subseteq Docs
      BY <1>1 DEF IInv, Shape, StoresOK
    <3>2. QED
      BY <1>1, <2>6, <2>7, <3>1 DEF ObjectsKnown, ObjectsFit, Onward, Advances, stores
  <2>10. KeysKnown(o)' /\ Keyless(o)'
    BY <1>1, <2>7 DEF KeysKnown, CreationFits, UpdateFits, Keyless, Onward
  <2>11. QED
    BY <1>1, <2>7, <2>8, <2>9, <2>10, QuietKeeps DEF Onward, Knows
<1>4. QED
  BY <1>2, <1>3

-----------------------------------------------------------------------------
(* Steps that write to ZMS *)

\* No deletion of the server overlaps with another request, unless that is on
\* record.
LEMMA NoOtherDeletion ==
  ASSUME Overlaps, NEW o \in Ops, NEW p \in Ops \ {o}, Live(op[o]), Live(op[p]),
         op[p].server = op[o].server, op[o].server \notin contended
  PROVE  op[o].kind # "delete" /\ op[p].kind # "delete"
BY DEF Overlaps

LEMMA NoOtherCreation ==
  ASSUME Overlaps, NEW o \in Ops, NEW p \in Ops \ {o}, Live(op[o]), Live(op[p]),
         op[p].server = op[o].server, op[o].server \notin raced, op[o].kind = "create"
  PROVE  op[p].kind # "create"
BY DEF Overlaps

\* What a policy of sources says may change, everything else is only added:
\* then the others know what they knew.
LEMMA AddedKnown ==
  ASSUME NEW r, NEW facts, NEW more, ZmsFits(r, facts), r.kind # "delete",
         facts \ SourcePolicy \subseteq more
  PROVE  ZmsFits(r, more)
<1>1. TemplateFacts \cap SourcePolicy = {}
  BY DEF TemplateFacts, SourcePolicy, Role, Member, Jag, Source
<1>2. NeededFor(r) \cap SourcePolicy = {}
  BY DEF NeededFor, SourcePolicy, Member, Helper, Source
<1>3. QED
  BY <1>1, <1>2 DEF ZmsFits

\* A step that writes to ZMS keeps the invariant, if the request itself knows
\* what it has to.
LEMMA ZmsStep ==
  ASSUME IInv, NEW o \in Ops, Advances(o), Knows(o)', NEW facts \in SUBSET Facts,
         zms' = [zms EXCEPT ![op[o].server] = facts],
         op[o].kind = "delete" \/ zms[op[o].server] \ SourcePolicy \subseteq facts,
         UNCHANGED <<objects, deployed, bootstrap, publicKey, prepared, raced, contended>>
  PROVE  IInv'
<1> DEFINE s == op[o].server
<1>1. /\ Live(op[o]) /\ Alone(o) /\ s \in Servers /\ StoresOK /\ Overlaps
      /\ \A q \in Servers : zms'[q] = IF q = s THEN facts ELSE zms[q]
  BY DEF Advances, IInv, Shape, RequestOK, Live, StoresOK
<1>2. Shape'
  BY <1>1, ShapeKept DEF IInv, Advances, StoresOK
<1>3. Overlaps'
  BY <1>1, OverlapsKept
<1>4. ASSUME NEW p \in Ops \ {o} PROVE Knows(p)'
  <2>1. op'[p] = op[p] /\ Knows(p) /\ Manifest(p)' = Manifest(p)
    BY <1>1 DEF Alone, IInv, Manifest
  <2>2. ZmsKnown(p)'
    <3> SUFFICES ASSUME Live(op[p]), op[p].server \notin contended
                 PROVE  ZmsFits(op[p], zms'[op[p].server])
      BY <2>1 DEF ZmsKnown
    <3>1. ZmsFits(op[p], zms[op[p].server]) /\ op[p].server \in Servers
      BY <2>1 DEF Knows, ZmsKnown, IInv, Shape, RequestOK, Live
    <3>2. CASE op[p].server # s
      BY <1>1, <3>1, <3>2
    <3>3. CASE op[p].server = s
      <4>1. op[o].kind # "delete" /\ op[p].kind # "delete"
        BY <1>1, <3>3, NoOtherDeletion
      <4>2. QED
        BY <1>1, <3>1, <3>3, <4>1, AddedKnown
    <3>4. QED
      BY <3>2, <3>3
  <2>3. ObjectsKnown(p)' /\ Keyless(p)'
    BY <2>1 DEF Knows, ObjectsKnown, Keyless, Calm
  <2>4. KeysKnown(p)'
    BY <2>1 DEF Knows, KeysKnown, CreationFits, UpdateFits, Calm, Has, Prepared
  <2>5. QED
    BY <2>2, <2>3, <2>4 DEF Knows
<1>5. ReferencesResolve' /\ KeyRegistered'
  BY DEF IInv, ReferencesResolve, KeyRegistered, Has
<1>6. QED
  BY <1>2, <1>3, <1>4, <1>5 DEF IInv

LEMMA ApplyTemplateKeeps ==
  ASSUME IInv, NEW o \in Ops, ApplyTemplate(o)
  PROVE  IInv'
<1> DEFINE s == op[o].server
           facts == zms[s] \cup TemplateFacts
<1>1. /\ op[o].pc = "template" /\ Live(op[o]) /\ op[o].kind \in {"create", "update", "access"}
      /\ s \in Servers /\ RequestOK(op[o]) /\ zms' = [zms EXCEPT ![s] = facts]
      /\ UNCHANGED <<objects, deployed, bootstrap, publicKey, prepared, raced, contended>>
  BY KindAt DEF ApplyTemplate, At, IInv, Shape, RequestOK
<1>2. Onward(o, "check", op[o].todo)
  BY <1>1, GotoEffect DEF ApplyTemplate, IInv, Stages, Final, Asking, Listing
<1>3. facts \in SUBSET Facts /\ zms'[s] = facts
  <2>1. TemplateFacts \subseteq Facts
    BY FactKinds DEF TemplateFacts, Roles
  <2>2. QED
    BY <1>1, <2>1 DEF IInv, Shape, StoresOK
<1>4. ZmsKnown(o)'
  <2> SUFFICES ASSUME s \notin contended PROVE ZmsFits(op'[o], facts)
    BY <1>1, <1>2, <1>3 DEF ZmsKnown, Onward, Advances
  <2>1. ZmsFits(op[o], zms[s])
    BY <1>1 DEF IInv, Knows, ZmsKnown
  <2>2. NeededFor(op'[o]) = NeededFor(op[o])
    BY <1>2 DEF Onward, NeededFor
  <2>3. QED
    BY <1>1, <1>2, <2>1, <2>2 DEF ZmsFits, Onward
<1>5. ObjectsKnown(o)' /\ KeysKnown(o)' /\ Keyless(o)'
  BY <1>1, <1>2, AskingKeys DEF Onward
<1>6. zms[s] \ SourcePolicy \subseteq facts
  OBVIOUS
<1> HIDE DEF facts
<1>7. QED
  BY <1>1, <1>2, <1>3, <1>4, <1>5, <1>6, ZmsStep DEF Onward, Knows

LEMMA PutFactsKeeps ==
  ASSUME IInv, NEW o \in Ops, PutFacts(o)
  PROVE  IInv'
<1> DEFINE s == op[o].server
           facts == Written(o)
<1>1. /\ op[o].pc = "put" /\ Live(op[o])
      /\ op[o].kind \in {"create", "update", "tool", "access"}
      /\ s \in Servers /\ RequestOK(op[o])
      /\ UNCHANGED <<objects, deployed, bootstrap, publicKey, prepared, raced, contended>>
  BY KindAt DEF PutFacts, At, IInv, Shape, RequestOK
<1>2. CASE Goto(o, "failed") /\ UNCHANGED zms
  <2>1. op' = Ended(o, "failed")
    BY <1>2 DEF Goto, Moved, Final
  <2>2. QED
    BY <1>1, <1>2, <2>1, EndedKeeps DEF Final, stores
<1>3. CASE zms' = [zms EXCEPT ![s] = facts] /\ Goto(o, "verify")
  <2>1. Onward(o, "verify", op[o].todo)
    BY <1>1, <1>3, GotoEffect DEF IInv, Stages, Final, Asking, Listing
  <2>2. facts \in SUBSET Facts
    <3>1. Head(op[o].todo) \in SUBSET Facts
      BY <1>1, TailList DEF RequestOK, Asking
    <3>2. op[o].sources \in SUBSET Facts
      BY <1>1 DEF RequestOK, Request
    <3>3. zms[s] \in SUBSET Facts
      BY <1>1 DEF IInv, Shape, StoresOK
    <3>4. QED
      BY <3>1, <3>2, <3>3 DEF Written
  <2>3. zms[s] \ SourcePolicy \subseteq facts
    BY DEF Written
  <2> HIDE DEF facts
  <2>4. zms'[s] = facts
    BY <1>1, <1>3 DEF IInv, Shape, StoresOK
  <2>5. ZmsKnown(o)'
    <3> SUFFICES ASSUME s \notin contended PROVE ZmsFits(op'[o], facts)
      BY <1>1, <2>1, <2>4 DEF ZmsKnown, Onward, Advances
    <3>1. ZmsFits(op[o], zms[s])
      BY <1>1 DEF IInv, Knows, ZmsKnown
    <3>2. ZmsFits(op[o], facts)
      BY <1>1, <2>3, <3>1, AddedKnown
    <3>3. NeededFor(op'[o]) = NeededFor(op[o])
      BY <2>1 DEF Onward, NeededFor
    <3>4. QED
      BY <1>1, <2>1, <3>2, <3>3 DEF ZmsFits, Templated, Onward
  <2>6. ObjectsKnown(o)' /\ KeysKnown(o)' /\ Keyless(o)'
    BY <1>1, <2>1, AskingKeys DEF Onward
  <2>7. QED
    BY <1>1, <1>3, <2>1, <2>2, <2>3, <2>5, <2>6, ZmsStep DEF Onward, Knows
<1>4. QED
  BY <1>2, <1>3 DEF PutFacts

LEMMA RemoveEntityKeeps ==
  ASSUME IInv, NEW o \in Ops, RemoveEntity(o)
  PROVE  IInv'
<1> DEFINE s == op[o].server
           facts == zms[s] \ Head(op[o].todo)
<1>1. /\ op[o].pc = "remove" /\ Live(op[o]) /\ op[o].kind = "delete"
      /\ s \in Servers /\ zms' = [zms EXCEPT ![s] = facts]
      /\ UNCHANGED <<objects, deployed, bootstrap, publicKey, prepared, raced, contended>>
  BY KindAt DEF RemoveEntity, At, IInv, Shape, RequestOK
<1>2. Onward(o, "gone", op[o].todo)
  BY <1>1, GotoEffect DEF RemoveEntity, IInv, Stages, Final, Asking, Listing
<1>3. facts \in SUBSET Facts /\ zms'[s] = facts
  BY <1>1 DEF IInv, Shape, StoresOK
<1>4. ZmsKnown(o)'
  <2> SUFFICES ASSUME s \notin contended PROVE ZmsFits(op'[o], facts)
    BY <1>1, <1>2, <1>3 DEF ZmsKnown, Onward, Advances
  <2>1. ZmsFits(op[o], zms[s])
    BY <1>1 DEF IInv, Knows, ZmsKnown
  <2>2. QED
    BY <1>1, <1>2, <2>1 DEF ZmsFits, Templated, Onward
<1>5. ObjectsKnown(o)' /\ KeysKnown(o)' /\ Keyless(o)'
  BY <1>1, <1>2, DeletionKnows DEF Onward
<1> HIDE DEF facts
<1>6. QED
  BY <1>1, <1>2, <1>3, <1>4, <1>5, ZmsStep DEF Onward, Knows

-----------------------------------------------------------------------------
(* The key is registered *)

\* What another request knows survives a step that changes nothing of its
\* server, and is not about the server's keys.
LEMMA ElsewhereKnown ==
  ASSUME IInv, NEW o \in Ops, NEW p \in Ops \ {o}, Alone(o),
         op[p].server \in Servers =>
           /\ objects'[op[p].server] = objects[op[p].server]
           /\ bootstrap'[op[p].server] = bootstrap[op[p].server]
           /\ zms'[op[p].server] = zms[op[p].server]
           /\ publicKey'[op[p].server] = publicKey[op[p].server],
         \A s \in Servers : publicKey'[s] \in {publicKey[s], o},
         \A s \in Servers : bootstrap'[s] \in {bootstrap[s], None, o},
         UNCHANGED <<prepared, raced, contended>>
  PROVE  Knows(p)'
<1>1. /\ op'[p] = op[p] /\ Knows(p) /\ Manifest(p)' = Manifest(p) /\ p # None
      /\ Live(op[p]) => op[p].server \in Servers
  BY RegistrationAssumption DEF Alone, IInv, Manifest, None, Shape, RequestOK, Live
<1>2. ZmsKnown(p)' /\ ObjectsKnown(p)'
  BY <1>1 DEF Knows, ZmsKnown, ObjectsKnown
<1>3. KeysKnown(p)'
  BY <1>1 DEF Knows, KeysKnown, CreationFits, UpdateFits, Calm, Has, Prepared
<1>4. Keyless(p)'
  BY <1>1 DEF Knows, Keyless, Calm
<1>5. QED
  BY <1>2, <1>3, <1>4 DEF Knows

\* A creation past the dry run has found no Deployment, and there is none.
LEMMA NoDeploymentYet ==
  ASSUME IInv, NEW o \in Ops, Live(op[o]), op[o].server \in Calm, op[o].kind = "create",
         op[o].pc \in {"template", "check", "put", "verify", "checkkey", "verifykey",
                       "provider", "trust"}
  PROVE  ~Has(op[o].server, "deployment")
<1>1. NoneThere(Manifest(o), objects[op[o].server])
  BY DEF IInv, Knows, KeysKnown, CreationFits
<1>2. QED
  BY <1>1, ManifestList DEF NoneThere, Listed, Has

LEMMA RegisterKeyKeeps ==
  ASSUME IInv, NEW o \in Ops, RegisterKey(o)
  PROVE  IInv'
<1> DEFINE s == op[o].server
<1>1. /\ op[o].pc = "checkkey" /\ Live(op[o]) /\ op[o].kind = "create"
      /\ s \in Servers /\ publicKey' = [publicKey EXCEPT ![s] = o] /\ Overlaps /\ StoresOK
      /\ UNCHANGED <<objects, deployed, bootstrap, zms, prepared, raced, contended>>
  BY KindAt DEF RegisterKey, At, IInv, Shape, RequestOK
<1>2. Onward(o, "verifykey", op[o].todo)
  BY <1>1, GotoEffect DEF RegisterKey, IInv, Stages, Final, Asking, Listing
<1>3. /\ StoresOK' /\ publicKey'[s] = o
      /\ \A q \in Servers \ {s} : publicKey'[q] = publicKey[q]
  BY <1>1 DEF StoresOK
<1>4. Shape' /\ Overlaps'
  BY <1>1, <1>2, <1>3, ShapeKept, OverlapsKept DEF IInv, Onward, Advances
<1>5. Knows(o)'
  <2>1. ZmsKnown(o)' /\ ObjectsKnown(o)' /\ Keyless(o)'
    BY <1>1, <1>2 DEF IInv, Knows, ZmsKnown, ZmsFits, Templated, ObjectsKnown, ObjectsFit,
                      Keyless, Onward, Advances
  <2>2. Manifest(o)' = Manifest(o)
    BY <1>2 DEF Onward, Manifest
  <2>3. KeysKnown(o)'
    BY <1>1, <1>2, <2>2 DEF IInv, Knows, KeysKnown, CreationFits, UpdateFits, Onward,
                            Advances, Calm
  <2>4. QED
    BY <2>1, <2>3 DEF Knows
<1>6. ASSUME NEW p \in Ops \ {o} PROVE Knows(p)'
  <2>1. CASE op[p].server # s
    BY <1>1, <1>2, <1>3, <2>1, ElsewhereKnown DEF Onward, Advances
  <2>2. CASE op[p].server = s
    <3>1. op'[p] = op[p] /\ Knows(p) /\ Manifest(p)' = Manifest(p)
      BY <1>2 DEF Onward, Advances, Alone, IInv, Manifest
    <3>2. ZmsKnown(p)' /\ ObjectsKnown(p)'
      BY <1>1, <3>1 DEF Knows, ZmsKnown, ObjectsKnown
    <3>3. KeysKnown(p)'
      <4> SUFFICES ASSUME Live(op[p]), s \in Calm PROVE CreationFits(p)' /\ UpdateFits(p)'
        BY <1>1, <2>2, <3>1 DEF KeysKnown, Calm
      <4>1. CreationFits(p) /\ op[p].kind # "create"
        BY <1>1, <2>2, <3>1, NoOtherCreation DEF Knows, KeysKnown, Calm
      <4>2. ObjectsFit(op[p], objects[s]) /\ ~Has(s, "deployment")
        BY <1>1, <2>2, <3>1, NoDeploymentYet DEF Knows, ObjectsKnown, Calm
      <4>3. UpdateFits(p)'
        BY <3>1, <4>2 DEF ObjectsFit, UpdateFits, Has
      <4>4. CreationFits(p)'
        BY <1>1, <3>1, <4>1 DEF CreationFits, Has
      <4>5. QED
        BY <4>3, <4>4
    <3>4. Keyless(p)'
      BY <1>1, <1>3, <3>1 DEF Knows, Keyless, Calm
    <3>5. QED
      BY <3>2, <3>3, <3>4 DEF Knows
  <2>3. QED
    BY <2>1, <2>2
<1>7. ReferencesResolve'
  BY <1>1 DEF IInv, ReferencesResolve, Has
<1>8. KeyRegistered'
  <2>1. s \in Calm => ~Has(s, "deployment")
    BY <1>1, NoDeploymentYet
  <2>2. QED
    BY <1>1, <1>3, <2>1 DEF IInv, KeyRegistered, Calm, Has
<1>9. QED
  BY <1>4, <1>5, <1>6, <1>7, <1>8 DEF IInv

-----------------------------------------------------------------------------
(* Patches of the Deployment *)

\* No request relies on what the Deployment says; only its own end matters.
LEMMA PatchKeeps ==
  ASSUME IInv, NEW o \in Ops, Advances(o), Knows(o)', NEW d \in Configuration,
         deployed' = [deployed EXCEPT ![op[o].server] = d],
         op[o].server \notin contended =>
           /\ d.env => Has(op[o].server, "env")
           /\ d.identity => Has(op[o].server, "identity"),
         op[o].server \in Calm /\ d.identity =>
           publicKey[op[o].server] = bootstrap[op[o].server] /\ Prepared(op[o].server),
         UNCHANGED <<objects, bootstrap, zms, publicKey, prepared, raced, contended>>
  PROVE  IInv'
<1>1. /\ op[o].server \in Servers /\ Overlaps /\ StoresOK
      /\ \A q \in Servers : deployed'[q] = IF q = op[o].server THEN d ELSE deployed[q]
  BY DEF Advances, IInv, Shape, RequestOK, Live, StoresOK
<1>2. StoresOK'
  BY <1>1 DEF StoresOK
<1>3. Shape' /\ Overlaps'
  BY <1>1, <1>2, ShapeKept, OverlapsKept DEF IInv, Advances
<1>4. ASSUME NEW p \in Ops \ {o} PROVE Knows(p)'
  BY ElsewhereKnown DEF Advances
<1>5. ReferencesResolve'
  BY <1>1 DEF IInv, ReferencesResolve, Has
<1>6. KeyRegistered'
  BY <1>1 DEF IInv, KeyRegistered, Has, Calm, Prepared
<1>7. QED
  BY <1>3, <1>4, <1>5, <1>6 DEF IInv

LEMMA PatchDeploymentKeeps ==
  ASSUME IInv, NEW o \in Ops, PatchDeployment(o)
  PROVE  IInv'
<1> DEFINE s == op[o].server
           identity == op[o].access = "hub" /\ op[o].seen.identity
           d == Deployed(o, identity)
<1>1. /\ op[o].pc = "patch" /\ Live(op[o]) /\ op[o].kind = "update" /\ RequestOK(op[o])
      /\ s \in Servers
      /\ UNCHANGED <<objects, bootstrap, publicKey, zms, prepared, raced, contended>>
  BY KindAt DEF PatchDeployment, At, IInv, Shape, RequestOK
<1>2. CASE Goto(o, "failed") /\ UNCHANGED deployed
  <2>1. op' = Ended(o, "failed")
    BY <1>2 DEF Goto, Moved, Final
  <2>2. QED
    BY <1>1, <1>2, <2>1, EndedKeeps DEF Final, stores
<1>3. CASE deployed' = [deployed EXCEPT ![s] = d] /\ Goto(o, "patchservice")
  <2>1. Onward(o, "patchservice", op[o].todo)
    BY <1>1, <1>3, GotoEffect DEF IInv, Stages, Final, Asking, Listing
  <2>2. Knows(o)'
    BY <1>1, <2>1, NothingKnown DEF Onward
  <2>3. /\ d \in Configuration /\ d.identity = identity
        /\ d.env => op[o].env \in {"new", "keep"}
    <3>1. /\ op[o].access \in {"hub", "server"} /\ op[o].env \in {"none", "new", "keep"}
          /\ op[o].tools \in [Tools -> {None} \cup Audiences]
      BY <1>1 DEF RequestOK, Request
    <3>2. identity \in BOOLEAN /\ (op[o].access = "hub") \in BOOLEAN
          /\ (op[o].env # "none") \in BOOLEAN
      <4>1. op[o].seen.identity \in BOOLEAN
        BY <1>1 DEF RequestOK, Request, Configuration
      <4>2. QED
        BY <4>1
    <3> HIDE DEF identity
    <3>3. QED
      BY <3>1, <3>2 DEF Deployed, Configuration
  <2>4. s \notin contended => ObjectsFit(op[o], objects[s])
    BY <1>1 DEF IInv, Knows, ObjectsKnown
  <2>5. s \in Calm => UpdateFits(o)
    BY <1>1 DEF IInv, Knows, KeysKnown
  <2> HIDE DEF d
  <2>6. s \notin contended =>
          (d.env => Has(s, "env")) /\ (d.identity => Has(s, "identity"))
    BY <1>1, <2>3, <2>4 DEF ObjectsFit, Has
  <2>7. s \in Calm /\ d.identity => publicKey[s] = bootstrap[s] /\ Prepared(s)
    BY <1>1, <2>3, <2>5 DEF UpdateFits
  <2>8. QED
    BY <1>1, <1>3, <2>1, <2>2, <2>3, <2>6, <2>7, PatchKeeps DEF Onward
<1>4. QED
  BY <1>2, <1>3 DEF PatchDeployment

\* A patch that leaves alone whether there is an identity and a secret.
LEMMA LastPatchKeeps ==
  ASSUME IInv, NEW o \in Ops, Live(op[o]), NEW d \in Configuration,
         Has(op[o].server, "deployment"), op' = Ended(o, "done"),
         deployed' = [deployed EXCEPT ![op[o].server] = d],
         d.env = deployed[op[o].server].env,
         d.identity = deployed[op[o].server].identity,
         UNCHANGED <<objects, bootstrap, zms, publicKey, prepared, raced, contended>>
  PROVE  IInv'
<1>1. EndsAs(o, "done") /\ op[o].server \in Servers
  BY EndedEffect DEF IInv, Final, Shape, RequestOK, Live
<1>2. Knows(o)'
  BY <1>1, EndedKnows DEF Final
<1>3. op[o].server \notin contended =>
        /\ d.env => Has(op[o].server, "env")
        /\ d.identity => Has(op[o].server, "identity")
  BY <1>1 DEF IInv, ReferencesResolve
<1>4. op[o].server \in Calm /\ d.identity =>
        publicKey[op[o].server] = bootstrap[op[o].server] /\ Prepared(op[o].server)
  BY DEF IInv, KeyRegistered, Calm, Prepared
<1>5. QED
  BY <1>1, <1>2, <1>3, <1>4, PatchKeeps DEF EndsAs

LEMMA PatchToolKeeps ==
  ASSUME IInv, NEW o \in Ops, PatchTool(o)
  PROVE  IInv'
<1> DEFINE s == op[o].server
           tools == [op[o].seen.tools EXCEPT ![op[o].tool] = op[o].tools[op[o].tool]]
           d == [deployed[s] EXCEPT !.tools = tools]
<1>1. /\ Live(op[o]) /\ RequestOK(op[o]) /\ s \in Servers /\ StoresOK
      /\ UNCHANGED <<objects, bootstrap, publicKey, zms, prepared, raced, contended>>
  BY KindAt DEF PatchTool, At, IInv, Shape, RequestOK
<1>2. CASE Goto(o, "failed") /\ UNCHANGED deployed
  <2>1. op' = Ended(o, "failed")
    BY <1>2 DEF Goto, Moved, Final
  <2>2. QED
    BY <1>1, <1>2, <2>1, EndedKeeps DEF Final, stores
<1>3. CASE /\ Has(s, "deployment") /\ Goto(o, "done")
           /\ deployed' = [deployed EXCEPT ![s].tools = tools]
  <2>1. op' = Ended(o, "done")
    BY <1>3 DEF Goto, Moved, Final
  <2>2. tools \in [Tools -> {None} \cup Audiences]
    <3>1. /\ op[o].seen.tools \in [Tools -> {None} \cup Audiences]
          /\ op[o].tools \in [Tools -> {None} \cup Audiences]
      BY <1>1 DEF RequestOK, Request, Configuration
    <3>2. QED
      BY <3>1
  <2> HIDE DEF tools
  <2>3. d \in Configuration /\ d.env = deployed[s].env /\ d.identity = deployed[s].identity
    <3>1. deployed[s] \in Configuration
      BY <1>1 DEF StoresOK
    <3>2. QED
      BY <2>2, <3>1 DEF Configuration
  <2>4. deployed' = [deployed EXCEPT ![s] = d]
    BY <1>1, <1>3 DEF StoresOK
  <2> HIDE DEF d
  <2>5. QED
    BY <1>1, <1>3, <2>1, <2>3, <2>4, LastPatchKeeps
<1>4. QED
  BY <1>2, <1>3 DEF PatchTool

LEMMA ReconcileKeeps ==
  ASSUME IInv, NEW o \in Ops, Reconcile(o)
  PROVE  IInv'
<1> DEFINE s == op[o].server
           d == [deployed[s] EXCEPT !.scoped = TRUE]
<1>1. /\ Live(op[o]) /\ RequestOK(op[o]) /\ s \in Servers /\ StoresOK
      /\ UNCHANGED <<objects, bootstrap, publicKey, zms, prepared, raced, contended>>
  BY KindAt DEF Reconcile, At, IInv, Shape, RequestOK
<1>2. CASE Goto(o, "failed") /\ UNCHANGED deployed
  <2>1. op' = Ended(o, "failed")
    BY <1>2 DEF Goto, Moved, Final
  <2>2. QED
    BY <1>1, <1>2, <2>1, EndedKeeps DEF Final, stores
<1>3. CASE /\ Has(s, "deployment") /\ Goto(o, "done")
           /\ deployed' = [deployed EXCEPT ![s].scoped = TRUE]
  <2>1. op' = Ended(o, "done")
    BY <1>3 DEF Goto, Moved, Final
  <2>2. d \in Configuration /\ d.env = deployed[s].env /\ d.identity = deployed[s].identity
    <3>1. deployed[s] \in Configuration
      BY <1>1 DEF StoresOK
    <3>2. QED
      BY <3>1 DEF Configuration
  <2>3. deployed' = [deployed EXCEPT ![s] = d]
    BY <1>1, <1>3 DEF StoresOK
  <2> HIDE DEF d
  <2>4. QED
    BY <1>1, <1>3, <2>1, <2>2, <2>3, LastPatchKeeps
<1>4. QED
  BY <1>2, <1>3 DEF Reconcile

-----------------------------------------------------------------------------
(* Steps that add a document *)

LEMMA MoreObjects ==
  ASSUME NEW r, NEW objs, NEW more, ObjectsFit(r, objs), r.pc # "unload", objs \subseteq more
  PROVE  ObjectsFit(r, more)
BY DEF ObjectsFit, Precedes

\* What the others know when one adds the document d to its server: of the keys
\* of that server it has to be shown.
LEMMA AddedDocument ==
  ASSUME IInv, NEW o \in Ops, Advances(o), op[o].kind # "delete", NEW d,
         objects' = [objects EXCEPT ![op[o].server] = @ \cup {d}],
         \A q \in Servers : \/ bootstrap'[q] = bootstrap[q]
                            \/ q = op[o].server /\ bootstrap'[q] = o,
         \A p \in Ops \ {o} :
           Live(op[p]) /\ op[p].server = op[o].server /\ op[o].server \in Calm =>
             CreationFits(p)' /\ UpdateFits(p)',
         UNCHANGED <<zms, publicKey, prepared, raced, contended>>,
         NEW p \in Ops \ {o}
  PROVE  Knows(p)'
<1> DEFINE s == op[o].server
<1>1. /\ Live(op[o]) /\ Alone(o) /\ s \in Servers /\ Overlaps
      /\ objects'[s] = objects[s] \cup {d}
      /\ \A q \in Servers \ {s} : objects'[q] = objects[q]
  BY DEF Advances, IInv, Shape, RequestOK, Live, StoresOK
<1>2. CASE op[p].server # s
  BY <1>1, <1>2, ElsewhereKnown
<1>3. CASE op[p].server = s
  <2>1. op'[p] = op[p] /\ Knows(p)
    BY <1>1 DEF Alone, IInv
  <2>2. ZmsKnown(p)'
    BY <2>1 DEF Knows, ZmsKnown
  <2>3. ObjectsKnown(p)'
    <3> SUFFICES ASSUME Live(op[p]), s \notin contended
                 PROVE  ObjectsFit(op[p], objects'[s])
      BY <1>3, <2>1 DEF ObjectsKnown
    <3>1. op[p].kind # "delete"
      BY <1>1, <1>3, NoOtherDeletion
    <3>2. op[p].pc # "unload"
      BY <3>1, KindAt DEF IInv
    <3>3. ObjectsFit(op[p], objects[s])
      BY <1>3, <2>1 DEF Knows, ObjectsKnown
    <3>4. QED
      BY <1>1, <3>2, <3>3, MoreObjects
  <2>4. KeysKnown(p)'
    BY <1>3, <2>1 DEF KeysKnown, Calm
  <2>5. Keyless(p)'
    BY <1>3, <2>1 DEF Knows, Keyless, Calm
  <2>6. QED
    BY <2>2, <2>3, <2>4, <2>5 DEF Knows
<1>4. QED
  BY <1>2, <1>3

LEMMA ApplySecretKeeps ==
  ASSUME IInv, NEW o \in Ops, ApplySecret(o)
  PROVE  IInv'
<1> DEFINE s == op[o].server
<1>1. /\ op[o].pc = "applysecret" /\ Live(op[o]) /\ op[o].kind = "update"
      /\ s \in Servers /\ StoresOK /\ Overlaps
      /\ UNCHANGED <<deployed, bootstrap, publicKey, zms, prepared, raced, contended>>
  BY KindAt DEF ApplySecret, At, IInv, Shape, RequestOK
<1>2. CASE Goto(o, "failed") /\ UNCHANGED objects
  <2>1. op' = Ended(o, "failed")
    BY <1>2 DEF Goto, Moved, Final
  <2>2. QED
    BY <1>1, <1>2, <2>1, EndedKeeps DEF Final, stores
<1>3. CASE objects' = [objects EXCEPT ![s] = @ \cup {"env"}] /\ Goto(o, "patch")
  <2>1. Onward(o, "patch", op[o].todo)
    BY <1>1, <1>3, GotoEffect DEF IInv, Stages, Final, Asking, Listing
  <2>2. /\ StoresOK' /\ objects'[s] = objects[s] \cup {"env"}
        /\ \A q \in Servers \ {s} : objects'[q] = objects[q]
    BY <1>1, <1>3 DEF StoresOK, Docs
  <2>3. Shape' /\ Overlaps'
    BY <1>1, <2>1, <2>2, ShapeKept, OverlapsKept DEF IInv, Onward, Advances
  <2>4. Knows(o)'
    <3>1. ZmsKnown(o)' /\ Keyless(o)'
      BY <1>1, <2>1 DEF ZmsKnown, ZmsFits, Templated, Keyless, Onward
    <3>2. ObjectsKnown(o)'
      BY <1>1, <2>1, <2>2 DEF IInv, Knows, ObjectsKnown, ObjectsFit, Onward, Advances
    <3>3. KeysKnown(o)'
      BY <1>1, <2>1 DEF IInv, Knows, KeysKnown, CreationFits, UpdateFits, Onward,
                        Advances, Calm, Prepared
    <3>4. QED
      BY <3>1, <3>2, <3>3 DEF Knows
  <2>5. ASSUME NEW p \in Ops \ {o}, Live(op[p]), op[p].server = s, s \in Calm
        PROVE  CreationFits(p)' /\ UpdateFits(p)'
    <3>1. op'[p] = op[p] /\ Knows(p) /\ Manifest(p)' = Manifest(p)
      BY <2>1 DEF Onward, Advances, Alone, IInv, Manifest
    <3>2. CreationFits(p) /\ UpdateFits(p) /\ Has(s, "deployment")
      <4>1. ObjectsFit(op[o], objects[s])
        BY <1>1, <2>5 DEF IInv, Knows, ObjectsKnown, Calm
      <4>2. QED
        BY <1>1, <2>5, <3>1, <4>1 DEF Knows, KeysKnown, ObjectsFit, Has
    <3>3. UpdateFits(p)'
      BY <1>1, <3>1, <3>2 DEF UpdateFits, Prepared
    <3>4. CASE op[p].kind # "create"
      <4>1. op[p].pc \notin {"collision", "dryrun", "create"}
        BY <3>4, KindAt DEF IInv
      <4>2. QED
        BY <3>1, <3>3, <3>4, <4>1 DEF CreationFits
    <3>5. CASE op[p].pc = "create"
      <4>1. NoneThere(op[p].todo, objects[s]) /\ Ordered(op[p].todo)
        BY <2>5, <3>2, <3>5 DEF CreationFits
      <4>2. ~Listed("env", op[p].todo)
        <5>1. ~Listed("deployment", op[p].todo)
          BY <3>2, <4>1 DEF NoneThere, Listed, Has
        <5>2. op[p].todo \in Seq(Docs)
          BY <3>5 DEF IInv, Shape, RequestOK, Listing
        <5>3. \A i \in 1..Len(op[p].todo) : \A j \in (i + 1)..Len(op[p].todo) :
                 j \in 1..Len(op[p].todo)
          BY <5>2
        <5>4. QED
          BY <4>1, <5>1, <5>3 DEF Ordered, Listed
      <4>3. NoneThere(op[p].todo, objects'[s])
        BY <2>2, <4>1, <4>2 DEF NoneThere, Listed
      <4>4. QED
        BY <1>1, <2>5, <3>1, <3>2, <3>3, <3>5, <4>3 DEF CreationFits
    <3>6. CASE op[p].kind = "create" /\ op[p].pc = "routes"
      BY <1>1, <3>1, <3>2, <3>3, <3>6 DEF CreationFits
    <3>7. CASE op[p].kind = "create" /\ op[p].pc \notin {"routes", "create"}
      <4>1. op[p].pc \in Stages("create")
        BY <2>5, <3>7 DEF IInv, Shape, RequestOK
      <4>2. op[p].pc \notin {"collision", "dryrun"}
        BY <2>5, <3>2 DEF CreationFits
      <4>3. op[p].pc \in {"template", "check", "put", "verify", "checkkey", "verifykey",
                          "provider", "trust"}
        BY <3>7, <4>1, <4>2 DEF Stages
      <4>4. QED
        BY <2>5, <3>2, <3>7, <4>3, NoDeploymentYet
    <3>8. QED
      BY <3>4, <3>5, <3>6, <3>7
  <2>6. \A p \in Ops \ {o} : Knows(p)'
    BY <1>1, <1>3, <2>1, <2>5, AddedDocument DEF Onward
  <2>7. ReferencesResolve' /\ KeyRegistered'
    BY <1>1, <2>2 DEF IInv, ReferencesResolve, KeyRegistered, Has
  <2>8. QED
    BY <2>3, <2>4, <2>6, <2>7 DEF IInv
<1>4. QED
  BY <1>2, <1>3 DEF ApplySecret

\* What is true of the documents still to create is true of the rest, once the
\* first of them is there.
LEMMA TailFits ==
  ASSUME NEW S, NEW list \in Seq(S), list # << >>, NEW objs
  PROVE  /\ \A d : Listed(d, list) => d = Head(list) \/ Listed(d, Tail(list))
         /\ \A d : Precedes(list, objs, d) =>
                     Precedes(Tail(list), objs \cup {Head(list)}, d)
         /\ NoneThere(list, objs) /\ Ordered(list) =>
              NoneThere(Tail(list), objs \cup {Head(list)}) /\ Ordered(Tail(list))
<1> DEFINE tail == Tail(list)
           n == Len(list)
<1>1. /\ n \in Nat \ {0} /\ Len(tail) = n - 1 /\ Head(list) = list[1]
      /\ \A i \in 1..(n - 1) : tail[i] = list[i + 1]
  BY TailList
<1> HIDE DEF tail, n
<1>2. /\ \A i \in 1..(n - 1) : i + 1 \in 1..n /\ i + 1 # 1 /\ (i + 1) - 1 = i
      /\ \A i \in 1..n : i = 1 \/ (i - 1 \in 1..(n - 1) /\ (i - 1) + 1 = i)
      /\ 1 \in 1..n
  BY <1>1
<1>3. ASSUME NEW d, Listed(d, list) PROVE d = list[1] \/ Listed(d, tail)
  <2>1. PICK i \in 1..n : list[i] = d
    BY <1>3 DEF Listed, n
  <2>2. i # 1 => i - 1 \in 1..(n - 1) /\ tail[i - 1] = d
    BY <1>1, <1>2, <2>1
  <2>3. QED
    BY <1>1, <2>1, <2>2 DEF Listed
<1>4. ASSUME NEW d, Precedes(list, objs, d)
      PROVE  Precedes(tail, objs \cup {list[1]}, d)
  <2> SUFFICES ASSUME NEW i \in 1..(n - 1), tail[i] = "deployment", d \notin objs, d # list[1]
               PROVE  \E j \in 1..(i - 1) : tail[j] = d
    BY <1>1 DEF Precedes
  <2>1. PICK j \in 1..((i + 1) - 1) : list[j] = d
    BY <1>1, <1>2, <1>4 DEF Precedes, n
  <2>2. j # 1 /\ j - 1 \in 1..(i - 1) /\ j - 1 \in 1..(n - 1) /\ (j - 1) + 1 = j
    BY <1>1, <2>1
  <2>3. QED
    BY <1>1, <2>1, <2>2
<1>5. ASSUME NoneThere(list, objs), Ordered(list)
      PROVE  NoneThere(tail, objs \cup {list[1]}) /\ Ordered(tail)
  <2>1. \A i, j \in 1..n : list[i] = list[j] => i = j
    BY <1>5 DEF Ordered, n
  <2>2. NoneThere(tail, objs \cup {list[1]})
    BY <1>1, <1>2, <1>5, <2>1 DEF NoneThere, n
  <2>3. \A i, j \in 1..(n - 1) : tail[i] = tail[j] => i = j
    <3> SUFFICES ASSUME NEW i \in 1..(n - 1), NEW j \in 1..(n - 1), tail[i] = tail[j]
                 PROVE  i = j
      OBVIOUS
    <3>1. i + 1 = j + 1
      BY <1>1, <1>2, <2>1
    <3>2. QED
      BY <3>1
  <2>4. ASSUME NEW i \in 1..(n - 1), tail[i] \in {"env", "identity"}
        PROVE  \E j \in (i + 1)..(n - 1) : tail[j] = "deployment"
    <3>1. PICK j \in ((i + 1) + 1)..n : list[j] = "deployment"
      BY <1>1, <1>2, <1>5, <2>4 DEF Ordered, n
    <3>2. j - 1 \in (i + 1)..(n - 1) /\ j - 1 \in 1..(n - 1) /\ (j - 1) + 1 = j
      BY <1>1, <3>1
    <3>3. QED
      BY <1>1, <3>1, <3>2
  <2>5. QED
    BY <1>1, <2>2, <2>3, <2>4 DEF Ordered
<1>6. QED
  BY <1>1, <1>3, <1>4, <1>5 DEF tail

\* The Deployment of a list in order comes after the documents that it names.
LEMMA DeploymentLater ==
  ASSUME NEW S, NEW list \in Seq(S), list # << >>, Ordered(list)
  PROVE  /\ Head(list) \in {"env", "identity"} => Listed("deployment", list)
         /\ Head(list) = "deployment" => ~Listed("identity", list)
<1>1. Len(list) \in Nat \ {0} /\ Head(list) = list[1]
  BY TailList
<1>2. Head(list) \in {"env", "identity"} => Listed("deployment", list)
  BY <1>1 DEF Ordered, Listed
<1>3. ASSUME Head(list) = "deployment", NEW i \in 1..Len(list), list[i] = "identity"
      PROVE  FALSE
  <2>1. PICK j \in (i + 1)..Len(list) : list[j] = "deployment"
    BY <1>3 DEF Ordered
  <2>2. j \in 1..Len(list) /\ 1 \in 1..Len(list) /\ j # 1
    BY <1>1, <2>1
  <2>3. QED
    BY <1>1, <1>3, <2>1, <2>2 DEF Ordered
<1>4. QED
  BY <1>2, <1>3 DEF Listed

LEMMA CreateDocumentKeeps ==
  ASSUME IInv, NEW o \in Ops, CreateDocument(o)
  PROVE  IInv'
<1> DEFINE s == op[o].server
           d == Head(op[o].todo)
           rest == Tail(op[o].todo)
           taken == Has(s, d)
           error == op[o].error \/ taken
           run == Deployed(o, op[o].access = "hub")
<1>1. /\ op[o].pc = "create" /\ Live(op[o]) /\ op[o].kind = "create" /\ RequestOK(op[o])
      /\ s \in Servers /\ StoresOK /\ Overlaps /\ op[o].env \in {"none", "new"}
      /\ op[o].todo \in Seq(Docs) /\ op[o].todo # << >> /\ d \in Docs
      /\ objects' = [objects EXCEPT ![s] = @ \cup {d}]
      /\ UNCHANGED <<zms, publicKey, prepared, raced, contended>>
  <2>1. op[o].pc = "create" /\ Live(op[o]) /\ op[o].kind = "create" /\ RequestOK(op[o])
    BY KindAt DEF CreateDocument, At, IInv, Shape
  <2>2. /\ s \in Servers /\ op[o].todo \in Seq(Docs) /\ op[o].todo # << >>
        /\ op[o].env \in {"none", "new"}
    BY <2>1 DEF RequestOK, Request, Listing
  <2>3. d \in Docs
    BY <2>2, TailList
  <2>4. QED
    BY <2>1, <2>2, <2>3 DEF CreateDocument, IInv, Shape
<1>2. /\ \A q \in Servers : objects'[q] = IF q = s THEN objects[s] \cup {d} ELSE objects[q]
      /\ \A q \in Servers : bootstrap'[q] =
           IF q = s /\ d = "identity" /\ ~taken THEN o ELSE bootstrap[q]
      /\ \A q \in Servers : deployed'[q] =
           IF q = s /\ d = "deployment" /\ ~taken THEN run ELSE deployed[q]
  BY <1>1 DEF CreateDocument, StoresOK
<1>3. run \in Configuration /\ run.env = (op[o].env # "none")
      /\ run.identity = (op[o].access = "hub")
  <2>1. op[o].access \in {"hub", "server"} /\ op[o].tools \in [Tools -> {None} \cup Audiences]
    BY <1>1 DEF RequestOK, Request
  <2>2. QED
    BY <2>1 DEF Deployed, Configuration
<1> HIDE DEF run
<1>4. StoresOK'
  <2>1. objects' \in [Servers -> SUBSET Docs]
    BY <1>1 DEF StoresOK
  <2>2. deployed' \in [Servers -> Configuration]
    BY <1>1, <1>3 DEF StoresOK, CreateDocument, run
  <2>3. bootstrap' \in [Servers -> Ops \cup {None}]
    BY <1>1 DEF StoresOK, CreateDocument
  <2>4. QED
    BY <1>1, <2>1, <2>2, <2>3 DEF StoresOK
<1>5. s \in Calm => CreationFits(o) /\ ~error /\ ~taken
  <2>1. s \in Calm => CreationFits(o)
    BY <1>1 DEF IInv, Knows, KeysKnown
  <2>2. s \in Calm => ~op[o].error /\ NoneThere(op[o].todo, objects[s])
    BY <1>1, <2>1 DEF CreationFits
  <2>3. 1 \in 1..Len(op[o].todo) /\ d = op[o].todo[1]
    BY <1>1, TailList
  <2>4. QED
    BY <2>1, <2>2, <2>3 DEF NoneThere, Has
<1>6. s \notin contended => ObjectsFit(op[o], objects[s])
  BY <1>1 DEF IInv, Knows, ObjectsKnown
<1>7. s \in Calm /\ d = "identity" => ~Has(s, "deployment")
  BY <1>1, <1>5, DeploymentLater DEF CreationFits, NoneThere, Listed, Has
<1>8. Advances(o) /\ Knows(o)'
  <2>1. CASE Len(op[o].todo) > 1
    <3>1. Alone(o) /\ op'[o] = [op[o] EXCEPT !.todo = rest, !.error = error]
      BY <1>1, <2>1 DEF CreateDocument, Alone, IInv, Shape
    <3>2. rest \in Seq(Docs) /\ rest # << >>
      <4>1. Len(op[o].todo) # 1
        <5> DEFINE n == Len(op[o].todo)
        <5>1. n \in Nat /\ n > 1
          BY <1>1, <2>1, TailList
        <5> HIDE DEF n
        <5>2. n # 1
          BY <5>1
        <5>3. QED
          BY <5>2 DEF n
      <4>2. QED
        BY <1>1, <4>1, TailList
    <3>3. op[o] \in Request(op[o].pc, op[o].todo) /\ error \in BOOLEAN
      BY <1>1 DEF RequestOK, Request, Has
    <3> HIDE DEF rest, error
    <3>4. /\ op'[o] \in Request("create", rest) /\ op'[o].pc = "create" /\ op'[o].todo = rest
          /\ op'[o].error = error /\ op'[o].kind = "create" /\ op'[o].access = op[o].access
          /\ op'[o].env = op[o].env /\ op'[o].user = op[o].user /\ op'[o].server = s
      BY <1>1, <3>1, <3>3 DEF Request
    <3>5. Advances(o)
      <4>1. /\ "create" \in Stages(op[o].kind) /\ "create" \notin Final \cup {"idle"}
            /\ "create" \notin Asking
        BY <1>1 DEF Stages, Final, Asking
      <4>2. QED
        BY <1>1, <3>1, <3>2, <3>4, <4>1, RecordEffect DEF IInv
    <3>6. ZmsKnown(o)'
      BY <1>1, <3>4 DEF IInv, Knows, ZmsKnown, ZmsFits, Templated
    <3>7. ObjectsKnown(o)'
      <4>1. \A x : Precedes(op[o].todo, objects[s], x) => Precedes(rest, objects'[s], x)
        <5>1. objects'[s] = objects[s] \cup {d}
          BY <1>1, <1>2
        <5>2. \A x : Precedes(op[o].todo, objects[s], x) =>
                       Precedes(rest, objects[s] \cup {d}, x)
          BY <1>1, TailFits DEF rest
        <5>3. QED
          BY <5>1, <5>2
      <4>2. QED
        BY <1>1, <1>6, <3>4, <4>1 DEF ObjectsKnown, ObjectsFit
    <3>8. KeysKnown(o)'
      <4> SUFFICES ASSUME s \in Calm PROVE CreationFits(o)' /\ UpdateFits(o)'
        BY <1>1, <3>4 DEF KeysKnown, Calm
      <4>1. CreationFits(o) /\ ~error /\ ~taken
        BY <1>5 DEF error
      <4>2. NoneThere(rest, objects'[s]) /\ Ordered(rest)
        BY <1>1, <1>2, <4>1, TailFits DEF rest, CreationFits
      <4>3. op[o].access = "hub" => bootstrap'[s] = o \/ Listed("identity", rest)
        <5>1. op[o].access = "hub" => bootstrap[s] = o \/ Listed("identity", op[o].todo)
          BY <1>1, <4>1 DEF CreationFits
        <5>2. Listed("identity", op[o].todo) => d = "identity" \/ Listed("identity", rest)
          BY <1>1, TailFits DEF rest
        <5>3. QED
          BY <1>1, <1>2, <4>1, <5>1, <5>2
      <4>4. QED
        BY <1>1, <3>4, <4>1, <4>2, <4>3 DEF CreationFits, UpdateFits
    <3>9. Keyless(o)'
      BY <3>4 DEF Keyless
    <3>10. QED
      BY <3>5, <3>6, <3>7, <3>8, <3>9 DEF Knows
  <2>2. CASE ~(Len(op[o].todo) > 1)
    <3> DEFINE pc == IF error THEN "conflict" ELSE "done"
    <3>1. op' = Ended(o, pc) /\ pc \in Final
      BY <2>2 DEF CreateDocument, Final
    <3>2. pc = "conflict" => error
      OBVIOUS
    <3> HIDE DEF pc
    <3>3. EndsAs(o, pc)
      BY <1>1, <3>1, EndedEffect DEF IInv
    <3>4. ~(pc = "conflict" /\ s \in Calm')
      BY <1>1, <1>5, <3>2 DEF Calm
    <3>5. QED
      BY <3>1, <3>3, <3>4, EndedKnows DEF EndsAs
  <2>3. QED
    BY <2>1, <2>2
<1>9. Shape' /\ Overlaps'
  BY <1>1, <1>4, <1>8, ShapeKept, OverlapsKept DEF IInv, Advances
<1>10. ASSUME NEW p \in Ops \ {o}, Live(op[p]), op[p].server = s, s \in Calm
       PROVE  CreationFits(p)' /\ UpdateFits(p)'
  <2>1. op'[p] = op[p] /\ Knows(p)
    BY <1>8 DEF Advances, Alone, IInv
  <2>2. op[p].kind # "create"
    BY <1>1, <1>10, NoOtherCreation DEF Calm
  <2>3. op[p].pc \notin {"collision", "dryrun", "create"}
    BY <2>2, KindAt DEF IInv
  <2>4. CreationFits(p)'
    BY <2>1, <2>2, <2>3 DEF CreationFits
  <2>5. UpdateFits(p) /\ ObjectsFit(op[p], objects[s])
    BY <1>10, <2>1 DEF Knows, KeysKnown, ObjectsKnown, Calm
  <2>6. UpdateFits(p)'
    <3> SUFFICES ASSUME op[p].pc \in {"secret", "dryupdate", "applysecret", "patch"},
                        op[p].seen.identity
                 PROVE  publicKey[s] = bootstrap'[s] /\ Prepared(s)
      BY <1>1, <1>10, <2>1 DEF UpdateFits, Prepared
    <3>1. Has(s, "deployment")
      BY <2>5 DEF ObjectsFit, Has
    <3>2. bootstrap'[s] = bootstrap[s]
      BY <1>1, <1>2, <1>7, <1>10, <3>1
    <3>3. QED
      BY <1>10, <2>5, <3>2 DEF UpdateFits
  <2>7. QED
    BY <2>4, <2>6
<1>11. ASSUME NEW p \in Ops PROVE Knows(p)'
  <2>1. \A q \in Servers : bootstrap'[q] = bootstrap[q] \/ (q = s /\ bootstrap'[q] = o)
    BY <1>2
  <2> HIDE DEF d
  <2>2. CASE p = o
    BY <1>8, <2>2
  <2>3. CASE p # o
    BY <1>1, <1>8, <1>10, <2>1, <2>3, AddedDocument
  <2>4. QED
    BY <2>2, <2>3
<1>12. ReferencesResolve'
  <2> SUFFICES ASSUME NEW q \in Servers \ contended, Has(q, "deployment")'
               PROVE  /\ deployed'[q].env => Has(q, "env")'
                      /\ deployed'[q].identity => Has(q, "identity")'
    BY <1>1 DEF ReferencesResolve
  <2>1. CASE q = s /\ d = "deployment" /\ ~taken
    <3>1. deployed'[q] = run
      BY <1>2, <2>1
    <3>2. /\ op[o].env = "new" => Precedes(op[o].todo, objects[s], "env")
          /\ op[o].access = "hub" => Precedes(op[o].todo, objects[s], "identity")
      BY <1>1, <1>6, <2>1 DEF ObjectsFit
    <3>3. 1 \in 1..Len(op[o].todo) /\ op[o].todo[1] = "deployment" /\ 1..(1 - 1) = {}
      BY <1>1, <2>1, TailList
    <3>4. /\ op[o].env = "new" => "env" \in objects[s]
          /\ op[o].access = "hub" => "identity" \in objects[s]
      BY <3>2, <3>3 DEF Precedes
    <3>5. objects'[q] = objects[s] \cup {d} /\ run.env = (op[o].env # "none")
          /\ run.identity = (op[o].access = "hub")
      BY <1>2, <1>3, <2>1
    <3> HIDE DEF d, taken
    <3>6. QED
      BY <1>1, <3>1, <3>4, <3>5 DEF Has
  <2>2. CASE ~(q = s /\ d = "deployment" /\ ~taken)
    <3>1. deployed'[q] = deployed[q] /\ Has(q, "deployment")
      BY <1>2, <2>2 DEF Has
    <3>2. QED
      BY <1>2, <3>1 DEF IInv, ReferencesResolve, Has
  <2>3. QED
    BY <2>1, <2>2
<1>13. KeyRegistered'
  <2> SUFFICES ASSUME NEW q \in Calm, Has(q, "deployment")', deployed'[q].identity
               PROVE  publicKey[q] = bootstrap'[q] /\ Prepared(q)
    BY <1>1 DEF KeyRegistered, Calm, Prepared
  <2>1. CASE q = s /\ d = "deployment"
    <3>1. op[o].access = "hub" /\ ~taken
      BY <1>2, <1>3, <1>5, <2>1 DEF Calm
    <3>2. CreationFits(o) /\ ~Listed("identity", op[o].todo)
      BY <1>1, <1>5, <2>1, DeploymentLater DEF CreationFits
    <3>3. QED
      BY <1>1, <1>2, <2>1, <3>1, <3>2 DEF CreationFits, Prepared
  <2>2. CASE q = s /\ d # "deployment"
    <3>1. Has(s, "deployment") /\ deployed[s].identity
      BY <1>1, <1>2, <2>2 DEF Has
    <3>2. bootstrap'[s] = bootstrap[s]
      BY <1>1, <1>2, <1>7, <2>2, <3>1
    <3>3. QED
      BY <2>2, <3>1, <3>2 DEF IInv, KeyRegistered, Calm, Prepared
  <2>3. CASE q # s
    BY <1>2, <2>3 DEF IInv, KeyRegistered, Calm, Has, Prepared
  <2>4. QED
    BY <2>1, <2>2, <2>3
<1>14. QED
  BY <1>9, <1>11, <1>12, <1>13 DEF IInv

-----------------------------------------------------------------------------
(* Steps that delete a document *)

LEMMA DeleteDocumentKeeps ==
  ASSUME IInv, NEW o \in Ops, DeleteDocument(o)
  PROVE  IInv'
<1> DEFINE s == op[o].server
           d == Head(op[o].todo)
           rest == Tail(op[o].todo)
<1>1. /\ op[o].pc = "unload" /\ Live(op[o]) /\ op[o].kind = "delete" /\ RequestOK(op[o])
      /\ s \in Servers /\ StoresOK /\ Overlaps
      /\ op[o].todo \in Seq(Docs) /\ op[o].todo # << >> /\ d = op[o].todo[1]
      /\ UNCHANGED <<zms, publicKey, prepared, raced, contended>>
  <2>1. op[o].pc = "unload" /\ Live(op[o]) /\ op[o].kind = "delete" /\ RequestOK(op[o])
    BY KindAt DEF DeleteDocument, At, IInv, Shape
  <2>2. s \in Servers /\ op[o].todo \in Seq(Docs) /\ op[o].todo # << >>
    BY <2>1 DEF RequestOK, Listing
  <2>3. d = op[o].todo[1]
    BY <2>2, TailList
  <2>4. QED
    BY <2>1, <2>2, <2>3 DEF DeleteDocument, IInv, Shape
<1>2. /\ \A q \in Servers : objects'[q] = IF q = s THEN objects[s] \ {d} ELSE objects[q]
      /\ \A q \in Servers : bootstrap'[q] =
           IF q = s /\ d = "identity" THEN None ELSE bootstrap[q]
      /\ \A q \in Servers : q # s => deployed'[q] = deployed[q]
  BY <1>1 DEF DeleteDocument, StoresOK
<1>3. StoresOK'
  <2>1. objects' \in [Servers -> SUBSET Docs]
    BY <1>1 DEF StoresOK, DeleteDocument
  <2>2. deployed' \in [Servers -> Configuration]
    <3>1. NoDeployment \in Configuration
      BY DEF NoDeployment, Configuration, None
    <3>2. QED
      BY <1>1, <3>1 DEF StoresOK, DeleteDocument
  <2>3. bootstrap' \in [Servers -> Ops \cup {None}]
    BY <1>1 DEF StoresOK, DeleteDocument
  <2>4. QED
    BY <1>1, <2>1, <2>2, <2>3 DEF StoresOK
<1>4. s \notin contended =>
        /\ d = "deployment" \/ "deployment" \notin objects[s]
        /\ \A x \in objects[s] : x = "identity" \/ Listed(x, op[o].todo)
  BY <1>1 DEF IInv, Knows, ObjectsKnown, ObjectsFit
<1>5. Advances(o) /\ Knows(o)'
  <2>1. CASE Len(op[o].todo) > 1
    <3>1. Alone(o) /\ op'[o] = [op[o] EXCEPT !.todo = rest]
      BY <1>1, <2>1 DEF DeleteDocument, Alone, IInv, Shape
    <3>2. rest \in Seq(Docs) /\ rest # << >>
      <4> DEFINE n == Len(op[o].todo)
      <4>1. n \in Nat /\ n > 1
        BY <1>1, <2>1, TailList
      <4> HIDE DEF n
      <4>2. n # 1
        BY <4>1
      <4>3. QED
        BY <1>1, <4>2, TailList DEF n
    <3> HIDE DEF rest
    <3>3. op'[o] = [op[o] EXCEPT !.todo = rest, !.pc = "unload"]
      BY <1>1, <3>1 DEF RequestOK, Request
    <3>4. Onward(o, "unload", rest)
      BY <1>1, <3>1, <3>2, <3>3, ListEffect DEF IInv, Stages, Final, Asking
    <3>5. ZmsKnown(o)'
      BY <1>1, <3>4 DEF IInv, Knows, ZmsKnown, ZmsFits, Templated, Onward, Advances
    <3>6. ObjectsKnown(o)'
      <4>1. s \notin contended => \A x \in objects'[s] : x = "identity" \/ Listed(x, rest)
        <5>1. \A x : Listed(x, op[o].todo) => x = d \/ Listed(x, rest)
          BY <1>1, TailFits DEF rest
        <5>2. QED
          BY <1>1, <1>2, <1>4, <5>1
      <4>2. s \notin contended => "deployment" \notin objects'[s]
        BY <1>1, <1>2, <1>4
      <4>3. QED
        BY <1>1, <3>4, <4>1, <4>2 DEF ObjectsKnown, ObjectsFit, Onward, Advances
    <3>7. KeysKnown(o)' /\ Keyless(o)'
      BY <1>1, <3>4 DEF KeysKnown, CreationFits, UpdateFits, Keyless, Onward
    <3>8. QED
      BY <3>4, <3>5, <3>6, <3>7 DEF Knows, Onward
  <2>2. CASE ~(Len(op[o].todo) > 1)
    <3>1. op' = Ended(o, "done")
      BY <2>2 DEF DeleteDocument
    <3>2. EndsAs(o, "done")
      BY <1>1, <3>1, EndedEffect DEF IInv, Final
    <3>3. QED
      BY <3>2, EndedKnows DEF EndsAs, Final
  <2>3. QED
    BY <2>1, <2>2
<1>6. Shape' /\ Overlaps'
  BY <1>1, <1>3, <1>5, ShapeKept, OverlapsKept DEF IInv, Advances
<1>7. ASSUME NEW p \in Ops \ {o} PROVE Knows(p)'
  <2>1. CASE op[p].server # s
    BY <1>1, <1>2, <1>5, <2>1, ElsewhereKnown DEF Advances
  <2>2. CASE op[p].server = s
    <3>1. op'[p] = op[p] /\ Knows(p)
      BY <1>5 DEF Advances, Alone, IInv
    <3>2. Live(op[p]) => s \in contended
      BY <1>1, <2>2 DEF Overlaps
    <3>3. ZmsKnown(p)' /\ ObjectsKnown(p)' /\ KeysKnown(p)'
      BY <1>1, <2>2, <3>1, <3>2 DEF ZmsKnown, ObjectsKnown, KeysKnown, Calm
    <3>4. Keyless(p)'
      <4>1. p # None
        BY RegistrationAssumption DEF None
      <4>2. QED
        BY <1>1, <1>2, <3>1, <4>1 DEF Knows, Keyless, Calm
    <3>5. QED
      BY <3>3, <3>4 DEF Knows
  <2>3. QED
    BY <2>1, <2>2
<1>8. s \notin contended => "deployment" \notin objects'[s]
  BY <1>1, <1>2, <1>4
<1>9. ReferencesResolve'
  BY <1>1, <1>2, <1>8 DEF IInv, ReferencesResolve, Has
<1>10. KeyRegistered'
  BY <1>1, <1>2, <1>8 DEF IInv, KeyRegistered, Has
<1>11. QED
  BY <1>5, <1>6, <1>7, <1>9, <1>10 DEF IInv

-----------------------------------------------------------------------------
(* The invariant *)

\* A legacy server has a Deployment that names nothing.
LEMMA InitIInv == Init => IInv
<1> SUFFICES ASSUME Init PROVE IInv
  OBVIOUS
<1>1. PICK legacy \in SUBSET Servers :
        /\ objects = [s \in Servers |-> IF s \in legacy THEN {"deployment", "service"} ELSE {}]
        /\ deployed = [s \in Servers |-> IF s \in legacy
                                         THEN [NoDeployment EXCEPT !.access = "hub"]
                                         ELSE NoDeployment]
  BY DEF Init
<1>2. /\ bootstrap = [s \in Servers |-> None] /\ publicKey = [s \in Servers |-> None]
      /\ zms = [s \in Servers |-> {}] /\ op = [o \in Ops |-> Idle]
  BY DEF Init
<1>3. NoDeployment \in Configuration /\ ~NoDeployment.env /\ ~NoDeployment.identity
  BY DEF NoDeployment, Configuration, None
<1> DEFINE hub == [NoDeployment EXCEPT !.access = "hub"]
<1>4. hub \in Configuration /\ ~hub.env /\ ~hub.identity
  BY <1>3 DEF Configuration
<1> HIDE DEF hub
<1>5. \A s \in Servers : /\ deployed[s] \in Configuration
                         /\ ~deployed[s].env /\ ~deployed[s].identity
  BY <1>1, <1>3, <1>4 DEF hub
<1>6. StoresOK
  <2>1. objects \in [Servers -> SUBSET Docs]
    BY <1>1 DEF Docs
  <2>2. deployed \in [Servers -> Configuration]
    BY <1>1, <1>3, <1>4 DEF hub
  <2>3. QED
    BY <1>2, <2>1, <2>2 DEF StoresOK
<1>7. /\ Idle \in Request(Idle.pc, Idle.todo) /\ Idle.pc = "idle"
      /\ Idle.kind \notin {"create", "access"}
  BY IdleIs DEF None
<1>8. RequestOK(Idle) /\ ~Live(Idle)
  BY <1>7 DEF RequestOK, Live, Asking, Listing
<1>9. Shape
  BY <1>2, <1>6, <1>8 DEF Shape
<1>10. Overlaps
  BY <1>2, <1>8 DEF Overlaps
<1>11. ASSUME NEW o \in Ops PROVE Knows(o)
  <2>1. o # None
    BY RegistrationAssumption DEF None
  <2>2. Keyless(o)
    BY <1>2, <1>7, <2>1 DEF Keyless
  <2>3. ZmsKnown(o) /\ ObjectsKnown(o) /\ KeysKnown(o)
    BY <1>2, <1>8 DEF ZmsKnown, ObjectsKnown, KeysKnown
  <2>4. QED
    BY <2>2, <2>3 DEF Knows
<1>12. ReferencesResolve /\ KeyRegistered
  BY <1>5 DEF ReferencesResolve, KeyRegistered
<1>13. QED
  BY <1>9, <1>10, <1>11, <1>12 DEF IInv

LEMMA NextKeeps ==
  ASSUME IInv, [Next]_vars
  PROVE  IInv'
<1>1. CASE UNCHANGED vars
  <2>1. Shape' /\ Overlaps'
    BY <1>1 DEF vars, IInv, Shape, StoresOK, Overlaps
  <2>2. ASSUME NEW o \in Ops PROVE Knows(o)'
    <3>1. Knows(o) /\ Manifest(o)' = Manifest(o)
      BY <1>1 DEF IInv, vars, Manifest
    <3>2. ZmsKnown(o)' /\ ObjectsKnown(o)' /\ Keyless(o)'
      BY <1>1, <3>1 DEF vars, Knows, ZmsKnown, ObjectsKnown, Keyless, Calm
    <3>3. KeysKnown(o)'
      BY <1>1, <3>1 DEF vars, Knows, KeysKnown, CreationFits, UpdateFits, Calm, Has, Prepared
    <3>4. QED
      BY <3>2, <3>3 DEF Knows
  <2>3. ReferencesResolve' /\ KeyRegistered'
    BY <1>1 DEF vars, IInv, ReferencesResolve, KeyRegistered, Has
  <2>4. QED
    BY <2>1, <2>2, <2>3 DEF IInv
<1>2. ASSUME NEW o \in Ops,
             \/ PostServer(o) \/ PutServer(o) \/ DeleteServer(o) \/ PutPermission(o)
             \/ PostAccess(o) \/ CallFails(o)
             \/ ListRoutes(o) \/ FindCollision(o) \/ DryRunCreate(o)
             \/ ApplyTemplate(o) \/ CheckFacts(o) \/ PutFacts(o) \/ VerifyFacts(o)
             \/ RegisterKey(o) \/ VerifyKey(o) \/ EnableProvider(o) \/ ApplyTrust(o)
             \/ CreateDocument(o)
      PROVE  IInv'
  BY <1>2, ArrivalsKeep, CallFailsKeeps, LookUpKeeps, DryRunCreateKeeps, ApplyTemplateKeeps,
     CheckFactsKeeps, PutFactsKeeps, VerifyFactsKeeps, RegisterKeyKeeps, VerifyKeyKeeps,
     EnableProviderKeeps, ApplyTrustKeeps, CreateDocumentKeeps
<1>3. ASSUME NEW o \in Ops,
             \/ NotFound(o) \/ ReadForUpdate(o) \/ ReadForAccess(o) \/ ReadForDelete(o)
             \/ ReadForTool(o) \/ Reread(o) \/ FindSecret(o) \/ DryRunUpdate(o)
             \/ ApplySecret(o) \/ PatchDeployment(o) \/ PatchService(o) \/ PatchTool(o)
             \/ Reconcile(o)
      PROVE  IInv'
  BY <1>3, NotFoundKeeps, ReadForUpdateKeeps, ReadForAccessKeeps, ReadForDeleteKeeps,
     ReadForToolKeeps, RereadKeeps, FindSecretKeeps, DryRunUpdateKeeps, ApplySecretKeeps,
     PatchDeploymentKeeps, PatchToolKeeps, ReconcileKeeps
<1>4. ASSUME NEW o \in Ops,
             \/ FindEntity(o) \/ RemoveEntity(o) \/ VerifyGone(o)
             \/ PlanDeletion(o) \/ DeleteDocument(o)
      PROVE  IInv'
  BY <1>4, FindEntityKeeps, RemoveEntityKeeps, VerifyGoneKeeps, PlanDeletionKeeps,
     DeleteDocumentKeeps
<1>5. QED
  BY <1>1, <1>2, <1>3, <1>4 DEF Next

\* What the requests know of ZMS, of the objects and of the keys holds at every
\* step, whatever the others do; and what runs has what it names (IInv).
THEOREM Inductive == Spec => []IInv
<1>1. Init => IInv
  BY InitIInv
<1>2. IInv /\ [Next]_vars => IInv'
  BY NextKeeps
<1>3. QED
  BY <1>1, <1>2, PTL DEF Spec

\* A Deployment names what is there (ReferencesResolve), whatever overlapped and
\* wherever it broke off, deletions that overlapped aside.
THEOREM ReferencesAreThere == Spec => []ReferencesResolve
<1>1. IInv => ReferencesResolve
  BY DEF IInv
<1>2. QED
  BY <1>1, Inductive, PTL

\* A managed identity that runs has its key registered and its project prepared
\* (KeyRegistered).
THEOREM IdentitiesAreRegistered == Spec => []KeyRegistered
<1>1. IInv => KeyRegistered
  BY DEF IInv
<1>2. QED
  BY <1>1, Inductive, PTL

\* A creation that was refused has replaced no key (RefusalIsClean).
THEOREM RefusalsAreClean == Spec => []RefusalIsClean
<1>1. ASSUME IInv, NEW o \in Ops, op[o].pc = "conflict", op[o].server \notin raced \cup contended
      PROVE  publicKey[op[o].server] # o /\ bootstrap[op[o].server] # o
  <2>1. op[o].server \in Calm
    BY <1>1 DEF IInv, Shape, RequestOK, Calm
  <2>2. QED
    BY <1>1, <2>1 DEF IInv, Knows, Keyless
<1>2. IInv => RefusalIsClean
  BY <1>1 DEF RefusalIsClean
<1>3. QED
  BY <1>2, Inductive, PTL

-----------------------------------------------------------------------------
(* Success *)

\* The request p takes a step, the last of them aside.
Continues(p) == Alone(p) /\ op'[p].pc # "done"

LEMMA EndedContinues ==
  ASSUME Shape, NEW p \in Ops, NEW pc \in Final \ {"done"}, Live(op[p]), op' = Ended(p, pc)
  PROVE  Continues(p)
BY EndedEffect DEF EndsAs, Advances, Continues

LEMMA GotoContinues ==
  ASSUME Shape, NEW p \in Ops, Live(op[p]), NEW pc, pc # "done", pc # "conflict", Goto(p, pc)
  PROVE  Continues(p)
<1>1. CASE pc = "failed"
  BY <1>1, EndedContinues DEF Goto, Moved, Final
<1>2. CASE pc # "failed"
  <2>1. op' = [op EXCEPT ![p].pc = pc]
    BY <1>2 DEF Goto, Moved, Final
  <2>2. op[p] \in Request(op[p].pc, op[p].todo)
    BY DEF Shape, RequestOK
  <2>3. QED
    BY <2>1, <2>2 DEF Continues, Alone, Shape, Request
<1>3. QED
  BY <1>1, <1>2

\* It moves to pc, whatever else of it changes.
LEMMA RecordContinues ==
  ASSUME Shape, NEW p \in Ops, NEW r, op' = [op EXCEPT ![p] = r], r.pc # "done"
  PROVE  Continues(p)
BY DEF Continues, Alone, Shape

LEMMA ArrivalsContinue ==
  ASSUME Shape, NEW p \in Ops,
         PostServer(p) \/ PutServer(p) \/ DeleteServer(p) \/ PutPermission(p) \/ PostAccess(p)
  PROVE  Continues(p)
<1>1. ASSUME NEW r, Begins(p, r), r.pc # "done" PROVE Continues(p)
  BY <1>1, RecordContinues DEF Begins
<1>2. CASE PostServer(p)
  <2>1. \A s, a, e, ts : [Idle EXCEPT !.pc = "routes", !.kind = "create", !.server = s,
                          !.access = a, !.env = e, !.tools = ts].pc = "routes"
    BY DEF Idle
  <2>2. QED
    BY <1>1, <1>2, <2>1 DEF PostServer
<1>3. CASE PutServer(p)
  <2>1. \A s, a, e, ts : [Idle EXCEPT !.pc = "read", !.kind = "update", !.server = s,
                          !.access = a, !.env = e, !.tools = ts].pc = "read"
    BY DEF Idle
  <2>2. QED
    BY <1>1, <1>3, <2>1 DEF PutServer
<1>4. CASE DeleteServer(p)
  <2>1. \A s : [Idle EXCEPT !.pc = "read", !.kind = "delete", !.server = s].pc = "read"
    BY DEF Idle
  <2>2. QED
    BY <1>1, <1>4, <2>1 DEF DeleteServer
<1>5. CASE PutPermission(p)
  <2>1. \A s, t, ts : [Idle EXCEPT !.pc = "read", !.kind = "tool", !.server = s,
                       !.tool = t, !.tools = ts].pc = "read"
    BY DEF Idle
  <2>2. QED
    BY <1>1, <1>5, <2>1 DEF PutPermission
<1>6. CASE PostAccess(p)
  <2>1. \A s, u : [Idle EXCEPT !.pc = "read", !.kind = "access", !.server = s,
                   !.user = u].pc = "read"
    BY DEF Idle
  <2>2. QED
    BY <1>1, <1>6, <2>1 DEF PostAccess
<1>7. QED
  BY <1>2, <1>3, <1>4, <1>5, <1>6

\* The steps that move a request on by name.
LEMMA GotosContinue ==
  ASSUME Shape, NEW p \in Ops,
         \/ CallFails(p) \/ ListRoutes(p) \/ FindCollision(p) \/ ApplyTemplate(p)
         \/ PutFacts(p) \/ RegisterKey(p) \/ VerifyKey(p) \/ EnableProvider(p)
         \/ NotFound(p) \/ DryRunUpdate(p) \/ ApplySecret(p) \/ PatchDeployment(p)
         \/ RemoveEntity(p)
  PROVE  Continues(p)
<1>1. Live(op[p])
  BY KindAt DEF CallFails, ListRoutes, FindCollision, ApplyTemplate, PutFacts, RegisterKey,
                VerifyKey, EnableProvider, NotFound, DryRunUpdate, ApplySecret,
                PatchDeployment, RemoveEntity, At, Running, Live, Final
<1>2. CASE Goto(p, "conflict")
  BY <1>1, <1>2, EndedContinues DEF Goto, Moved, Final
<1>3. CASE ~Goto(p, "conflict")
  <2>1. \E pc : pc # "done" /\ pc # "conflict" /\ Goto(p, pc)
    BY <1>3 DEF CallFails, ListRoutes, FindCollision, ApplyTemplate, PutFacts, RegisterKey,
                VerifyKey, EnableProvider, NotFound, DryRunUpdate, ApplySecret,
                PatchDeployment, RemoveEntity
  <2>2. QED
    BY <1>1, <2>1, GotoContinues
<1>4. QED
  BY <1>2, <1>3

\* The steps that write the request itself.
LEMMA RecordsContinue ==
  ASSUME Shape, NEW p \in Ops,
         \/ DryRunCreate(p) \/ CheckFacts(p) \/ VerifyFacts(p) \/ ApplyTrust(p)
         \/ ReadForUpdate(p) \/ ReadForAccess(p) \/ ReadForDelete(p) \/ ReadForTool(p)
         \/ Reread(p) \/ FindSecret(p) \/ FindEntity(p) \/ VerifyGone(p) \/ PlanDeletion(p)
  PROVE  Continues(p)
<1>1. Live(op[p]) /\ op[p] \in Request(op[p].pc, op[p].todo)
  <2>1. Live(op[p])
    BY KindAt DEF DryRunCreate, CheckFacts, VerifyFacts, ApplyTrust, ReadForUpdate,
                  ReadForAccess, ReadForDelete, ReadForTool, Reads, Reread, FindSecret,
                  FindEntity, VerifyGone, PlanDeletion, At
  <2>2. QED
    BY <2>1 DEF Shape, RequestOK
<1>2. CASE \E pc \in Final \ {"done"} : op' = Ended(p, pc)
  BY <1>1, <1>2, EndedContinues
<1>3. CASE \A pc \in Final \ {"done"} : op' # Ended(p, pc)
  <2>1. op' # Ended(p, "conflict") /\ op' # Ended(p, "failed")
    BY <1>3 DEF Final
  <2>2. CASE DryRunCreate(p)
    BY <1>1, <2>1, <2>2 DEF DryRunCreate, Continues, Alone, Shape, Request
  <2>3. CASE ApplyTrust(p)
    BY <1>1, <2>3 DEF ApplyTrust, Moved, Final, Continues, Alone, Shape, Request
  <2>4. CASE CheckFacts(p) \/ VerifyFacts(p)
    <3>1. op[p].kind \in {"create", "update", "tool", "access"}
      BY <2>4, KindAt DEF CheckFacts, VerifyFacts, At
    <3>2. AfterProvisioning(p) # "done"
      BY <3>1 DEF AfterProvisioning
    <3>3. QED
      BY <1>1, <2>1, <2>4, <3>2
      DEF CheckFacts, VerifyFacts, NextTodo, Continues, Alone, Shape, Request
  <2>5. CASE ReadForUpdate(p) \/ ReadForAccess(p)
    BY <1>1, <2>1, <2>5 DEF ReadForUpdate, ReadForAccess, Continues, Alone, Shape, Request
  <2>6. CASE ReadForDelete(p)
    BY <1>1, <2>1, <2>6 DEF ReadForDelete, Continues, Alone, Shape, Request
  <2>7. CASE ReadForTool(p)
    BY <1>1, <2>1, <2>7 DEF ReadForTool, Continues, Alone, Shape, Request
  <2>8. CASE Reread(p) \/ FindSecret(p)
    BY <1>1, <2>1, <2>8 DEF Reread, FindSecret, Continues, Alone, Shape, Request
  <2>9. CASE FindEntity(p) \/ VerifyGone(p)
    BY <1>1, <2>1, <2>9 DEF FindEntity, VerifyGone, NextEntity, Continues, Alone, Shape,
                            Request
  <2>10. CASE PlanDeletion(p)
    BY <1>1, <2>1, <2>10 DEF PlanDeletion, Continues, Alone, Shape, Request
  <2>11. QED
    BY <2>2, <2>3, <2>4, <2>5, <2>6, <2>7, <2>8, <2>9, <2>10
<1>4. QED
  BY <1>2, <1>3

\* The steps that may be a request's last.
LEMMA LastAlone ==
  ASSUME Shape, NEW p \in Ops,
         \/ CreateDocument(p) \/ PatchService(p) \/ PatchTool(p) \/ Reconcile(p)
         \/ DeleteDocument(p)
  PROVE  Alone(p)
BY DEF CreateDocument, PatchService, PatchTool, Reconcile, DeleteDocument, Goto, Moved,
       Ended, Alone, Shape

LEMMA SucceedsAt ==
  ASSUME IInv, [Next]_vars, NEW o \in Ops, op[o].pc \notin Final, op'[o].pc = "done"
  PROVE  \/ CreateDocument(o) \/ PatchService(o) \/ PatchTool(o) \/ Reconcile(o)
         \/ DeleteDocument(o)
<1>1. op' # op
  BY DEF Final
<1>2. PICK p \in Ops :
        \/ PostServer(p) \/ PutServer(p) \/ DeleteServer(p) \/ PutPermission(p)
        \/ PostAccess(p) \/ CallFails(p)
        \/ ListRoutes(p) \/ FindCollision(p) \/ DryRunCreate(p)
        \/ ApplyTemplate(p) \/ CheckFacts(p) \/ PutFacts(p) \/ VerifyFacts(p)
        \/ RegisterKey(p) \/ VerifyKey(p) \/ EnableProvider(p) \/ ApplyTrust(p)
        \/ CreateDocument(p)
        \/ NotFound(p) \/ ReadForUpdate(p) \/ ReadForAccess(p) \/ ReadForDelete(p)
        \/ ReadForTool(p) \/ Reread(p) \/ FindSecret(p) \/ DryRunUpdate(p) \/ ApplySecret(p)
        \/ PatchDeployment(p) \/ PatchService(p) \/ PatchTool(p) \/ Reconcile(p)
        \/ FindEntity(p) \/ RemoveEntity(p) \/ VerifyGone(p)
        \/ PlanDeletion(p) \/ DeleteDocument(p)
  BY <1>1 DEF Next, vars
<1>3. Continues(p) \/ CreateDocument(p) \/ PatchService(p) \/ PatchTool(p) \/ Reconcile(p)
      \/ DeleteDocument(p)
  BY <1>2, ArrivalsContinue, GotosContinue, RecordsContinue DEF IInv
<1>4. Alone(p)
  BY <1>3, LastAlone DEF Continues, IInv
<1>5. p = o
  BY <1>4 DEF Alone, Final
<1>6. QED
  BY <1>3, <1>5 DEF Continues

\* A creation or a request for access that succeeds finds in ZMS what its user
\* needs.
Provided(o) ==
  op[o].server \notin contended /\ Provides(o) =>
    /\ TemplateFacts \subseteq zms[op[o].server]
    /\ op[o].kind = "access" =>
         /\ Member("accessor", op[o].user) \in zms[op[o].server]
         /\ {Helper(a) : a \in Preset \cap Helped} \subseteq zms[op[o].server]

LEMMA NextProvided ==
  ASSUME IInv, [Next]_vars, NEW o \in Ops
  PROVE  Provided(o)
<1> SUFFICES ASSUME op[o].server \notin contended, Provides(o)
             PROVE  /\ TemplateFacts \subseteq zms[op[o].server]
                    /\ op[o].kind = "access" => NeededFor(op[o]) \subseteq zms[op[o].server]
  BY DEF Provided, NeededFor
<1>1. /\ op[o].pc \notin Final /\ op'[o].pc = "done"
      /\ (op[o].kind = "create" /\ op[o].access = "hub") \/ op[o].kind = "access"
  BY DEF Provides, Succeeds
<1>2. op[o].pc \in {"create", "patchservice", "patchtool", "reconcile", "unload"}
  BY <1>1, SucceedsAt DEF CreateDocument, PatchService, PatchTool, Reconcile,
                          DeleteDocument, At
<1>3. /\ op[o].pc \in {"create", "reconcile"}
      /\ op[o].pc = "create" => op[o].kind = "create"
  BY <1>1, <1>2, KindAt DEF IInv
<1>4. Live(op[o]) /\ Templated(op[o])
  BY <1>1, <1>3 DEF Live, Final, Templated
<1>5. ZmsFits(op[o], zms[op[o].server])
  BY <1>4 DEF IInv, Knows, ZmsKnown
<1>6. QED
  BY <1>1, <1>3, <1>4, <1>5 DEF ZmsFits

\* Creations and requests for access that succeed have provided for their users
\* (AccessProvided), deletions that overlapped aside.
THEOREM AccessIsProvided == Spec => AccessProvided
<1>1. IInv /\ [Next]_vars => [\A o \in Ops : Provided(o)]_vars
  BY NextProvided
<1>2. QED
  BY Inductive, <1>1, PTL DEF Spec, AccessProvided, Provided

\* A deletion that succeeds leaves nothing of the server but what is not its own.
Deleted(o) ==
  op[o].server \notin contended /\ Succeeds(o, "delete") /\ op[o].access = "hub" =>
    /\ zms'[op[o].server] \subseteq {Helper(a) : a \in Audiences}
    /\ objects'[op[o].server] \subseteq {"identity"}

LEMMA NextDeleted ==
  ASSUME IInv, [Next]_vars, NEW o \in Ops
  PROVE  Deleted(o)
<1> DEFINE s == op[o].server
<1> SUFFICES ASSUME s \notin contended, Succeeds(o, "delete"), op[o].access = "hub"
             PROVE  zms'[s] \subseteq Helpers /\ objects'[s] \subseteq {"identity"}
  BY DEF Deleted, Helpers
<1>1. op[o].pc \notin Final /\ op'[o].pc = "done" /\ op[o].kind = "delete"
  BY DEF Succeeds
<1>2. DeleteDocument(o)
  <2>1. op[o].pc \notin {"create", "patchservice", "patchtool", "reconcile"}
    BY <1>1, KindAt DEF IInv
  <2>2. QED
    BY <1>1, <2>1, SucceedsAt DEF CreateDocument, PatchService, PatchTool, Reconcile, At
<1>3. /\ op[o].pc = "unload" /\ Live(op[o]) /\ RequestOK(op[o]) /\ s \in Servers /\ StoresOK
      /\ op[o].todo \in Seq(Docs) /\ op[o].todo # << >> /\ zms' = zms
      /\ objects' = [objects EXCEPT ![s] = @ \ {Head(op[o].todo)}]
  BY <1>1, <1>2 DEF DeleteDocument, At, IInv, Shape, RequestOK, Live, Final, Listing
<1>4. zms[s] \subseteq Helpers
  BY <1>1, <1>3 DEF IInv, Knows, ZmsKnown, ZmsFits
<1>5. \A d \in objects[s] : d = "identity" \/ Listed(d, op[o].todo)
  BY <1>3 DEF IInv, Knows, ObjectsKnown, ObjectsFit
<1>6. ~(Len(op[o].todo) > 1)
  <2> SUFFICES ASSUME Len(op[o].todo) > 1 PROVE FALSE
    OBVIOUS
  <2>1. op' = [op EXCEPT ![o].todo = Tail(@)]
    BY <1>2 DEF DeleteDocument
  <2>2. op'[o].pc = op[o].pc
    BY <1>3, <2>1 DEF IInv, Shape, RequestOK, Request
  <2>3. QED
    BY <1>1, <1>3, <2>2
<1>7. \A d : Listed(d, op[o].todo) => d = Head(op[o].todo)
  <2> DEFINE n == Len(op[o].todo)
  <2>1. n \in Nat \ {0} /\ ~(n > 1) /\ Head(op[o].todo) = op[o].todo[1]
    BY <1>3, <1>6, TailList
  <2> HIDE DEF n
  <2>2. \A i \in 1..n : i = 1
    BY <2>1
  <2>3. QED
    BY <2>1, <2>2 DEF Listed, n
<1>8. QED
  BY <1>3, <1>4, <1>5, <1>7 DEF StoresOK

\* A deletion that succeeds, and that nothing overlapped with, is complete
\* (DeletionComplete).
THEOREM DeletionsAreComplete == Spec => DeletionComplete
<1>1. IInv /\ [Next]_vars => [\A o \in Ops : Deleted(o)]_vars
  BY NextDeleted
<1>2. QED
  BY Inductive, <1>1, PTL DEF Spec, DeletionComplete, Deleted

=============================================================================
