-------------------------- MODULE Permissions_proofs --------------------------
(***************************************************************************)
(* What a tool of an MCP server requires, from its settings to the page    *)
(* that shows it and to the call that is given it.  For any settings, any  *)
(* roles and policies, any cluster and any number of calls:                *)
(*   - the page of a server shows what Athenz has said of every membership *)
(*     and policy, an approval follows a check of all that it stands for,  *)
(*     and no unmet condition is hidden (PermissionReadiness);             *)
(*   - routes in use are no older than the life of their cache, a call     *)
(*     reaches the server that it was given access to, and it was given    *)
(*     what the page of that server shows (McpRouting).                    *)
(***************************************************************************)
EXTENDS McpRouting, PermissionReadiness, FiniteSetTheorems, SequenceTheorems,
        WellFoundedInduction, TLAPS

LEMMA Least ==
  ASSUME NEW S \in SUBSET Nat, S # {}
  PROVE  \E n \in S : \A m \in S : n <= m
<1> DEFINE R == OpToRel(<, Nat)
<1>1. IsWellFoundedOn(R, Nat)
  BY NatLessThanWellFounded
<1>2. R = {ss \in Nat \X Nat : ss[1] < ss[2]}
  BY DEF OpToRel
<1> HIDE DEF R
<1>3. PICK x \in S : \A y \in S : ~ (<<y, x>> \in R)
  BY <1>1, WFMin, Zenon
<1>4. ASSUME NEW m \in S PROVE x <= m
  <2>1. ~(<<m, x>> \in R) /\ x \in Nat /\ m \in Nat
    BY <1>3
  <2>2. <<m, x>>[1] = m /\ <<m, x>>[2] = x /\ <<m, x>> \in Nat \X Nat
    BY <2>1
  <2>3. ~(m < x)
    BY <1>2, <2>1, <2>2
  <2>4. QED
    BY <2>1, <2>3
<1>5. QED
  BY <1>4

LEMMA SetInduction ==
  ASSUME NEW S, 0 \in S, \A n \in Nat : n \in S => n + 1 \in S
  PROVE  Nat \subseteq S
<1> SUFFICES ASSUME Nat \ S # {} PROVE FALSE
  OBVIOUS
<1>1. PICK n \in Nat \ S : \A m \in Nat \ S : n <= m
  BY Least, Zenon
<1>2. n # 0 /\ n - 1 \in Nat
  BY <1>1
<1>3. n - 1 \in S
  BY <1>1, <1>2
<1>4. n - 1 + 1 = n
  BY <1>1
<1>5. QED
  BY <1>1, <1>2, <1>3, <1>4

\* f is what FlattenSeq computes of the first n sequences.
IsFlattening(f, seqs, n) ==
  f = [i \in 1..n |-> IF i = 1 THEN seqs[i] ELSE f[i-1] \o seqs[i]]

LEMMA FlatteningExists ==
  ASSUME NEW seqs, NEW n \in Nat
  PROVE  \E f : IsFlattening(f, seqs, n)
<1> DEFINE S == {m \in Nat : \E f : IsFlattening(f, seqs, m)}
<1>1. 0 \in S
  <2>1. IsFlattening(<< >>, seqs, 0)
    BY DEF IsFlattening
  <2>2. QED
    BY <2>1
<1>2. ASSUME NEW m \in Nat, m \in S PROVE m + 1 \in S
  <2>1. PICK f : f = [i \in 1..m |-> IF i = 1 THEN seqs[i] ELSE f[i-1] \o seqs[i]]
    BY <1>2, Zenon DEF IsFlattening
  <2> DEFINE g == [i \in 1..m + 1 |-> IF i = 1 THEN seqs[i] ELSE f[i-1] \o seqs[i]]
  <2>2. ASSUME NEW i \in 1..m PROVE g[i] = f[i]
    <3>1. i \in 1..m + 1
      OBVIOUS
    <3>2. g[i] = IF i = 1 THEN seqs[i] ELSE f[i-1] \o seqs[i]
      BY <3>1
    <3> HIDE DEF g
    <3>3. f[i] = IF i = 1 THEN seqs[i] ELSE f[i-1] \o seqs[i]
      BY <2>1, Zenon
    <3>4. QED
      BY <3>2, <3>3
  <2>3. ASSUME NEW i \in 1..m + 1, i # 1 PROVE g[i-1] = f[i-1]
    <3>1. i - 1 \in 1..m
      BY <2>3
    <3> HIDE DEF g
    <3>2. QED
      BY <2>2, <3>1
  <2>4. g = [i \in 1..m + 1 |-> IF i = 1 THEN seqs[i] ELSE g[i-1] \o seqs[i]]
    <3> DEFINE h == [i \in 1..m + 1 |-> IF i = 1 THEN seqs[i] ELSE g[i-1] \o seqs[i]]
    <3>1. ASSUME NEW i \in 1..m + 1 PROVE g[i] = h[i]
      <4>1. g[i] = IF i = 1 THEN seqs[i] ELSE f[i-1] \o seqs[i]
        OBVIOUS
      <4>2. h[i] = IF i = 1 THEN seqs[i] ELSE g[i-1] \o seqs[i]
        OBVIOUS
      <4> HIDE DEF g, h
      <4>3. QED
        BY <4>1, <4>2, <2>3
    <3>2. DOMAIN g = 1..m + 1 /\ DOMAIN h = 1..m + 1
      OBVIOUS
    <3>3. g = [i \in 1..m + 1 |-> g[i]] /\ h = [i \in 1..m + 1 |-> h[i]]
      OBVIOUS
    <3> HIDE DEF g, h
    <3>4. g = h
      BY <3>1, <3>3
    <3>5. QED
      BY <3>4, Zenon DEF h
  <2> HIDE DEF g
  <2>5. IsFlattening(g, seqs, m + 1)
    BY <2>4, Zenon DEF IsFlattening
  <2>6. QED
    BY <2>5
<1>3. Nat \subseteq S
  BY <1>1, <1>2, SetInduction, Zenon
<1>4. QED
  BY <1>3

LEMMA FlattenIs ==
  ASSUME NEW seqs, NEW n \in Nat \ {0}, Len(seqs) = n
  PROVE  \E f : IsFlattening(f, seqs, n) /\ FlattenSeq(seqs) = f[n]
<1> DEFINE F == CHOOSE f : f = [i \in 1..Len(seqs) |-> IF i = 1 THEN seqs[i] ELSE f[i-1] \o seqs[i]]
<1>1. \E f : f = [i \in 1..Len(seqs) |-> IF i = 1 THEN seqs[i] ELSE f[i-1] \o seqs[i]]
  BY FlatteningExists DEF IsFlattening
<1>2. F = [i \in 1..Len(seqs) |-> IF i = 1 THEN seqs[i] ELSE F[i-1] \o seqs[i]]
  BY <1>1, Zenon
<1>3. FlattenSeq(seqs) = F[Len(seqs)]
  BY DEF FlattenSeq
<1>4. QED
  BY <1>2, <1>3, Zenon DEF IsFlattening

\* What is concatenated has the elements of its parts, and no other.
LEMMA FlattenElements ==
  ASSUME NEW U, NEW seqs \in Seq(Seq(U))
  PROVE  /\ FlattenSeq(seqs) \in Seq(U)
         /\ ToSet(FlattenSeq(seqs)) = UNION {ToSet(seqs[i]) : i \in DOMAIN seqs}
<1> DEFINE n == Len(seqs)
<1>1. n \in Nat /\ DOMAIN seqs = 1..n /\ \A i \in 1..n : seqs[i] \in Seq(U)
  OBVIOUS
<1>2. CASE n = 0
  <2>1. FlattenSeq(seqs) = seqs /\ seqs = << >>
    BY <1>1, <1>2 DEF FlattenSeq
  <2>2. QED
    BY <1>1, <1>2, <2>1 DEF ToSet
<1>3. CASE n # 0
  <2>1. PICK f : IsFlattening(f, seqs, n) /\ FlattenSeq(seqs) = f[n]
    BY <1>1, <1>3, FlattenIs
  <2> DEFINE Of(m) == UNION {ToSet(seqs[i]) : i \in 1..m}
             S == {m \in Nat : m \in 1..n => f[m] \in Seq(U) /\ ToSet(f[m]) = Of(m)}
  <2> HIDE DEF n
  <2>2. \A m \in 1..n : f[m] = IF m = 1 THEN seqs[m] ELSE f[m-1] \o seqs[m]
    BY <2>1, Zenon DEF IsFlattening
  <2>3. 0 \in S
    OBVIOUS
  <2>4. ASSUME NEW m \in Nat, m \in S PROVE m + 1 \in S
    <3> SUFFICES ASSUME m + 1 \in 1..n
                 PROVE  f[m + 1] \in Seq(U) /\ ToSet(f[m + 1]) = Of(m + 1)
      OBVIOUS
    <3>1. CASE m = 0
      <4>1. f[1] = seqs[1] /\ 1 \in 1..n
        BY <2>2, <3>1
      <4>2. Of(1) = ToSet(seqs[1])
        OBVIOUS
      <4>3. QED
        BY <1>1, <3>1, <4>1, <4>2
    <3>2. CASE m # 0
      <4>1. m \in 1..n /\ f[m + 1] = f[m] \o seqs[m + 1]
        <5>1. m + 1 # 1 /\ m + 1 - 1 = m /\ m \in 1..n
          BY <1>1, <3>2
        <5>2. f[m + 1] = IF m + 1 = 1 THEN seqs[m + 1] ELSE f[m + 1 - 1] \o seqs[m + 1]
          BY <1>1, <2>2
        <5>3. QED
          BY <5>1, <5>2, Zenon
      <4>2. f[m] \in Seq(U) /\ ToSet(f[m]) = Of(m) /\ seqs[m + 1] \in Seq(U)
        BY <1>1, <2>4, <4>1
      <4>3. \A s, t \in Seq(U) : s \o t \in Seq(U) /\ ToSet(s \o t) = ToSet(s) \cup ToSet(t)
        <5> SUFFICES ASSUME NEW s \in Seq(U), NEW t \in Seq(U)
                     PROVE  s \o t \in Seq(U) /\ ToSet(s \o t) = ToSet(s) \cup ToSet(t)
          OBVIOUS
        <5>1. s \o t \in Seq(U) /\ Len(s \o t) = Len(s) + Len(t)
              /\ \A i \in 1..Len(s) + Len(t) : (s \o t)[i] = IF i <= Len(s) THEN s[i] ELSE t[i - Len(s)]
          BY ConcatProperties
        <5> DEFINE st == s \o t
        <5>6. DOMAIN st = 1..Len(s) + Len(t)
          BY <5>1
        <5> HIDE DEF st
        <5>2. ToSet(s \o t) \subseteq ToSet(s) \cup ToSet(t)
          BY <5>1 DEF ToSet
        <5>3. ToSet(s) \subseteq ToSet(s \o t)
          BY <5>1 DEF ToSet
        <5>4. ASSUME NEW i \in 1..Len(t) PROVE t[i] \in ToSet(s \o t)
          <6>1. Len(s) + i \in 1..Len(s) + Len(t) /\ ~(Len(s) + i <= Len(s))
                /\ Len(s) + i - Len(s) = i
            OBVIOUS
          <6>2. (s \o t)[Len(s) + i] = t[i]
            BY <5>1, <6>1
          <6>3. QED
            BY <5>6, <6>1, <6>2, Zenon DEF ToSet, st
        <5>7. ToSet(t) \subseteq ToSet(s \o t)
          <6>1. \A x \in ToSet(t) : \E i \in 1..Len(t) : x = t[i]
            BY DEF ToSet
          <6>2. QED
            BY <5>4, <6>1
        <5>5. QED
          BY <5>1, <5>2, <5>3, <5>7
      <4>4. Of(m + 1) = Of(m) \cup ToSet(seqs[m + 1])
        <5>1. 1..m + 1 = (1..m) \cup {m + 1}
          OBVIOUS
        <5>2. QED
          BY <5>1
      <4>5. QED
        BY <4>1, <4>2, <4>3, <4>4, Zenon
    <3>3. QED
      BY <3>1, <3>2
  <2>5. n \in S
    BY <1>1, <2>3, <2>4, SetInduction, Zenon
  <2>6. f[n] \in Seq(U) /\ ToSet(f[n]) = Of(n)
    BY <1>1, <1>3, <2>5
  <2>7. QED
    BY <1>1, <2>1, <2>6
<1>4. QED
  BY <1>2, <1>3

\* A function on the first numbers is the sequence of its values.
LEMMA Listed1 ==
  ASSUME NEW s, NEW n \in Nat, s = [i \in 1..n |-> s[i]]
  PROVE  IsSequence(s) /\ ToSet(s) = {s[i] : i \in 1..n} /\ Len(s) = n
<1> DEFINE R == {s[i] : i \in 1..n}
<1>1. DOMAIN s = 1..n
  OBVIOUS
<1>2. ToSet(s) = R
  BY <1>1 DEF ToSet
<1>3. s \in [1..n -> R]
  OBVIOUS
<1>4. s \in Seq(R) /\ Len(s) = n
  BY <1>1, <1>3
<1>5. QED
  BY <1>2, <1>4, Zenon DEF IsSequence

LEMMA SequenceIs ==
  ASSUME NEW s, IsSequence(s)
  PROVE  /\ Len(s) \in Nat /\ DOMAIN s = 1..Len(s)
         /\ s = [i \in 1..Len(s) |-> s[i]]
         /\ \A i \in 1..Len(s) : s[i] \in ToSet(s)
         /\ ToSet(s) = {s[i] : i \in 1..Len(s)}
<1>1. Len(s) \in Nat /\ DOMAIN s = 1..Len(s) /\ s = [i \in 1..Len(s) |-> s[i]]
  BY DEF IsSequence
<1>2. QED
  BY <1>1 DEF ToSet

LEMMA Concatenated ==
  ASSUME NEW seqs, NEW n \in Nat, seqs = [i \in 1..n |-> seqs[i]],
         \A i \in 1..n : IsSequence(seqs[i])
  PROVE  /\ IsSequence(FlattenSeq(seqs))
         /\ ToSet(FlattenSeq(seqs)) = UNION {ToSet(seqs[i]) : i \in 1..n}
<1> DEFINE U == UNION {ToSet(seqs[i]) : i \in 1..n}
<1>1. DOMAIN seqs = 1..n
  OBVIOUS
<1>2. ASSUME NEW i \in 1..n PROVE seqs[i] \in Seq(U)
  <2>1. ToSet(seqs[i]) \subseteq U
    OBVIOUS
  <2>2. seqs[i] \in Seq(ToSet(seqs[i]))
    BY DEF IsSequence
  <2> HIDE DEF U
  <2>3. QED
    BY <2>1, <2>2
<1> HIDE DEF U
<1>3. seqs \in [1..n -> Seq(U)]
  BY <1>2
<1>4. seqs \in Seq(Seq(U))
  BY <1>3
<1>5. FlattenSeq(seqs) \in Seq(U) /\ ToSet(FlattenSeq(seqs)) = U
  BY <1>1, <1>4, FlattenElements, Zenon DEF U
<1>6. QED
  BY <1>5, Zenon DEF IsSequence, U

LEMMA Appended ==
  ASSUME NEW s, NEW t, IsSequence(s), IsSequence(t)
  PROVE  IsSequence(s \o t) /\ ToSet(s \o t) = ToSet(s) \cup ToSet(t)
<1> DEFINE U == ToSet(s) \cup ToSet(t)
           seqs == <<s, t>>
<1>1. s \in Seq(U) /\ t \in Seq(U)
  <2>1. s \in Seq(ToSet(s)) /\ t \in Seq(ToSet(t))
    BY DEF IsSequence
  <2>2. QED
    BY <2>1
<1> HIDE DEF U
<1>2. s \o t \in Seq(U) /\ Len(s \o t) = Len(s) + Len(t)
      /\ \A i \in 1..Len(s) + Len(t) : (s \o t)[i] = IF i <= Len(s) THEN s[i] ELSE t[i - Len(s)]
  BY <1>1, ConcatProperties
<1> DEFINE st == s \o t
<1>3. DOMAIN st = 1..Len(s) + Len(t) /\ Len(s) \in Nat /\ Len(t) \in Nat
      /\ DOMAIN s = 1..Len(s) /\ DOMAIN t = 1..Len(t)
  BY <1>1, <1>2
<1> HIDE DEF st
<1>4. \A i \in 1..Len(s) : st[i] = s[i] /\ i \in DOMAIN st
  BY <1>2, <1>3 DEF st
<1>5. ASSUME NEW i \in 1..Len(t) PROVE \E k \in DOMAIN st : st[k] = t[i]
  <2>1. Len(s) + i \in 1..Len(s) + Len(t) /\ ~(Len(s) + i <= Len(s))
        /\ Len(s) + i - Len(s) = i
    BY <1>3
  <2>2. st[Len(s) + i] = t[i]
    BY <1>2, <2>1 DEF st
  <2>3. QED
    BY <1>3, <2>1, <2>2
<1>6. ASSUME NEW i \in DOMAIN st PROVE st[i] \in ToSet(s) \cup ToSet(t)
  <2>1. i \in 1..Len(s) + Len(t) /\ st[i] = IF i <= Len(s) THEN s[i] ELSE t[i - Len(s)]
    BY <1>2, <1>3 DEF st
  <2>2. i \in 1..Len(s) \/ i - Len(s) \in 1..Len(t)
    BY <1>3, <2>1
  <2>3. (i <= Len(s) => i \in DOMAIN s) /\ (~(i <= Len(s)) => i - Len(s) \in DOMAIN t)
    BY <1>3, <2>1
  <2>4. QED
    BY <2>1, <2>3 DEF ToSet
<1>7. ToSet(st) = ToSet(s) \cup ToSet(t)
  <2>1. ToSet(st) \subseteq ToSet(s) \cup ToSet(t)
    BY <1>6 DEF ToSet
  <2>2. ToSet(s) \subseteq ToSet(st)
    BY <1>3, <1>4 DEF ToSet
  <2>3. ToSet(t) \subseteq ToSet(st)
    BY <1>3, <1>5 DEF ToSet
  <2>4. QED
    BY <2>1, <2>2, <2>3
<1>8. st \in Seq(ToSet(st))
  BY <1>2, <1>7 DEF st, U
<1>9. QED
  BY <1>7, <1>8 DEF IsSequence, st

LEMMA ShortSequences ==
  /\ IsSequence(<< >>) /\ ToSet(<< >>) = {}
  /\ \A x : IsSequence(<<x>>) /\ ToSet(<<x>>) = {x}
  /\ \A x, y : IsSequence(<<x, y>>) /\ ToSet(<<x, y>>) = {x, y}
<1>1. IsSequence(<< >>) /\ ToSet(<< >>) = {}
  BY DEF IsSequence, ToSet
<1>2. ASSUME NEW x PROVE IsSequence(<<x>>) /\ ToSet(<<x>>) = {x}
  <2>1. ToSet(<<x>>) = {x}
    BY DEF ToSet
  <2>2. <<x>> \in Seq({x})
    OBVIOUS
  <2>3. QED
    BY <2>1, <2>2 DEF IsSequence
<1>3. ASSUME NEW x, NEW y PROVE IsSequence(<<x, y>>) /\ ToSet(<<x, y>>) = {x, y}
  <2>1. ToSet(<<x, y>>) = {x, y}
    BY DEF ToSet
  <2>2. <<x, y>> \in Seq({x, y})
    OBVIOUS
  <2>3. QED
    BY <2>1, <2>2 DEF IsSequence
<1>4. QED
  BY <1>1, <1>2, <1>3

LEMMA SelectedElements ==
  ASSUME NEW s, IsSequence(s), NEW indices
  PROVE  /\ IsSequence(Selected(s, indices))
         /\ ToSet(Selected(s, indices)) = {s[i] : i \in indices \cap DOMAIN s}
<1> DEFINE n == Len(s)
           parts == [i \in DOMAIN s |-> IF i \in indices THEN <<s[i]>> ELSE << >>]
<1>1. n \in Nat /\ DOMAIN s = 1..n
  BY SequenceIs
<1>2. parts = [i \in 1..n |-> parts[i]]
      /\ \A i \in 1..n : parts[i] = IF i \in indices THEN <<s[i]>> ELSE << >>
  BY <1>1
<1> HIDE DEF parts, n
<1>3. \A i \in 1..n : IsSequence(parts[i]) /\ ToSet(parts[i]) = IF i \in indices THEN {s[i]} ELSE {}
  BY <1>2, ShortSequences
<1>4. /\ IsSequence(FlattenSeq(parts))
      /\ ToSet(FlattenSeq(parts)) = UNION {ToSet(parts[i]) : i \in 1..n}
  BY <1>1, <1>2, <1>3, Concatenated, Zenon
<1>5. UNION {ToSet(parts[i]) : i \in 1..n} = {s[i] : i \in indices \cap DOMAIN s}
  BY <1>1, <1>3, Zenon
<1>6. QED
  BY <1>4, <1>5, Zenon DEF Selected, parts

-----------------------------------------------------------------------------
(* What a page says was true                                               *)

\* Of a load that looks things up: what was read of a principal's roles and of a
\* domain's policies, and is not in what must still be read, was true.
RolesWereRead ==
  \A m \in DOMAIN load.roles : \A r :
     /\ r \in load.roles[m] => <<m, r>> \in history.held
     /\ <<m, r>> \in Memberships(start) /\ r \notin load.roles[m] => <<m, r>> \in history.gone
KeysWereRead ==
  \A d \in DOMAIN load.keys :
     /\ load.keys[d] \subseteq history.keys
     /\ d \notin load.noPolicies =>
          \A n \in Names(d) : \A k :
             n \in load.unread \/ k \in load.keys[d] \/ <<n, k>> \notin history.kept
HistoryIs ==
  /\ DOMAIN history = DOMAIN NoHistory
  /\ load.pc # "none" =>
        /\ members \subseteq history.held
        /\ Memberships(start) \ members \subseteq history.gone
        /\ HeldKeys \subseteq history.keys
        /\ history.kept \subseteq Placed(policies)
Placement ==
  /\ DOMAIN policies = PolicyNames
  /\ \A n \in PolicyNames : \A k \in policies[n] : DomainOf(k) = n[1]
IsPair(f) == f = <<f[1], f[2]>>
Request ==
  /\ request \in Seq([members : SUBSET {f \in Memberships(start) \cup ManagedMembers : IsPair(f)},
                      keys : SUBSET Assertions(start)])
LookupWell ==
  /\ start \in PageStarts
  /\ DOMAIN load = DOMAIN NoLoad /\ DOMAIN load.answer = DOMAIN NoAnswer
  /\ \A f \in members : IsPair(f)
  /\ Placement /\ Request /\ HistoryIs
  /\ load.unread \subseteq PolicyNames
  /\ load.pc # "looking" => load.roles = << >> /\ load.keys = << >> /\ load.unread = {}
  /\ RolesWereRead /\ KeysWereRead
  /\ StatusesWereTrue

LEMMA Pairs ==
  /\ \A s \in PageStarts : \A f \in Memberships(s) : IsPair(f)
  /\ \A f \in ManagedMembers : IsPair(f)
BY DEF Memberships, ManagedMembers, Identity, IsPair

LEMMA Homes ==
  ASSUME NEW s \in PageStarts, NEW k \in Assertions(s)
  PROVE  HomeOf(k) \in PolicyNames /\ HomeOf(k)[1] = DomainOf(k)
<1>1. Names(DomainOf(k)) # {}
  BY ReadinessAssumption
<1>2. HomeOf(k) \in Names(DomainOf(k))
  BY <1>1 DEF HomeOf
<1>3. QED
  BY <1>2 DEF Names

LEMMA GrantsWell ==
  ASSUME start \in PageStarts
  PROVE  Grants \in Seq([members : SUBSET {f \in Memberships(start) \cup ManagedMembers : IsPair(f)},
                         keys : SUBSET Assertions(start)])
<1> DEFINE M == {f \in Memberships(start) \cup ManagedMembers : IsPair(f)}
           K == Assertions(start)
           G == [members : SUBSET M, keys : SUBSET K]
<1>1. Memberships(start) \subseteq M /\ ManagedMembers \subseteq M
  BY Pairs
<1>2. HelperFacts \subseteq M /\ UserMemberships \subseteq M
  BY <1>1 DEF HelperFacts, UserMemberships
<1>3. ManagedKeys \subseteq K /\ SourceKeys \subseteq K
  BY DEF ManagedKeys, SourceKeys
<1> HIDE DEF M, K
<1>4. [members |-> ManagedMembers \ UserMemberships, keys |-> ManagedKeys] \in G
  BY <1>1, <1>3
<1>5. [members |-> {f \in HelperFacts : f[1] # User},
       keys |-> Assertions(start) \ (ManagedKeys \cup SourceKeys)] \in G
  BY <1>2 DEF K
<1>6. [members |-> UserMemberships, keys |-> {}] \in G
  BY <1>2
<1>7. [members |-> {}, keys |-> SourceKeys] \in G
  BY <1>3
<1> HIDE DEF G
<1>8. Grants \in Seq(G)
  BY <1>4, <1>5, <1>6, <1>7 DEF Grants
<1>9. QED
  BY <1>8 DEF G, M, K

LEMMA LoadFields ==
  /\ DOMAIN NoLoad = {"pc", "roles", "keys", "unread", "noRoles", "noPolicies", "listing",
                      "session", "tools", "answer"}
  /\ DOMAIN NoAnswer = {"error", "statuses"}
  /\ DOMAIN NoHistory = {"held", "gone", "keys", "kept"}
BY DEF NoLoad, NoAnswer, NoHistory

LEMMA Nowhere == DOMAIN << >> = {}
OBVIOUS

\* What is known of Athenz grows while it is loaded, and what was true stays so.
LEMMA HistoryGrows ==
  ASSUME LookupWell, NEW ms, NEW ps, AthenzBecomes(ms, ps), UNCHANGED <<start, load>>,
         load.pc # "none"
  PROVE  /\ HistoryIs'
         /\ history.held \subseteq history'.held /\ history.gone \subseteq history'.gone
         /\ history.keys \subseteq history'.keys /\ history'.kept \subseteq history.kept
<1> DEFINE seen == HistoryFrom(ms, ps)
<1>1. history' = [held |-> history.held \cup seen.held, gone |-> history.gone \cup seen.gone,
                  keys |-> history.keys \cup seen.keys, kept |-> history.kept \cap seen.kept]
  BY DEF AthenzBecomes
<1>2. /\ seen.held = members' /\ seen.gone = Memberships(start)' \ members'
      /\ seen.keys = HeldKeys' /\ seen.kept = Placed(policies)'
  <2>1. Memberships(start)' = Memberships(start)
    BY DEF Memberships
  <2>2. ms = members' /\ ps = policies'
    BY DEF AthenzBecomes
  <2>3. Placed(policies)' = Placed(ps)
    BY <2>2 DEF Placed
  <2>4. HeldKeys' = UNION {ps[n] : n \in PolicyNames}
    BY <2>2 DEF HeldKeys
  <2>5. QED
    BY <2>1, <2>2, <2>3, <2>4 DEF HistoryFrom
<1> HIDE DEF seen
<1>3. DOMAIN history' = DOMAIN NoHistory
  BY <1>1, LoadFields
<1>4. QED
  BY <1>1, <1>2, <1>3 DEF HistoryIs

LEMMA AthenzKeepsLookup ==
  ASSUME LookupWell, NEW ms, NEW ps, AthenzBecomes(ms, ps), UNCHANGED <<start, load>>,
         \A f \in ms : IsPair(f), DOMAIN ps = PolicyNames,
         \A n \in PolicyNames : \A k \in ps[n] : DomainOf(k) = n[1],
         Request'
  PROVE  LookupWell'
<1>1. \A f \in members' : IsPair(f)
  BY DEF AthenzBecomes
<1>2. Placement'
  BY DEF AthenzBecomes, Placement
<1>3. Memberships(start)' = Memberships(start) /\ Groups' = Groups
  BY DEF Memberships, Groups
<1>4. CASE load.pc = "none"
  <2>1. HistoryIs'
    <3>1. history' = history
      BY <1>4 DEF AthenzBecomes
    <3>2. QED
      BY <1>4, <3>1 DEF HistoryIs, LookupWell
  <2>2. RolesWereRead' /\ KeysWereRead' /\ StatusesWereTrue'
    BY <1>4, Nowhere DEF LookupWell, RolesWereRead, KeysWereRead, StatusesWereTrue
  <2>3. QED
    BY <1>1, <1>2, <1>4, <2>1, <2>2 DEF LookupWell
<1>5. CASE load.pc # "none"
  <2>1. /\ HistoryIs'
        /\ history.held \subseteq history'.held /\ history.gone \subseteq history'.gone
        /\ history.keys \subseteq history'.keys /\ history'.kept \subseteq history.kept
    BY <1>5, HistoryGrows
  <2>2. RolesWereRead'
    BY <2>1, <1>3 DEF LookupWell, RolesWereRead
  <2>3. KeysWereRead'
    BY <2>1 DEF LookupWell, KeysWereRead
  <2>4. StatusesWereTrue'
    BY <2>1, <1>3 DEF LookupWell, StatusesWereTrue
  <2>5. QED
    BY <1>1, <1>2, <2>1, <2>2, <2>3, <2>4 DEF LookupWell
<1>6. QED
  BY <1>4, <1>5

\* Steps that leave Athenz and the load alone.
LEMMA OthersKeepLookup ==
  ASSUME LookupWell, UNCHANGED <<start, members, policies, load, history>>, Request'
  PROVE  LookupWell'
<1>1. Memberships(start)' = Memberships(start) /\ Groups' = Groups /\ HeldKeys' = HeldKeys
      /\ Placed(policies)' = Placed(policies)
  BY DEF Memberships, Groups, HeldKeys, Placed
<1>2. HistoryIs' /\ Placement' /\ RolesWereRead' /\ KeysWereRead' /\ StatusesWereTrue'
  BY <1>1 DEF LookupWell, HistoryIs, Placement, RolesWereRead, KeysWereRead, StatusesWereTrue
<1>3. QED
  BY <1>1, <1>2 DEF LookupWell

\* A step of the load.
LEMMA LoadingKeepsLookup ==
  ASSUME LookupWell, NEW next, Loading(next), DOMAIN next = DOMAIN NoLoad,
         DOMAIN next.answer = DOMAIN NoAnswer,
         load.pc = "none" => next.pc = "none",
         next.unread \subseteq PolicyNames,
         next.pc # "looking" => next.roles = << >> /\ next.keys = << >> /\ next.unread = {},
         RolesWereRead', KeysWereRead', StatusesWereTrue'
  PROVE  LookupWell'
<1>1. Memberships(start)' = Memberships(start) /\ HeldKeys' = HeldKeys
      /\ Placed(policies)' = Placed(policies) /\ ManagedMembers' = ManagedMembers
      /\ Assertions(start)' = Assertions(start)
  BY DEF Memberships, HeldKeys, Placed, Loading, Assertions, ManagedMembers
<1>2. HistoryIs' /\ Placement' /\ Request'
  BY <1>1 DEF LookupWell, HistoryIs, Placement, Request, Loading
<1>3. QED
  BY <1>2 DEF LookupWell, Loading

LEMMA LoadAgainWell ==
  ASSUME LookupWell, LoadAgain, UNCHANGED <<start, members, policies>>, Request'
  PROVE  LookupWell'
<1>1. Memberships(start)' = Memberships(start) /\ HeldKeys' = HeldKeys
      /\ Placed(policies)' = Placed(policies)
  BY DEF Memberships, HeldKeys, Placed
<1>2. load' = NewLoad /\ NewLoad.pc = "definition" /\ NewLoad.roles = << >>
      /\ NewLoad.keys = << >> /\ NewLoad.unread = {} /\ NewLoad.answer = NoAnswer
      /\ DOMAIN NewLoad = DOMAIN NoLoad
  BY DEF LoadAgain, NewLoad, NoLoad
<1>3. HistoryIs'
  <2>1. history' = HistoryFrom(members, policies)
    BY DEF LoadAgain
  <2>2. DOMAIN history' = DOMAIN NoHistory
    BY <2>1, LoadFields DEF HistoryFrom
  <2>3. QED
    BY <1>1, <2>1, <2>2 DEF HistoryIs, HistoryFrom, HeldKeys
<1>4. RolesWereRead' /\ KeysWereRead' /\ StatusesWereTrue'
  BY <1>2, Nowhere DEF RolesWereRead, KeysWereRead, StatusesWereTrue
<1>5. Placement'
  BY DEF LookupWell, Placement
<1>6. QED
  BY <1>2, <1>3, <1>4, <1>5 DEF LookupWell

LEMMA InitLookup == PageInit => LookupWell
<1> SUFFICES ASSUME PageInit PROVE LookupWell
  OBVIOUS
<1>1. load = NewLoad /\ NewLoad.pc = "definition" /\ NewLoad.roles = << >>
      /\ NewLoad.keys = << >> /\ NewLoad.unread = {} /\ NewLoad.answer = NoAnswer
      /\ DOMAIN NewLoad = DOMAIN NoLoad
  BY DEF PageInit, NewLoad, NoLoad
<1>2. HistoryIs
  <2>1. history = HistoryFrom(members, policies)
    BY DEF PageInit
  <2>2. DOMAIN history = DOMAIN NoHistory
    BY <2>1, LoadFields DEF HistoryFrom
  <2>3. QED
    BY <2>1, <2>2 DEF HistoryIs, HistoryFrom, HeldKeys
<1>3. RolesWereRead /\ KeysWereRead /\ StatusesWereTrue
  BY <1>1, Nowhere DEF RolesWereRead, KeysWereRead, StatusesWereTrue
<1>4. Placement
  <2>1. DOMAIN policies = PolicyNames
    BY DEF PageInit
  <2>2. ASSUME NEW n \in PolicyNames, NEW k \in policies[n] PROVE DomainOf(k) = n[1]
    <3>1. k \in Assertions(start) /\ HomeOf(k) = n /\ start \in PageStarts
      BY <2>2 DEF PageInit
    <3>2. QED
      BY <3>1, Homes
  <2>3. QED
    BY <2>1, <2>2 DEF Placement
<1>5. Request
  BY DEF PageInit, Request
<1>6. \A f \in members : IsPair(f)
  BY Pairs DEF PageInit
<1>7. QED
  BY <1>1, <1>2, <1>3, <1>4, <1>5, <1>6 DEF LookupWell, PageInit

LEMMA ChangesKeepLookup ==
  ASSUME LookupWell, MembershipChanges \/ PolicyChanges
  PROVE  LookupWell'
<1>1. Request'
  <2>1. Memberships(start)' = Memberships(start) /\ Assertions(start)' = Assertions(start)
        /\ request' = request /\ ManagedMembers' = ManagedMembers
    BY DEF Memberships, Assertions, MembershipChanges, PolicyChanges, ManagedMembers
  <2>2. QED
    BY <2>1 DEF LookupWell, Request
<1>2. CASE MembershipChanges
  <2>1. PICK f \in Memberships(start) :
          AthenzBecomes(IF f \in members THEN members \ {f} ELSE members \cup {f}, policies)
    BY <1>2, Zenon DEF MembershipChanges
  <2>2. IsPair(f)
    BY Pairs DEF LookupWell
  <2>3. \A x \in (IF f \in members THEN members \ {f} ELSE members \cup {f}) : IsPair(x)
    BY <2>2 DEF LookupWell
  <2>4. UNCHANGED <<start, load>>
    BY <1>2 DEF MembershipChanges
  <2>5. DOMAIN policies = PolicyNames
        /\ \A n \in PolicyNames : \A k \in policies[n] : DomainOf(k) = n[1]
    BY DEF LookupWell, Placement
  <2>6. QED
    BY <1>1, <2>1, <2>3, <2>4, <2>5, AthenzKeepsLookup
<1>3. CASE PolicyChanges
  <2>0. PICK k \in Assertions(start) : \E n \in Names(DomainOf(k)) :
          AthenzBecomes(members, [policies EXCEPT ![n] = IF k \in @ THEN @ \ {k} ELSE @ \cup {k}])
    BY <1>3, Zenon DEF PolicyChanges
  <2>1. PICK n \in Names(DomainOf(k)) :
          AthenzBecomes(members, [policies EXCEPT ![n] = IF k \in @ THEN @ \ {k} ELSE @ \cup {k}])
    BY <2>0, Zenon
  <2> DEFINE ps == [policies EXCEPT ![n] = IF k \in @ THEN @ \ {k} ELSE @ \cup {k}]
  <2>2. n \in PolicyNames /\ n[1] = DomainOf(k)
    BY DEF Names
  <2>3. DOMAIN ps = PolicyNames /\ \A x \in PolicyNames : \A y \in ps[x] : DomainOf(y) = x[1]
    BY <2>2 DEF LookupWell, Placement
  <2>4. UNCHANGED <<start, load>> /\ \A f \in members : IsPair(f)
    BY <1>3 DEF PolicyChanges, LookupWell
  <2> HIDE DEF ps
  <2>5. AthenzBecomes(members, ps)
    BY <2>1 DEF ps
  <2>6. QED
    BY <1>1, <2>3, <2>4, <2>5, AthenzKeepsLookup
<1>4. QED
  BY <1>2, <1>3

LEMMA GrantKeepsLookup == ASSUME LookupWell, Granted PROVE LookupWell'
<1> DEFINE M == {f \in Memberships(start) \cup ManagedMembers : IsPair(f)}
           K == Assertions(start)
           G == [members : SUBSET M, keys : SUBSET K]
           g == Head(request)
           ps == [n \in PolicyNames |-> policies[n] \cup {k \in g.keys \ HeldKeys : HomeOf(k) = n}]
<1> HIDE DEF M, K
<1>1. request \in Seq(G) /\ request # << >>
  BY DEF LookupWell, Request, Granted, M, K
<1> HIDE DEF G
<1>2. g \in G /\ Tail(request) \in Seq(G)
  BY <1>1
<1>3. request' = Tail(request) /\ UNCHANGED <<start, load>>
  BY DEF Granted
<1>4. Request'
  <2>1. Memberships(start)' = Memberships(start) /\ Assertions(start)' = Assertions(start)
        /\ ManagedMembers' = ManagedMembers
    BY <1>3 DEF Memberships, Assertions, ManagedMembers
  <2>2. QED
    BY <1>2, <1>3, <2>1 DEF Request, G, M, K
<1>5. g.members \subseteq M /\ g.keys \subseteq K
  BY <1>2 DEF G
<1> HIDE DEF g
<1>6. \A f \in members \cup g.members : IsPair(f)
  BY <1>5 DEF LookupWell, M
<1>7. DOMAIN ps = PolicyNames /\ \A n \in PolicyNames : \A k \in ps[n] : DomainOf(k) = n[1]
  <2>1. ASSUME NEW n \in PolicyNames, NEW k \in ps[n] PROVE DomainOf(k) = n[1]
    <3>1. k \in policies[n] \/ (k \in K /\ HomeOf(k) = n)
      BY <1>5, <2>1
    <3>2. QED
      BY <3>1, Homes DEF LookupWell, Placement, K
  <2>2. QED
    BY <2>1
<1>8. AthenzBecomes(members \cup g.members, ps)
  BY DEF Granted, g
<1> HIDE DEF ps
<1>9. QED
  BY <1>3, <1>4, <1>6, <1>7, <1>8, AthenzKeepsLookup

\* A step of the load which learns nothing of Athenz.
LEMMA PassedKeepsLookup ==
  ASSUME LookupWell, NEW next, Loading(next), DOMAIN next = DOMAIN NoLoad, next.answer = load.answer, next.roles = load.roles,
         next.keys = load.keys, next.unread = load.unread, next.noPolicies = load.noPolicies,
         next.pc = load.pc \/ (load.pc = "credentials" /\ next.pc # "answered")
  PROVE  LookupWell'
<1>1. Memberships(start)' = Memberships(start) /\ Groups' = Groups /\ load' = next
      /\ history' = history
  BY DEF Memberships, Groups, Loading
<1>2. RolesWereRead' /\ KeysWereRead' /\ StatusesWereTrue'
  BY <1>1 DEF LookupWell, RolesWereRead, KeysWereRead, StatusesWereTrue
<1>3. QED
  BY <1>2, LoadingKeepsLookup DEF LookupWell

LEMMA PassingKeeps ==
  ASSUME LookupWell,
         CredentialsRead \/ Initialized \/ Notified \/ ToolsListed \/ SessionClosed
         \/ ServerFails \/ \E m \in Principals : RolesFail(m)
  PROVE  LookupWell'
<1>1. DOMAIN load = DOMAIN NoLoad
  BY DEF LookupWell
<1>2. CASE CredentialsRead
  <2>1. Loading([load EXCEPT !.pc = "looking"]) /\ load.pc = "credentials"
    BY <1>2 DEF CredentialsRead
  <2>2. QED
    BY <1>1, <2>1, PassedKeepsLookup, LoadFields
<1>3. CASE \E m \in Principals : RolesFail(m)
  <2>1. PICK m : Loading([load EXCEPT !.noRoles = @ \cup {m}]) /\ load.pc = "looking"
    BY <1>3 DEF RolesFail
  <2>2. QED
    BY <1>1, <2>1, PassedKeepsLookup, LoadFields
<1>4. ASSUME NEW next, Loading(next), DOMAIN next = DOMAIN NoLoad, next.pc = load.pc,
             next.answer = load.answer, next.roles = load.roles, next.keys = load.keys,
             next.unread = load.unread, next.noPolicies = load.noPolicies
      PROVE  LookupWell'
  BY <1>4, PassedKeepsLookup
<1>5. CASE Initialized
  <2>1. PICK session \in BOOLEAN :
          Loading([load EXCEPT !.listing = "notify", !.session = session])
    BY <1>5 DEF Initialized
  <2>2. QED
    BY <1>1, <1>4, <2>1, LoadFields, Zenon
<1>6. CASE Notified
  <2>1. Loading([load EXCEPT !.listing = "list"])
    BY <1>6 DEF Notified
  <2>2. QED
    BY <1>1, <1>4, <2>1, LoadFields
<1>7. CASE ToolsListed
  <2>1. Loading([load EXCEPT !.listing = AfterListing, !.tools = Tools])
    BY <1>7 DEF ToolsListed
  <2>2. QED
    BY <1>1, <1>4, <2>1, LoadFields, Zenon
<1>8. CASE SessionClosed
  <2>1. Loading([load EXCEPT !.listing = "done", !.session = FALSE])
    BY <1>8 DEF SessionClosed
  <2>2. QED
    BY <1>1, <1>4, <2>1, LoadFields, Zenon
<1>9. CASE ServerFails
  <2>1. Loading([load EXCEPT !.listing = IF @ = "close" THEN "done" ELSE AfterListing])
    BY <1>9 DEF ServerFails
  <2>2. QED
    BY <1>1, <1>4, <2>1, LoadFields
<1>10. QED
  BY <1>2, <1>3, <1>5, <1>6, <1>7, <1>8, <1>9

LEMMA RolesKeep ==
  ASSUME LookupWell, NEW m \in Principals, RolesFound(m)
  PROVE  LookupWell'
<1> DEFINE found == {f[2] : f \in {x \in members : x[1] = m}}
           answers == Found(load.roles, m, found)
           next == [load EXCEPT !.roles = answers]
<1>1. Loading(next) /\ load.pc = "looking" /\ m \notin DOMAIN load.roles
  BY DEF RolesFound
<1>2. DOMAIN load = DOMAIN NoLoad /\ history' = history /\ load' = next
  BY <1>1 DEF LookupWell, Loading
<1>3. \A x \in DOMAIN answers :
        \/ x \in DOMAIN load.roles /\ answers[x] = load.roles[x]
        \/ x = m /\ answers[x] = found
  <2> HIDE DEF found
  <2>1. DOMAIN answers = DOMAIN load.roles \cup {m}
    BY DEF Found
  <2>2. answers[m] = found
    BY DEF Found
  <2>3. \A y \in DOMAIN load.roles : y # m => answers[y] = load.roles[y]
    BY DEF Found
  <2> HIDE DEF answers
  <2>4. QED
    BY <2>1, <2>2, <2>3
<1>4. /\ DOMAIN next = DOMAIN NoLoad /\ next.roles = answers /\ next.answer = load.answer
      /\ next.keys = load.keys /\ next.unread = load.unread
      /\ next.noPolicies = load.noPolicies /\ next.pc = load.pc
  BY <1>2, LoadFields
<1> HIDE DEF answers, next
<1>5. \A r : /\ r \in found => <<m, r>> \in members
             /\ r \notin found => <<m, r>> \notin members
  <2>1. \A f \in members : f = <<f[1], f[2]>>
    BY DEF LookupWell, IsPair
  <2>2. ASSUME NEW r, <<m, r>> \in members PROVE r \in found
    <3>1. <<m, r>>[1] = m /\ <<m, r>>[2] = r
      OBVIOUS
    <3>2. QED
      BY <2>2, <3>1
  <2>3. QED
    BY <2>1, <2>2
<1> HIDE DEF found
<1>6. members \subseteq history.held /\ Memberships(start) \ members \subseteq history.gone
  BY <1>1 DEF LookupWell, HistoryIs
<1>7. Memberships(start)' = Memberships(start) /\ Groups' = Groups
  BY <1>1 DEF Memberships, Groups, Loading
<1>8. RolesWereRead'
  BY <1>2, <1>3, <1>4, <1>5, <1>6, <1>7 DEF LookupWell, RolesWereRead
<1>9. KeysWereRead' /\ StatusesWereTrue'
  BY <1>1, <1>2, <1>4, <1>7 DEF LookupWell, KeysWereRead, StatusesWereTrue
<1>10. QED
  BY <1>1, <1>4, <1>8, <1>9, LoadingKeepsLookup DEF LookupWell

\* The list of a domain's policies, with the assertions or without.
LEMMA ListingKeeps ==
  ASSUME LookupWell, NEW d \in Domains, PoliciesListed(d)
  PROVE  LookupWell'
<1> DEFINE there == {n \in Names(d) : policies[n] # {}}
<1>1. PICK inline \in BOOLEAN :
        Loading([load EXCEPT
          !.keys = Found(@, d, IF inline THEN UNION {policies[n] : n \in there} ELSE {}),
          !.unread = @ \cup there])
  BY DEF PoliciesListed
<1> DEFINE found == IF inline THEN UNION {policies[n] : n \in there} ELSE {}
           keys == Found(load.keys, d, found)
           next == [load EXCEPT !.keys = keys, !.unread = @ \cup there]
<1>2. Loading(next) /\ load.pc = "looking" /\ d \notin DOMAIN load.keys
  BY <1>1 DEF PoliciesListed
<1>3. DOMAIN load = DOMAIN NoLoad /\ history' = history /\ load' = next
  BY <1>2 DEF LookupWell, Loading
<1>4. \A x \in DOMAIN keys :
        \/ x \in DOMAIN load.keys /\ keys[x] = load.keys[x]
        \/ x = d /\ keys[x] = found
  <2> HIDE DEF found
  <2>1. DOMAIN keys = DOMAIN load.keys \cup {d}
    BY DEF Found
  <2>2. keys[d] = found
    BY DEF Found
  <2>3. \A y \in DOMAIN load.keys : y # d => keys[y] = load.keys[y]
    BY DEF Found
  <2> HIDE DEF keys
  <2>4. QED
    BY <2>1, <2>2, <2>3
<1>5. /\ DOMAIN next = DOMAIN NoLoad /\ next.keys = keys /\ next.answer = load.answer
      /\ next.roles = load.roles /\ next.unread = load.unread \cup there
      /\ next.noPolicies = load.noPolicies /\ next.pc = load.pc
  BY <1>3, LoadFields
<1> HIDE DEF keys, next
<1>6. there \subseteq PolicyNames /\ found \subseteq HeldKeys
  BY DEF Names, HeldKeys
<1>7. \A n \in Names(d) : \A k : n \in there \/ <<n, k>> \notin Placed(policies)
  BY DEF Placed
<1> HIDE DEF there, found
<1>8. HeldKeys \subseteq history.keys /\ history.kept \subseteq Placed(policies)
  BY <1>2 DEF LookupWell, HistoryIs
<1>9. Memberships(start)' = Memberships(start) /\ Groups' = Groups
  BY <1>2 DEF Memberships, Groups, Loading
<1>10. KeysWereRead'
  BY <1>3, <1>4, <1>5, <1>6, <1>7, <1>8 DEF LookupWell, KeysWereRead
<1>11. RolesWereRead' /\ StatusesWereTrue'
  BY <1>2, <1>3, <1>5, <1>9 DEF LookupWell, RolesWereRead, StatusesWereTrue
<1>12. QED
  BY <1>2, <1>5, <1>6, <1>10, <1>11, LoadingKeepsLookup DEF LookupWell

LEMMA PolicyReadKeeps ==
  ASSUME LookupWell, NEW n \in PolicyNames, PolicyRead(n)
  PROVE  LookupWell'
<1> DEFINE next == [load EXCEPT !.keys[n[1]] = @ \cup policies[n], !.unread = @ \ {n}]
<1>1. Loading(next) /\ load.pc = "looking" /\ n \in load.unread
  BY DEF PolicyRead
<1>2. DOMAIN load = DOMAIN NoLoad /\ history' = history /\ load' = next
  BY <1>1 DEF LookupWell, Loading
<1> DEFINE keys == [load.keys EXCEPT ![n[1]] = @ \cup policies[n]]
<1>3. /\ DOMAIN next = DOMAIN NoLoad /\ next.keys = keys /\ next.answer = load.answer
      /\ next.roles = load.roles /\ next.unread = load.unread \ {n}
      /\ next.noPolicies = load.noPolicies /\ next.pc = load.pc
  BY <1>2, LoadFields
<1> HIDE DEF next
<1>4. DOMAIN keys = DOMAIN load.keys
      /\ \A d \in DOMAIN keys : keys[d] = IF d = n[1] THEN load.keys[d] \cup policies[n] ELSE load.keys[d]
  BY Zenon
<1> HIDE DEF keys
<1>5. policies[n] \subseteq HeldKeys /\ \A k : k \in policies[n] \/ <<n, k>> \notin Placed(policies)
  BY DEF HeldKeys, Placed
<1>6. HeldKeys \subseteq history.keys /\ history.kept \subseteq Placed(policies)
  BY <1>1 DEF LookupWell, HistoryIs
<1>7. Memberships(start)' = Memberships(start) /\ Groups' = Groups
  BY <1>1 DEF Memberships, Groups, Loading
<1>8. KeysWereRead'
  <2>1. ASSUME NEW d \in DOMAIN keys
        PROVE  /\ keys[d] \subseteq history.keys
               /\ d \notin load.noPolicies =>
                    \A x \in Names(d) : \A k :
                       x \in load.unread \ {n} \/ k \in keys[d] \/ <<x, k>> \notin history.kept
    <3>1. /\ load.keys[d] \subseteq history.keys
          /\ d \notin load.noPolicies =>
                    \A x \in Names(d) : \A k :
                       x \in load.unread \/ k \in load.keys[d] \/ <<x, k>> \notin history.kept
      BY <1>4 DEF LookupWell, KeysWereRead
    <3>2. \A x \in Names(d) : x[1] = d
      BY DEF Names
    <3>3. QED
      BY <1>4, <1>5, <1>6, <3>1, <3>2, Zenon
  <2>2. QED
    BY <1>2, <1>3, <2>1 DEF KeysWereRead
<1>9. RolesWereRead' /\ StatusesWereTrue'
  BY <1>1, <1>2, <1>3, <1>7 DEF LookupWell, RolesWereRead, StatusesWereTrue
<1>10. QED
  BY <1>1, <1>3, <1>8, <1>9, LoadingKeepsLookup DEF LookupWell

\* A domain of which anything is lost counts as not looked up.
LEMMA LossKeeps ==
  ASSUME LookupWell,
         \/ \E n \in PolicyNames : PolicyFails(n)
         \/ \E d \in Domains : PoliciesFail(d)
  PROVE  LookupWell'
<1>1. PICK unread, d :
        /\ Loading([load EXCEPT !.unread = unread, !.noPolicies = @ \cup {d}])
        /\ unread = {x \in load.unread : x[1] # d} \/ unread = load.unread
        /\ load.pc = "looking"
  <2>1. DOMAIN load = DOMAIN NoLoad
    BY DEF LookupWell
  <2>2. CASE \E n \in PolicyNames : PolicyFails(n)
    <3>1. PICK n \in PolicyNames : Loading(WithoutPolicy(n)) /\ load.pc = "looking"
      BY <2>2 DEF PolicyFails
    <3>2. QED
      BY <3>1 DEF WithoutPolicy
  <2>3. CASE \E d \in Domains : PoliciesFail(d)
    <3>1. PICK d \in Domains : Loading([load EXCEPT !.noPolicies = @ \cup {d}]) /\ load.pc = "looking"
      BY <2>3 DEF PoliciesFail
    <3>2. [load EXCEPT !.noPolicies = @ \cup {d}]
          = [load EXCEPT !.unread = load.unread, !.noPolicies = @ \cup {d}]
      BY <2>1, LoadFields, Zenon
    <3>3. QED
      BY <3>1, <3>2
  <2>4. QED
    BY <2>2, <2>3
<1> DEFINE next == [load EXCEPT !.unread = unread, !.noPolicies = @ \cup {d}]
<1>2. DOMAIN load = DOMAIN NoLoad /\ history' = history /\ load' = next
  BY <1>1 DEF LookupWell, Loading
<1>3. /\ DOMAIN next = DOMAIN NoLoad /\ next.keys = load.keys /\ next.answer = load.answer
      /\ next.roles = load.roles /\ next.unread = unread
      /\ next.noPolicies = load.noPolicies \cup {d} /\ next.pc = load.pc
  BY <1>2, LoadFields
<1>4. Loading(next) /\ unread \subseteq PolicyNames
  BY <1>1 DEF LookupWell
<1> HIDE DEF next
<1>5. Memberships(start)' = Memberships(start) /\ Groups' = Groups
  BY <1>4 DEF Memberships, Groups, Loading
<1>6. KeysWereRead'
  <2>1. \A x \in DOMAIN load.keys : x # d => \A n \in Names(x) : n \in load.unread => n \in unread
    BY <1>1 DEF Names
  <2>2. QED
    BY <1>2, <1>3, <2>1 DEF LookupWell, KeysWereRead
<1>7. RolesWereRead' /\ StatusesWereTrue'
  BY <1>1, <1>2, <1>3, <1>5 DEF LookupWell, RolesWereRead, StatusesWereTrue
<1>8. QED
  BY <1>1, <1>3, <1>4, <1>6, <1>7, LoadingKeepsLookup DEF LookupWell

\* An answer is put together from what was looked up, and waits for its page.
LEMMA AnsweredKeeps ==
  ASSUME LookupWell, NEW error, NEW statuses, Loading(Answered(error, statuses)),
         load.pc # "none",
         \A g \in DOMAIN statuses :
            /\ \A i \in DOMAIN statuses[g].requirements :
                 LET f == Identity(Groups[g].requirements[i]) IN
                 /\ statuses[g].requirements[i] = "ready" => f \in history.held
                 /\ statuses[g].requirements[i] = "missing" => f \in history.gone
            /\ \A i \in DOMAIN statuses[g].policies :
                 LET k == PolicyKey(Groups[g].policies[i]) IN
                 /\ statuses[g].policies[i] = "ready" => k \in history.keys
                 /\ statuses[g].policies[i] = "missing" =>
                      \A n \in PolicyNames : <<n, k>> \notin history.kept
  PROVE  LookupWell'
<1> DEFINE next == Answered(error, statuses)
<1>1. DOMAIN load = DOMAIN NoLoad
  BY DEF LookupWell
<1>2. /\ DOMAIN next = DOMAIN NoLoad /\ next.pc = "answered" /\ next.roles = << >>
      /\ next.keys = << >> /\ next.unread = {}
      /\ next.answer = [error |-> error, statuses |-> statuses]
  BY <1>1, LoadFields DEF Answered
<1>3. DOMAIN next.answer = DOMAIN NoAnswer /\ next.answer.statuses = statuses
  BY <1>2, LoadFields
<1>4. Loading(next)
  OBVIOUS
<1> HIDE DEF next
<1>5. load' = next /\ history' = history /\ Groups' = Groups
  BY <1>4 DEF Loading, Groups
<1>6. RolesWereRead' /\ KeysWereRead'
  BY <1>2, <1>5, Nowhere DEF RolesWereRead, KeysWereRead
<1>7. StatusesWereTrue'
  BY <1>3, <1>5 DEF StatusesWereTrue
<1>8. QED
  BY <1>2, <1>3, <1>4, <1>6, <1>7, LoadingKeepsLookup

LEMMA EmptyAnswerKeeps ==
  ASSUME LookupWell, DefinitionRead \/ DefinitionFails \/ CredentialsMissing
  PROVE  LookupWell'
<1>1. CASE DefinitionFails
  <2>1. Loading(Answered(TRUE, << >>)) /\ load.pc # "none"
    BY <1>1, Zenon DEF DefinitionFails
  <2>2. QED
    BY <2>1, Nowhere, AnsweredKeeps, Zenon
<1>2. CASE DefinitionRead
  <2>1. CASE Readable(start)
    <3>1. Loading([load EXCEPT !.pc = "credentials"]) /\ load.pc = "definition"
      BY <1>2, <2>1 DEF DefinitionRead
    <3>2. LET next == [load EXCEPT !.pc = "credentials"]
          IN  /\ DOMAIN next = DOMAIN NoLoad /\ next.pc = "credentials"
              /\ next.roles = load.roles /\ next.keys = load.keys /\ next.unread = load.unread
              /\ next.answer = load.answer
      BY LoadFields DEF LookupWell
    <3> DEFINE next == [load EXCEPT !.pc = "credentials"]
    <3>3. Loading(next) /\ load' = next
      BY <3>1 DEF Loading
    <3> HIDE DEF next
    <3>4. RolesWereRead' /\ KeysWereRead' /\ StatusesWereTrue'
      BY <3>1, <3>2, <3>3, Nowhere
         DEF LookupWell, RolesWereRead, KeysWereRead, StatusesWereTrue, next
    <3>5. QED
      BY <3>1, <3>2, <3>3, <3>4, LoadingKeepsLookup, Zenon DEF LookupWell, next
  <2>2. CASE ~Readable(start)
    <3>1. Loading(Answered(TRUE, << >>)) /\ load.pc # "none"
      BY <1>2, <2>2, Zenon DEF DefinitionRead
    <3>2. QED
      BY <3>1, Nowhere, AnsweredKeeps, Zenon
  <2>3. QED
    BY <2>1, <2>2
<1>3. CASE CredentialsMissing
  <2> DEFINE statuses == AllStatuses("unavailable")
  <2>1. Loading(Answered(FALSE, statuses)) /\ load.pc # "none"
    BY <1>3, Zenon DEF CredentialsMissing
  <2>2. \A g \in DOMAIN statuses :
          /\ \A i \in DOMAIN statuses[g].requirements :
               statuses[g].requirements[i] = "unavailable"
          /\ \A i \in DOMAIN statuses[g].policies : statuses[g].policies[i] = "unavailable"
    BY DEF AllStatuses
  <2> HIDE DEF statuses
  <2>3. QED
    BY <2>1, <2>2, AnsweredKeeps, Zenon
<1>4. QED
  BY <1>1, <1>2, <1>3

LEMMA LookedUpKeeps == ASSUME LookupWell, LookedUp PROVE LookupWell'
<1> DEFINE statuses ==
      [g \in DOMAIN Groups |->
         [requirements |-> [i \in DOMAIN Groups[g].requirements |->
                              MembershipStatus(Groups[g].requirements[i])],
          policies |-> [i \in DOMAIN Groups[g].policies |->
                          PolicyStatus(Groups[g].policies[i])]]]
<1>1. /\ load.pc = "looking" /\ load.unread = {} /\ Loading(Answered(FALSE, statuses))
      /\ Principals \subseteq DOMAIN load.roles \cup load.noRoles
      /\ Domains \subseteq DOMAIN load.keys \cup load.noPolicies
  BY Zenon DEF LookedUp
<1>2. ASSUME NEW g \in DOMAIN Groups, NEW i \in DOMAIN Groups[g].requirements
      PROVE  LET row == Groups[g].requirements[i]
                 f == Identity(row) IN
             /\ MembershipStatus(row) = "ready" => f \in history.held
             /\ MembershipStatus(row) = "missing" => f \in history.gone
  <2> DEFINE row == Groups[g].requirements[i]
  <2>1. Identity(row) = <<row.member, row.role>>
    BY DEF Identity
  <2>2. Identity(row) \in Memberships(start)
    BY DEF Memberships, Groups
  <2>3. row.member \in Principals
    <3>1. <<row.member, row.role>>[1] = row.member
      OBVIOUS
    <3> HIDE DEF row
    <3>2. QED
      BY <2>1, <2>2, <3>1 DEF Principals
  <2> HIDE DEF row
  <2>4. CASE row.member \in load.noRoles
    <3>1. MembershipStatus(row) = "unavailable"
      BY <2>4 DEF MembershipStatus
    <3>2. QED
      BY <3>1 DEF row
  <2>5. CASE row.member \notin load.noRoles
    <3>1. row.member \in DOMAIN load.roles
      BY <1>1, <2>3, <2>5
    <3>2. /\ row.role \in load.roles[row.member] => Identity(row) \in history.held
          /\ row.role \notin load.roles[row.member] => Identity(row) \in history.gone
      BY <2>1, <2>2, <3>1 DEF LookupWell, RolesWereRead
    <3>3. MembershipStatus(row)
            = IF row.role \in load.roles[row.member] THEN "ready" ELSE "missing"
      BY <2>5 DEF MembershipStatus
    <3>4. QED
      BY <3>2, <3>3 DEF row
  <2>6. QED
    BY <2>4, <2>5
<1>3. ASSUME NEW g \in DOMAIN Groups, NEW i \in DOMAIN Groups[g].policies
      PROVE  LET p == Groups[g].policies[i]
                 k == PolicyKey(p) IN
             /\ PolicyStatus(p) = "ready" => k \in history.keys
             /\ PolicyStatus(p) = "missing" => \A n \in PolicyNames : <<n, k>> \notin history.kept
  <2> DEFINE p == Groups[g].policies[i]
             d == p.role.domain
  <2>1. PolicyKey(p) \in Assertions(start)
    BY DEF Assertions, Groups
  <2>2. DomainOf(PolicyKey(p)) = d
    BY DEF DomainOf, RoleOfKey, PolicyKey
  <2> HIDE DEF p
  <2>3. d \in Domains
    BY <2>1, <2>2 DEF Domains
  <2>4. CASE d \in load.noPolicies
    <3>1. PolicyStatus(p) = "unavailable"
      BY <2>4 DEF PolicyStatus
    <3>2. QED
      BY <3>1 DEF p
  <2>5. CASE d \notin load.noPolicies
    <3>1. d \in DOMAIN load.keys
      BY <1>1, <2>3, <2>5
    <3>2. /\ load.keys[d] \subseteq history.keys
          /\ \A n \in Names(d) : \A k : k \in load.keys[d] \/ <<n, k>> \notin history.kept
      BY <1>1, <2>5, <3>1 DEF LookupWell, KeysWereRead
    <3>3. ASSUME NEW n \in PolicyNames, n \notin Names(d)
          PROVE  <<n, PolicyKey(p)>> \notin history.kept
      <4>1. n[1] # d
        BY <3>3 DEF Names
      <4>2. PolicyKey(p) \notin policies[n]
        BY <2>2, <4>1 DEF LookupWell, Placement
      <4>3. <<n, PolicyKey(p)>> \notin Placed(policies)
        BY <4>2 DEF Placed
      <4>4. QED
        BY <1>1, <4>3 DEF LookupWell, HistoryIs
    <3>4. PolicyStatus(p) = IF PolicyKey(p) \in load.keys[d] THEN "ready" ELSE "missing"
      BY <2>5 DEF PolicyStatus
    <3>5. QED
      BY <3>2, <3>3, <3>4 DEF p
  <2>6. QED
    BY <2>4, <2>5
<1>4. \A g \in DOMAIN statuses :
         /\ g \in DOMAIN Groups
         /\ DOMAIN statuses[g].requirements = DOMAIN Groups[g].requirements
         /\ DOMAIN statuses[g].policies = DOMAIN Groups[g].policies
         /\ \A i \in DOMAIN Groups[g].requirements :
              statuses[g].requirements[i] = MembershipStatus(Groups[g].requirements[i])
         /\ \A i \in DOMAIN Groups[g].policies :
              statuses[g].policies[i] = PolicyStatus(Groups[g].policies[i])
  OBVIOUS
<1> HIDE DEF statuses
<1>5. ASSUME NEW g \in DOMAIN statuses, NEW i \in DOMAIN statuses[g].requirements
      PROVE  LET f == Identity(Groups[g].requirements[i]) IN
             /\ statuses[g].requirements[i] = "ready" => f \in history.held
             /\ statuses[g].requirements[i] = "missing" => f \in history.gone
  BY <1>2, <1>4
<1>6. ASSUME NEW g \in DOMAIN statuses, NEW i \in DOMAIN statuses[g].policies
      PROVE  LET k == PolicyKey(Groups[g].policies[i]) IN
             /\ statuses[g].policies[i] = "ready" => k \in history.keys
             /\ statuses[g].policies[i] = "missing" =>
                  \A n \in PolicyNames : <<n, k>> \notin history.kept
  BY <1>3, <1>4
<1>7. load.pc # "none"
  BY <1>1
<1>8. QED
  BY <1>1, <1>5, <1>6, <1>7, AnsweredKeeps, Zenon

LEMMA PageKeepsLookup ==
  ASSUME LookupWell,
         Delivered \/ Refresh \/ RequestAccess \/ RequestApproved \/ RequestFails
  PROVE  LookupWell'
<1>1. Memberships(start)' = Memberships(start) /\ Assertions(start)' = Assertions(start)
      /\ ManagedMembers' = ManagedMembers
  BY DEF Delivered, Refresh, RequestAccess, RequestApproved, RequestFails, Memberships,
         Assertions, ManagedMembers
<1>2. \A r : r \in Seq([members : SUBSET {f \in Memberships(start) \cup ManagedMembers : IsPair(f)},
                        keys : SUBSET Assertions(start)]) /\ request' = r => Request'
  BY <1>1 DEF Request
<1>3. request' = request => Request'
  BY <1>1 DEF LookupWell, Request
<1>4. request' = << >> => Request'
  BY DEF Request
<1>5. CASE Delivered
  <2>1. load' = NoLoad /\ history' = NoHistory /\ UNCHANGED <<start, members, policies, request>>
    BY <1>5 DEF Delivered
  <2>2. NoLoad.pc = "none" /\ NoLoad.roles = << >> /\ NoLoad.keys = << >> /\ NoLoad.unread = {}
        /\ NoLoad.answer = NoAnswer
    BY DEF NoLoad
  <2>3. HistoryIs' /\ Placement' /\ RolesWereRead' /\ KeysWereRead' /\ StatusesWereTrue'
    BY <2>1, <2>2, Nowhere
       DEF HistoryIs, LookupWell, Placement, RolesWereRead, KeysWereRead, StatusesWereTrue
  <2>4. QED
    BY <1>3, <2>1, <2>2, <2>3 DEF LookupWell
<1>6. CASE Refresh
  <2>1. LoadAgain /\ UNCHANGED <<start, members, policies, request>>
    BY <1>6 DEF Refresh
  <2>2. QED
    BY <1>3, <2>1, LoadAgainWell
<1>7. CASE RequestAccess
  <2>1. UNCHANGED <<start, members, policies, load, history>>
        /\ (request' = Grants \/ request' = << >>)
    BY <1>7 DEF RequestAccess
  <2>2. Request'
    BY <1>2, <1>4, <2>1, GrantsWell, Zenon DEF LookupWell
  <2>3. QED
    BY <2>1, <2>2, OthersKeepLookup
<1>8. CASE RequestApproved
  <2>1. /\ UNCHANGED <<start, members, policies, request>>
        /\ LoadAgain \/ UNCHANGED <<load, history>>
    BY <1>8 DEF RequestApproved
  <2>2. QED
    BY <1>3, <2>1, LoadAgainWell, OthersKeepLookup
<1>9. CASE RequestFails
  <2>1. UNCHANGED <<start, members, policies, load, history>> /\ request' = << >>
    BY <1>9 DEF RequestFails
  <2>2. QED
    BY <1>4, <2>1, OthersKeepLookup
<1>10. QED
  BY <1>5, <1>6, <1>7, <1>8, <1>9

LEMMA LookupKept == ASSUME LookupWell, [PageNext]_pageVars PROVE LookupWell'
<1>1. CASE MembershipChanges \/ PolicyChanges
  BY <1>1, ChangesKeepLookup
<1>2. CASE LoadStep
  BY <1>2, EmptyAnswerKeeps, PassingKeeps, RolesKeep, ListingKeeps, PolicyReadKeeps, LossKeeps,
     LookedUpKeeps DEF LoadStep
<1>3. CASE Delivered \/ Refresh \/ RequestAccess \/ RequestApproved \/ RequestFails
  BY <1>3, PageKeepsLookup
<1>4. CASE Granted
  BY <1>4, GrantKeepsLookup
<1>5. CASE UNCHANGED pageVars
  <2>1. UNCHANGED <<start, members, policies, load, history, request>>
    BY <1>5 DEF pageVars
  <2>2. Request'
    BY <2>1 DEF LookupWell, Request, Memberships, Assertions, ManagedMembers
  <2>3. QED
    BY <2>1, <2>2, OthersKeepLookup
<1>6. QED
  BY <1>1, <1>2, <1>3, <1>4, <1>5 DEF PageNext

\* The statuses of an answer were true in Athenz at some moment of its load,
\* whatever the servers need and however often administrators change it
\* (fetchPrincipalRoles, fetchDomainPolicyAssertions).
THEOREM PageStatusesWereTrue == PageSpec => []StatusesWereTrue
<1>1. LookupWell => StatusesWereTrue
  BY DEF LookupWell
<1>2. QED
  BY <1>1, InitLookup, LookupKept, PTL DEF PageSpec

-----------------------------------------------------------------------------
(* Settings that were parsed                                               *)

\* What a helper is once its settings were accepted: a static service.
HelpersWell(hs) == HelpersFormed(hs) /\ \A h \in ToSet(hs) : h.member # SignedIn
RowsWell(rs) ==
  /\ RequirementsFormed(rs)
  /\ \A q \in ToSet(rs) : q.helpers # None => HelpersWell(q.helpers)
SettingsWell(s) == s # None => \A t \in DOMAIN s.tools : RowsWell(s.tools[t])

LEMMA ParsedHelpersWell ==
  ASSUME NEW hs, HelpersFormed(hs), HelpersValid(hs)
  PROVE  HelpersWell([k \in DOMAIN hs |-> ParsedHelper(hs[k])])
<1> DEFINE ps == [k \in DOMAIN hs |-> ParsedHelper(hs[k])]
           n == Len(hs)
<1>1. n \in Nat /\ DOMAIN hs = 1..n /\ \A k \in 1..n : hs[k] \in ToSet(hs)
  BY SequenceIs DEF HelpersFormed
<1>2. ps = [k \in 1..n |-> ps[k]] /\ \A k \in 1..n : ps[k] = ParsedHelper(hs[k])
  BY <1>1
<1> HIDE DEF ps, n
<1>3. IsSequence(ps) /\ ToSet(ps) = {ps[k] : k \in 1..n}
  BY <1>1, <1>2, Listed1
<1>4. ASSUME NEW k \in 1..n
      PROVE  LET h == ps[k] IN
             /\ h = [member |-> h.member, role |-> h.role, policies |-> h.policies,
                     policy |-> h.policy]
             /\ h.policies # None => IsSequence(h.policies)
             /\ h.member # SignedIn
  <2>1. /\ hs[k] = [member |-> hs[k].member, role |-> hs[k].role, policies |-> hs[k].policies,
                    policy |-> hs[k].policy]
        /\ hs[k].policies # None => IsSequence(hs[k].policies)
    BY <1>1 DEF HelpersFormed
  <2>2. hs[k].member # SignedIn
    BY <1>1 DEF HelpersValid
  <2>3. CASE hs[k].policy = None
    BY <1>2, <2>1, <2>2, <2>3, Zenon DEF ParsedHelper
  <2>4. CASE hs[k].policy # None
    <3>1. ps[k] = Helper(hs[k].member, hs[k].role, <<hs[k].policy>>)
      BY <1>2, <2>4 DEF ParsedHelper
    <3>2. IsSequence(<<hs[k].policy>>)
      BY ShortSequences
    <3>3. QED
      BY <2>2, <3>1, <3>2 DEF Helper
  <2>5. QED
    BY <2>3, <2>4
<1>5. QED
  BY <1>3, <1>4, Zenon DEF HelpersWell, HelpersFormed, ps

\* The requirements of a tool, each with helpers of its own or without.
LEMMA WithHelpersWell ==
  ASSUME NEW rs, RequirementsFormed(rs), NEW ps, DOMAIN ps = DOMAIN rs,
         \A i \in DOMAIN rs :
            \E inc, hs : /\ ps[i] = Requirement(rs[i].member, rs[i].role, inc, hs)
                         /\ hs # None => HelpersWell(hs),
         ps = [i \in DOMAIN ps |-> ps[i]]
  PROVE  RowsWell(ps)
<1> DEFINE n == Len(rs)
<1>1. n \in Nat /\ DOMAIN rs = 1..n /\ \A i \in 1..n : rs[i] \in ToSet(rs)
  BY SequenceIs DEF RequirementsFormed
<1> HIDE DEF n
<1>2. IsSequence(ps) /\ ToSet(ps) = {ps[i] : i \in 1..n}
  BY <1>1, Listed1
<1>3. ASSUME NEW i \in 1..n
      PROVE  LET q == ps[i] IN
             /\ q = Requirement(q.member, q.role, q.include, q.helpers) /\ IsDirectRole(q.role)
             /\ q.helpers # None => HelpersWell(q.helpers)
  <2>1. PICK inc, hs : /\ ps[i] = Requirement(rs[i].member, rs[i].role, inc, hs)
                       /\ hs # None => HelpersWell(hs)
    BY <1>1
  <2>2. IsDirectRole(rs[i].role)
    BY <1>1 DEF RequirementsFormed
  <2>3. QED
    BY <2>1, <2>2 DEF Requirement
<1>4. QED
  BY <1>2, <1>3 DEF RowsWell, RequirementsFormed, HelpersWell

LEMMA ParsedRequirementsWell ==
  ASSUME NEW rs, RequirementsFormed(rs), RequirementsValid(rs)
  PROVE  RowsWell(ParsedRequirements(rs))
<1> DEFINE ps == ParsedRequirements(rs)
<1>1. DOMAIN ps = DOMAIN rs /\ ps = [i \in DOMAIN ps |-> ps[i]]
  BY DEF ParsedRequirements
<1>2. ASSUME NEW i \in DOMAIN rs
      PROVE  \E inc, hs : /\ ps[i] = Requirement(rs[i].member, rs[i].role, inc, hs)
                          /\ hs # None => HelpersWell(hs)
  <2>1. rs[i] = Requirement(rs[i].member, rs[i].role, rs[i].include, rs[i].helpers)
        /\ (rs[i].helpers # None => HelpersFormed(rs[i].helpers))
    BY SequenceIs DEF RequirementsFormed
  <2>2. rs[i].helpers # None => HelpersValid(rs[i].helpers)
    BY DEF RequirementsValid
  <2>3. CASE rs[i].helpers = None
    <3>1. ps[i] = rs[i]
      BY <2>3 DEF ParsedRequirements
    <3>2. QED
      BY <2>1, <2>3, <3>1
  <2>4. CASE rs[i].helpers # None
    <3> DEFINE hs == [k \in DOMAIN rs[i].helpers |-> ParsedHelper(rs[i].helpers[k])]
    <3>1. ps[i] = [rs[i] EXCEPT !.helpers = hs]
      BY <2>4 DEF ParsedRequirements
    <3>2. HelpersWell(hs)
      BY <2>1, <2>2, <2>4, ParsedHelpersWell
    <3> HIDE DEF hs
    <3>3. ps[i] = Requirement(rs[i].member, rs[i].role, rs[i].include, hs)
      BY <2>1, <3>1 DEF Requirement
    <3>4. QED
      BY <3>2, <3>3
  <2>5. QED
    BY <2>3, <2>4
<1> HIDE DEF ps
<1>3. QED
  BY <1>1, <1>2, WithHelpersWell, Zenon DEF ps

LEMMA ParsedToolWell ==
  ASSUME NEW t, RequirementsFormed(t.requirements),
         t.helpers # None => HelpersFormed(t.helpers), ToolValid(t)
  PROVE  RowsWell(ParsedTool(t))
<1> DEFINE rs == ParsedRequirements(t.requirements)
<1>1. RowsWell(rs)
  BY ParsedRequirementsWell DEF ToolValid
<1>2. rs = [i \in DOMAIN rs |-> rs[i]]
  BY DEF ParsedRequirements
<1> HIDE DEF rs
<1>3. ParsedTool(t) =
        IF ~Legacy(t) THEN rs
        ELSE [i \in DOMAIN rs |->
            IF rs[i].member # SignedIn THEN rs[i]
            ELSE [rs[i] EXCEPT !.include = t.include,
                               !.helpers = IF t.helpers = None THEN None
                                           ELSE [k \in DOMAIN t.helpers |->
                                                   ParsedHelper(t.helpers[k])]]]
  BY DEF ParsedTool, rs
<1>4. CASE ~Legacy(t)
  BY <1>1, <1>3, <1>4
<1>5. CASE Legacy(t)
  <2> DEFINE ps == ParsedTool(t)
             hs == IF t.helpers = None THEN None
                   ELSE [k \in DOMAIN t.helpers |-> ParsedHelper(t.helpers[k])]
  <2>1. hs # None => HelpersWell(hs)
    BY ParsedHelpersWell DEF ToolValid
  <2> HIDE DEF hs
  <2>2. ps = [i \in DOMAIN rs |-> IF rs[i].member # SignedIn THEN rs[i]
                                  ELSE [rs[i] EXCEPT !.include = t.include, !.helpers = hs]]
    BY <1>3, <1>5 DEF hs
  <2> HIDE DEF ps
  <2>3. DOMAIN ps = DOMAIN rs /\ ps = [i \in DOMAIN ps |-> ps[i]]
    BY <2>2
  <2>4. ASSUME NEW i \in DOMAIN rs
        PROVE  \E inc, x : /\ ps[i] = Requirement(rs[i].member, rs[i].role, inc, x)
                           /\ x # None => HelpersWell(x)
    <3>1. rs[i] = Requirement(rs[i].member, rs[i].role, rs[i].include, rs[i].helpers)
          /\ (rs[i].helpers # None => HelpersWell(rs[i].helpers))
      BY <1>1, SequenceIs DEF RowsWell, RequirementsFormed
    <3>2. CASE rs[i].member # SignedIn
      <4>1. ps[i] = rs[i]
        BY <2>2, <3>2
      <4>2. QED
        BY <3>1, <4>1
    <3>3. CASE rs[i].member = SignedIn
      <4>1. ps[i] = [rs[i] EXCEPT !.include = t.include, !.helpers = hs]
        BY <2>2, <3>3
      <4>2. ps[i] = Requirement(rs[i].member, rs[i].role, t.include, hs)
        BY <3>1, <4>1, Zenon DEF Requirement
      <4>3. QED
        BY <2>1, <4>2
    <3>4. QED
      BY <3>2, <3>3
  <2>5. RequirementsFormed(rs)
    BY <1>1 DEF RowsWell
  <2>6. RowsWell(ps)
    BY <2>3, <2>4, <2>5, WithHelpersWell, Zenon
  <2>7. QED
    BY <2>6 DEF ps
<1>6. QED
  BY <1>4, <1>5

LEMMA ParsedWell ==
  ASSUME NEW s, s # None, SettingsFormed(s), SettingsValid(s)
  PROVE  SettingsWell(Parsed(s))
<1>1. ASSUME NEW t \in DOMAIN s.tools PROVE RowsWell(ParsedTool(s.tools[t]))
  <2>1. /\ RequirementsFormed(s.tools[t].requirements)
        /\ s.tools[t].helpers # None => HelpersFormed(s.tools[t].helpers)
        /\ ToolValid(s.tools[t])
    BY DEF SettingsFormed, SettingsValid
  <2>2. QED
    BY <2>1, ParsedToolWell
<1>2. DOMAIN Parsed(s).tools = DOMAIN s.tools
      /\ \A t \in DOMAIN s.tools : Parsed(s).tools[t] = ParsedTool(s.tools[t])
  BY DEF Parsed
<1>3. QED
  BY <1>1, <1>2 DEF SettingsWell

LEMMA MergedWell ==
  ASSUME NEW base, NEW over, SettingsWell(base), SettingsWell(over)
  PROVE  SettingsWell(Merged(base, over))
<1>1. CASE base = None \/ over = None
  BY <1>1 DEF Merged
<1>2. CASE base # None /\ over # None
  <2> DEFINE tools == [t \in DOMAIN base.tools \cup DOMAIN over.tools |->
                        IF t \in DOMAIN over.tools THEN over.tools[t] ELSE base.tools[t]]
  <2>1. Merged(base, over).tools = tools
    BY <1>2 DEF Merged
  <2>2. \A t \in DOMAIN tools : RowsWell(tools[t])
    BY <1>2 DEF SettingsWell
  <2>3. QED
    BY <2>1, <2>2 DEF SettingsWell
<1>3. QED
  BY <1>1, <1>2

LEMMA ReadSettingsWell ==
  ASSUME NEW s \in PageStarts, Readable(s)
  PROVE  SettingsWell(SettingsOf(s))
<1>1. SettingsFormed(s.preset) /\ SettingsFormed(s.stored)
  BY ReadinessAssumption
<1>2. SettingsWell(PresetEntry(s.preset))
  <2>1. s.preset # None => SettingsValid(s.preset)
    BY DEF Readable, PresetEntryValid
  <2>2. QED
    BY <1>1, <2>1, ParsedWell DEF PresetEntry, SettingsWell
<1>3. SettingsWell(StoredSettings(s))
  <2>1. s.stored # None => SettingsValid(s.stored)
    BY DEF Readable
  <2>2. QED
    BY <1>1, <2>1, ParsedWell DEF StoredSettings, SettingsWell
<1>4. QED
  BY <1>2, <1>3, MergedWell DEF SettingsOf

-----------------------------------------------------------------------------
(* The rows of a server                                                    *)

\* A row that a tool has configured, and one of a helper.
IsToolRow(x) == x.source = "tool" /\ x.policies = None /\ IsDirectRole(x.role)
IsHelperRow(x) ==
  /\ x.source = "helper" /\ x.configured # SignedIn
  /\ x.policies # None => IsSequence(x.policies)

LEMMA HelperRowsWell ==
  ASSUME NEW hs, HelpersWell(hs), NEW i
  PROVE  LET rows == [k \in DOMAIN hs |-> HelperRow(hs[k], i)] IN
         /\ IsSequence(rows)
         /\ \A x \in ToSet(rows) : IsHelperRow(x) /\ x.member = ResolvedMember(x.configured)
<1> DEFINE rows == [k \in DOMAIN hs |-> HelperRow(hs[k], i)]
           n == Len(hs)
<1>1. n \in Nat /\ DOMAIN hs = 1..n /\ \A k \in 1..n : hs[k] \in ToSet(hs)
  BY SequenceIs DEF HelpersWell, HelpersFormed
<1> HIDE DEF n
<1>2. rows = [k \in 1..n |-> rows[k]] /\ \A k \in 1..n : rows[k] = HelperRow(hs[k], i)
  BY <1>1
<1> HIDE DEF rows
<1>3. IsSequence(rows) /\ ToSet(rows) = {rows[k] : k \in 1..n}
  BY <1>1, <1>2, Listed1
<1>4. ASSUME NEW k \in 1..n
      PROVE  IsHelperRow(rows[k]) /\ rows[k].member = ResolvedMember(rows[k].configured)
  <2>1. /\ hs[k].member # SignedIn
        /\ hs[k].policies # None => IsSequence(hs[k].policies)
    BY <1>1 DEF HelpersWell, HelpersFormed
  <2>2. rows[k] = [Row(hs[k].member, hs[k].role, "helper", i) EXCEPT !.policies = hs[k].policies]
    BY <1>2 DEF HelperRow
  <2>3. /\ rows[k].source = "helper" /\ rows[k].configured = hs[k].member
        /\ rows[k].policies = hs[k].policies /\ rows[k].member = ResolvedMember(hs[k].member)
    BY <2>2 DEF Row
  <2>4. QED
    BY <2>1, <2>3 DEF IsHelperRow
<1>5. QED
  BY <1>3, <1>4 DEF rows

LEMMA GeneratedWell ==
  ASSUME Service # SignedIn, NEW r
  PROVE  HelpersWell(GeneratedHelperRows(r))
<1> DEFINE a == Helper(Gateway, HelperRole(r, "jag"), None)
           b == Helper(Service, HelperRole(r, "target"), None)
<1>1. a.member # SignedIn /\ b.member # SignedIn /\ a.policies = None /\ b.policies = None
  BY DEF Helper, Gateway, SignedIn
<1>2. /\ a = [member |-> a.member, role |-> a.role, policies |-> a.policies, policy |-> a.policy]
      /\ b = [member |-> b.member, role |-> b.role, policies |-> b.policies, policy |-> b.policy]
  BY DEF Helper
<1> HIDE DEF a, b
<1>3. IsSequence(<<a, b>>) /\ ToSet(<<a, b>>) = {a, b}
  BY ShortSequences
<1>4. GeneratedHelperRows(r) = <<a, b>>
  BY DEF GeneratedHelperRows, a, b
<1>5. QED
  BY <1>1, <1>2, <1>3, <1>4 DEF HelpersWell, HelpersFormed

LEMMA DirectRowIs ==
  ASSUME NEW q, NEW i, IsDirectRole(q.role)
  PROVE  LET x == DirectRow(q, i) IN
         /\ IsToolRow(x) /\ x.configured = q.member /\ x.role = q.role /\ x.index = i
         /\ x.member = ResolvedMember(q.member)
BY DEF DirectRow, Row, IsToolRow

\* The rows of one requirement: its own, and those of its helpers.
LEMMA RowsOfWell ==
  ASSUME Service # SignedIn, NEW q, IsDirectRole(q.role),
         q.helpers # None => HelpersWell(q.helpers), NEW i
  PROVE  /\ IsSequence(RowsOf(q, i))
         /\ DirectRow(q, i) \in ToSet(RowsOf(q, i))
         /\ \A x \in ToSet(RowsOf(q, i)) :
              /\ x.member = ResolvedMember(x.configured)
              /\ x = DirectRow(q, i) \/ IsHelperRow(x)
<1> DEFINE d == DirectRow(q, i)
           hs == IF q.helpers = None THEN GeneratedHelperRows(q.role) ELSE q.helpers
           hrows == [k \in DOMAIN hs |-> HelperRow(hs[k], i)]
<1>1. RowsOf(q, i) = IF q.include # TRUE THEN <<d>> ELSE <<d>> \o hrows
  BY DEF RowsOf
<1>2. d.member = ResolvedMember(d.configured)
  BY DirectRowIs
<1>3. HelpersWell(hs)
  BY GeneratedWell
<1> HIDE DEF d, hs
<1>4. IsSequence(hrows)
      /\ \A x \in ToSet(hrows) : IsHelperRow(x) /\ x.member = ResolvedMember(x.configured)
  BY <1>3, HelperRowsWell
<1> HIDE DEF hrows
<1>5. IsSequence(<<d>>) /\ ToSet(<<d>>) = {d}
  BY ShortSequences
<1>6. IsSequence(<<d>> \o hrows) /\ ToSet(<<d>> \o hrows) = {d} \cup ToSet(hrows)
  BY <1>4, <1>5, Appended
<1>7. QED
  BY <1>1, <1>2, <1>4, <1>5, <1>6, Zenon DEF d

\* The group of a tool: its own rows are those of its requirements, and its
\* policies are those of its helpers.
LEMMA GroupRows ==
  ASSUME Service # SignedIn, NEW rs, RowsWell(rs)
  PROVE  LET rows == Group(rs).requirements IN
         /\ IsSequence(rows)
         /\ \A x \in ToSet(rows) :
              /\ x.member = ResolvedMember(x.configured)
              /\ IsToolRow(x) \/ IsHelperRow(x)
              /\ x.source = "tool" =>
                   \E q \in ToSet(rs) : q.member = x.configured /\ q.role = x.role
         /\ \A q \in ToSet(rs) : \E x \in ToSet(rows) :
              x.source = "tool" /\ q.member = x.configured /\ q.role = x.role
<1> DEFINE n == Len(rs)
           parts == [i \in DOMAIN rs |-> RowsOf(rs[i], i)]
           rows == FlattenSeq(parts)
<1>1. n \in Nat /\ DOMAIN rs = 1..n /\ ToSet(rs) = {rs[i] : i \in 1..n}
      /\ \A i \in 1..n : rs[i] \in ToSet(rs)
  BY SequenceIs DEF RowsWell, RequirementsFormed
<1> HIDE DEF n
<1>2. parts = [i \in 1..n |-> parts[i]] /\ \A i \in 1..n : parts[i] = RowsOf(rs[i], i)
  BY <1>1
<1> HIDE DEF parts
<1>3. ASSUME NEW i \in 1..n
      PROVE  /\ IsDirectRole(rs[i].role)
             /\ IsSequence(parts[i]) /\ DirectRow(rs[i], i) \in ToSet(parts[i])
             /\ \A x \in ToSet(parts[i]) :
                  /\ x.member = ResolvedMember(x.configured)
                  /\ x = DirectRow(rs[i], i) \/ IsHelperRow(x)
  <2>1. IsDirectRole(rs[i].role) /\ (rs[i].helpers # None => HelpersWell(rs[i].helpers))
    BY <1>1, Zenon DEF RowsWell, RequirementsFormed
  <2>2. QED
    BY <1>2, <2>1, RowsOfWell
<1>4. IsSequence(rows) /\ ToSet(rows) = UNION {ToSet(parts[i]) : i \in 1..n}
  BY <1>1, <1>2, <1>3, Concatenated, Zenon
<1>5. Group(rs).requirements = rows
  BY DEF Group, parts
<1> HIDE DEF rows
<1>6. ASSUME NEW x \in ToSet(rows)
      PROVE  /\ x.member = ResolvedMember(x.configured)
             /\ IsToolRow(x) \/ IsHelperRow(x)
             /\ x.source = "tool" =>
                  \E q \in ToSet(rs) : q.member = x.configured /\ q.role = x.role
  <2>1. PICK i \in 1..n : x \in ToSet(parts[i])
    BY <1>4
  <2>2. CASE x = DirectRow(rs[i], i)
    <3>1. IsToolRow(x) /\ x.configured = rs[i].member /\ x.role = rs[i].role
      BY <1>3, <2>2, DirectRowIs
    <3>2. QED
      BY <1>1, <1>3, <2>1, <3>1, Zenon
  <2>3. CASE IsHelperRow(x)
    BY <1>3, <2>1, <2>3 DEF IsHelperRow
  <2>4. QED
    BY <1>3, <2>1, <2>2, <2>3
<1>7. ASSUME NEW q \in ToSet(rs)
      PROVE  \E x \in ToSet(rows) :
               x.source = "tool" /\ q.member = x.configured /\ q.role = x.role
  <2>1. PICK i \in 1..n : q = rs[i]
    BY <1>1
  <2>2. DirectRow(q, i) \in ToSet(rows)
    BY <1>3, <1>4, <2>1
  <2>3. LET x == DirectRow(q, i) IN x.source = "tool" /\ q.member = x.configured /\ q.role = x.role
    BY <1>3, <2>1, DirectRowIs DEF IsToolRow
  <2>4. QED
    BY <2>2, <2>3
<1>8. QED
  BY <1>4, <1>5, <1>6, <1>7

LEMMA PolicyRowIs ==
  ASSUME NEW p, NEW r, NEW src, NEW i
  PROVE  LET x == PolicyRow(p, r, src, i) IN
         x.source = src /\ x.role = r /\ x.index = i /\ x.action = p.action
BY DEF PolicyRow

LEMMA GroupPolicies ==
  ASSUME Service # SignedIn, NEW rs, RowsWell(rs)
  PROVE  LET g == Group(rs) IN
         /\ IsSequence(g.policies)
         /\ \A p \in ToSet(g.policies) :
              /\ p.source = "helper"
              /\ \E x \in ToSet(g.requirements) : x.source = "helper" /\ x.role = p.role
<1> DEFINE rows == Group(rs).requirements
           n == Len(rows)
           parts == [k \in DOMAIN rows |-> ConfiguredPolicyRows(rows[k])]
           policies1 == Group(rs).policies
<1>1. IsSequence(rows) /\ \A x \in ToSet(rows) : IsToolRow(x) \/ IsHelperRow(x)
  BY GroupRows
<1>2. policies1 = FlattenSeq(parts)
  BY DEF Group
<1> HIDE DEF rows, policies1
<1>3. n \in Nat /\ DOMAIN rows = 1..n /\ \A k \in 1..n : rows[k] \in ToSet(rows)
  BY <1>1, SequenceIs
<1> HIDE DEF n
<1>4. parts = [k \in 1..n |-> parts[k]]
      /\ \A k \in 1..n : parts[k] = ConfiguredPolicyRows(rows[k])
  BY <1>3
<1> HIDE DEF parts
<1>5. ASSUME NEW k \in 1..n
      PROVE  /\ IsSequence(parts[k])
             /\ \A p \in ToSet(parts[k]) : p.source = "helper" /\ rows[k].source = "helper"
                                           /\ rows[k].role = p.role
  <2> DEFINE row == rows[k]
  <2>1. parts[k] = IF row.source # "helper" \/ row.policies = None THEN << >>
                   ELSE [j \in DOMAIN row.policies |->
                           PolicyRow(row.policies[j], row.role, "helper", row.index)]
    BY <1>4 DEF ConfiguredPolicyRows
  <2> HIDE DEF row
  <2>2. CASE row.source # "helper" \/ row.policies = None
    <3>1. parts[k] = << >>
      BY <2>1, <2>2
    <3>2. QED
      BY <3>1, ShortSequences
  <2>3. CASE row.source = "helper" /\ row.policies # None
    <3> DEFINE m == Len(row.policies)
    <3>1. IsSequence(row.policies)
      BY <1>1, <1>3, <2>3 DEF IsToolRow, IsHelperRow, row
    <3>2. m \in Nat /\ DOMAIN row.policies = 1..m
      BY <3>1, SequenceIs
    <3> HIDE DEF m
    <3>3. parts[k] = [j \in 1..m |-> PolicyRow(row.policies[j], row.role, "helper", row.index)]
      BY <2>1, <2>3, <3>2
    <3>4. parts[k] = [j \in 1..m |-> parts[k][j]]
          /\ \A j \in 1..m : parts[k][j] = PolicyRow(row.policies[j], row.role, "helper", row.index)
      BY <3>3
    <3>5. IsSequence(parts[k]) /\ ToSet(parts[k]) = {parts[k][j] : j \in 1..m}
      BY <3>2, <3>4, Listed1
    <3>6. \A j \in 1..m : parts[k][j].source = "helper" /\ parts[k][j].role = row.role
      <4>1. ASSUME NEW j \in 1..m
            PROVE  parts[k][j].source = "helper" /\ parts[k][j].role = row.role
        <5>1. parts[k][j] = PolicyRow(row.policies[j], row.role, "helper", row.index)
          BY <3>4
        <5>2. QED
          BY <5>1, PolicyRowIs
      <4>2. QED
        BY <4>1
    <3>7. QED
      BY <2>3, <3>5, <3>6 DEF row
  <2>4. QED
    BY <2>2, <2>3
<1>6. IsSequence(policies1) /\ ToSet(policies1) = UNION {ToSet(parts[k]) : k \in 1..n}
  BY <1>2, <1>3, <1>4, <1>5, Concatenated
<1>7. \A p \in ToSet(policies1) :
        p.source = "helper" /\ \E x \in ToSet(rows) : x.source = "helper" /\ x.role = p.role
  BY <1>3, <1>5, <1>6
<1>8. QED
  BY <1>6, <1>7 DEF rows, policies1

\* The rows for the server's own access by one of its roles.
ManagedOf(r) ==
  {Row(SignedIn, r, "managed", None), Row(Gateway, HelperRole(r, "jag"), "managed", None)}
  \cup IF Service = None THEN {} ELSE {Row(Service, HelperRole(r, "source"), "managed", None)}

LEMMA ManagedRowsAre ==
  ASSUME NEW scope, IsSequence(scope)
  PROVE  /\ IsSequence(ManagedRows(scope))
         /\ ToSet(ManagedRows(scope)) = UNION {ManagedOf(r) : r \in ToSet(scope)}
<1> DEFINE n == Len(scope)
           a(k) == Row(SignedIn, scope[k], "managed", None)
           b(k) == Row(Gateway, HelperRole(scope[k], "jag"), "managed", None)
           c(k) == Row(Service, HelperRole(scope[k], "source"), "managed", None)
           parts == [k \in DOMAIN scope |->
                       <<a(k), b(k)>> \o IF Service = None THEN << >> ELSE <<c(k)>>]
<1>1. n \in Nat /\ DOMAIN scope = 1..n /\ ToSet(scope) = {scope[k] : k \in 1..n}
  BY SequenceIs
<1> HIDE DEF n
<1>2. ManagedRows(scope) = FlattenSeq(parts)
  BY DEF ManagedRows
<1>3. \A k : ManagedOf(scope[k]) = {a(k), b(k)} \cup IF Service = None THEN {} ELSE {c(k)}
  BY DEF ManagedOf
<1> HIDE DEF a, b, c
<1>4. parts = [k \in 1..n |-> parts[k]]
      /\ \A k \in 1..n : parts[k] = <<a(k), b(k)>> \o IF Service = None THEN << >> ELSE <<c(k)>>
  BY <1>1
<1> HIDE DEF parts
<1>5. ASSUME NEW k \in 1..n
      PROVE  IsSequence(parts[k]) /\ ToSet(parts[k]) = ManagedOf(scope[k])
  <2> DEFINE rest == IF Service = None THEN << >> ELSE <<c(k)>>
  <2>1. IsSequence(rest) /\ ToSet(rest) = IF Service = None THEN {} ELSE {c(k)}
    BY ShortSequences, Zenon
  <2>2. IsSequence(<<a(k), b(k)>>) /\ ToSet(<<a(k), b(k)>>) = {a(k), b(k)}
    BY ShortSequences
  <2>3. parts[k] = <<a(k), b(k)>> \o rest
    BY <1>4
  <2> HIDE DEF rest
  <2>4. IsSequence(<<a(k), b(k)>> \o rest)
        /\ ToSet(<<a(k), b(k)>> \o rest) = ToSet(<<a(k), b(k)>>) \cup ToSet(rest)
    BY <2>1, <2>2, Appended
  <2>5. QED
    BY <1>3, <2>1, <2>2, <2>3, <2>4, Zenon
<1>6. IsSequence(FlattenSeq(parts))
      /\ ToSet(FlattenSeq(parts)) = UNION {ToSet(parts[k]) : k \in 1..n}
  BY <1>1, <1>4, <1>5, Concatenated
<1>7. UNION {ToSet(parts[k]) : k \in 1..n} = UNION {ManagedOf(r) : r \in ToSet(scope)}
  BY <1>1, <1>5
<1>8. QED
  BY <1>2, <1>6, <1>7

LEMMA RowIs ==
  ASSUME NEW m, NEW r, NEW src, NEW i
  PROVE  LET x == Row(m, r, src, i) IN
         /\ x.configured = m /\ x.member = ResolvedMember(m) /\ x.role = r
         /\ x.source = src /\ x.index = i /\ x.policies = None
BY DEF Row

\* A row is managed, or else it is one that a tool has.
LEMMA ManagedRowIs ==
  ASSUME NEW scope, IsSequence(scope), NEW x \in ToSet(ManagedRows(scope))
  PROVE  /\ x.source = "managed" /\ x.member = ResolvedMember(x.configured)
         /\ \E r \in ToSet(scope) :
              \/ x.configured = SignedIn /\ x.role = r
              \/ x.configured = Gateway /\ x.role = HelperRole(r, "jag")
              \/ x.configured = Service /\ x.role = HelperRole(r, "source") /\ Service # None
<1>1. PICK r \in ToSet(scope) : x \in ManagedOf(r)
  BY ManagedRowsAre
<1>2. CASE x = Row(SignedIn, r, "managed", None)
  BY <1>2, RowIs
<1>3. CASE x = Row(Gateway, HelperRole(r, "jag"), "managed", None)
  BY <1>3, RowIs
<1>4. CASE x = Row(Service, HelperRole(r, "source"), "managed", None) /\ Service # None
  BY <1>4, RowIs
<1>5. QED
  BY <1>1, <1>2, <1>3, <1>4 DEF ManagedOf

LEMMA MergedRowsAre ==
  ASSUME NEW rows, NEW added, IsSequence(rows), IsSequence(added)
  PROVE  /\ IsSequence(MergedRows(rows, added))
         /\ ToSet(MergedRows(rows, added)) =
              ToSet(rows) \cup {x \in ToSet(added) :
                                  \A y \in ToSet(rows) : Identity(y) # Identity(x)}
<1> DEFINE kept == {k \in DOMAIN added : \A i \in DOMAIN rows : Identity(rows[i]) # Identity(added[k])}
<1>1. IsSequence(Selected(added, kept))
      /\ ToSet(Selected(added, kept)) = {added[i] : i \in kept \cap DOMAIN added}
  BY SelectedElements
<1>2. {added[i] : i \in kept \cap DOMAIN added}
        = {x \in ToSet(added) : \A y \in ToSet(rows) : Identity(y) # Identity(x)}
  BY DEF ToSet
<1>3. MergedRows(rows, added) = rows \o Selected(added, kept)
  BY DEF MergedRows
<1> HIDE DEF kept
<1>4. QED
  BY <1>1, <1>2, <1>3, Appended

\* The rows of a group: those of a set of requirements, and those for the
\* server's own access which they leave.
GroupHas(rows, qs, scope) ==
  /\ IsSequence(rows)
  /\ \A x \in ToSet(rows) :
       /\ x.member = ResolvedMember(x.configured)
       /\ x \in ToSet(ManagedRows(scope)) \/ IsToolRow(x) \/ IsHelperRow(x)
       /\ x.source = "tool" => \E q \in qs : q.member = x.configured /\ q.role = x.role
  /\ \A q \in qs : \E x \in ToSet(rows) :
       x.source = "tool" /\ q.member = x.configured /\ q.role = x.role
  /\ \A y \in ToSet(ManagedRows(scope)) : \E x \in ToSet(rows) :
       Identity(x) = Identity(y) /\ (x = y \/ Custom(x))
PoliciesOf(g) ==
  /\ IsSequence(g.policies)
  /\ \A p \in ToSet(g.policies) :
       p.source = "helper" /\ \E x \in ToSet(g.requirements) : x.source = "helper" /\ x.role = p.role
IsGroup(g) == g = [requirements |-> g.requirements, policies |-> g.policies]

RequirementsOf(settings, g) ==
  IF settings = None THEN {}
  ELSE IF g \in DOMAIN settings.tools THEN ToSet(settings.tools[g]) ELSE {}
ToolGroups(settings) ==
  IF settings = None THEN << >> ELSE [t \in DOMAIN settings.tools |-> Group(settings.tools[t])]

LEMMA WithManagedAccessHas ==
  ASSUME Service # SignedIn, NEW settings, SettingsWell(settings), NEW default,
         NEW scope, IsSequence(scope), scope # << >>,
         NEW g \in DOMAIN WithManagedAccess(ToolGroups(settings), default, scope)
  PROVE  LET group == WithManagedAccess(ToolGroups(settings), default, scope)[g] IN
         /\ IsGroup(group) /\ PoliciesOf(group)
         /\ GroupHas(group.requirements, RequirementsOf(settings, g), scope)
         /\ g \in DOMAIN ToolGroups(settings) \/ g = SharedGroup
<1> DEFINE groups == ToolGroups(settings)
           all == WithManagedAccess(groups, default, scope)
           group == all[g]
           managed == ManagedRows(scope)
           shared == DOMAIN groups = {} \/ default = "none"
<1>1. IsSequence(managed)
      /\ \A x \in ToSet(managed) : x.source = "managed" /\ x.member = ResolvedMember(x.configured)
  BY ManagedRowsAre, ManagedRowIs
<1>2. all = [x \in DOMAIN groups \cup (IF shared THEN {SharedGroup} ELSE {}) |->
             IF x \in DOMAIN groups
             THEN [groups[x] EXCEPT !.requirements = MergedRows(@, managed)]
             ELSE [requirements |-> managed, policies |-> << >>]]
  BY DEF WithManagedAccess
<1> HIDE DEF all, managed
<1>3. g \in DOMAIN groups \cup (IF shared THEN {SharedGroup} ELSE {})
      /\ group = IF g \in DOMAIN groups
                 THEN [groups[g] EXCEPT !.requirements = MergedRows(@, managed)]
                 ELSE [requirements |-> managed, policies |-> << >>]
  BY <1>2 DEF all
<1> HIDE DEF group
<1>4. CASE g \in DOMAIN groups
  <2>1. settings # None /\ g \in DOMAIN settings.tools /\ groups[g] = Group(settings.tools[g])
    <3>1. settings # None
      BY <1>4, Nowhere DEF ToolGroups
    <3>2. QED
      BY <1>4, <3>1 DEF ToolGroups
  <2> DEFINE rs == settings.tools[g]
             rows == Group(rs).requirements
             ps == Group(rs).policies
  <2>2. RowsWell(rs) /\ RequirementsOf(settings, g) = ToSet(rs)
    BY <2>1 DEF SettingsWell, RequirementsOf
  <2>3. Group(rs) = [requirements |-> rows, policies |-> ps]
    BY DEF Group
  <2> HIDE DEF rs
  <2>4. /\ IsSequence(rows)
        /\ \A x \in ToSet(rows) :
              /\ x.member = ResolvedMember(x.configured)
              /\ IsToolRow(x) \/ IsHelperRow(x)
              /\ x.source = "tool" =>
                   \E q \in ToSet(rs) : q.member = x.configured /\ q.role = x.role
        /\ \A q \in ToSet(rs) : \E x \in ToSet(rows) :
              x.source = "tool" /\ q.member = x.configured /\ q.role = x.role
    BY <2>2, GroupRows
  <2>5. /\ IsSequence(ps)
        /\ \A p \in ToSet(ps) :
              /\ p.source = "helper"
              /\ \E x \in ToSet(rows) : x.source = "helper" /\ x.role = p.role
    BY <2>2, GroupPolicies
  <2> HIDE DEF rows, ps
  <2>6. group = [requirements |-> MergedRows(rows, managed), policies |-> ps]
    <3>1. group = [groups[g] EXCEPT !.requirements = MergedRows(@, managed)]
      BY <1>3, <1>4
    <3>2. groups[g] = [requirements |-> rows, policies |-> ps]
      BY <2>1, <2>3 DEF rs
    <3> HIDE DEF groups
    <3>3. QED
      BY <3>1, <3>2
  <2> DEFINE merged == MergedRows(rows, managed)
  <2>7. /\ IsSequence(merged)
        /\ ToSet(merged) = ToSet(rows) \cup {x \in ToSet(managed) :
                                               \A y \in ToSet(rows) : Identity(y) # Identity(x)}
    BY <1>1, <2>4, MergedRowsAre
  <2> HIDE DEF merged
  <2>8. GroupHas(merged, ToSet(rs), scope)
    <3>1. \A y \in ToSet(managed) : \E x \in ToSet(merged) :
            Identity(x) = Identity(y) /\ (x = y \/ Custom(x))
      BY <2>4, <2>7 DEF IsToolRow, IsHelperRow, Custom
    <3>2. \A x \in ToSet(merged) :
            /\ x.member = ResolvedMember(x.configured)
            /\ x \in ToSet(managed) \/ IsToolRow(x) \/ IsHelperRow(x)
            /\ x.source = "tool" => \E q \in ToSet(rs) : q.member = x.configured /\ q.role = x.role
      BY <1>1, <2>4, <2>7
    <3>3. QED
      BY <2>4, <2>7, <3>1, <3>2 DEF GroupHas, managed
  <2>9. IsGroup(group) /\ PoliciesOf(group)
    BY <2>5, <2>6, <2>7 DEF IsGroup, PoliciesOf, merged
  <2>10. QED
    BY <1>4, <2>2, <2>6, <2>8, <2>9 DEF merged, group, all
<1>5. CASE g \notin DOMAIN groups
  <2>1. group = [requirements |-> managed, policies |-> << >>] /\ g = SharedGroup
    BY <1>3, <1>5
  <2>2. RequirementsOf(settings, g) = {}
    BY <1>5 DEF RequirementsOf, ToolGroups
  <2>3. GroupHas(managed, {}, scope)
    BY <1>1 DEF GroupHas, managed
  <2>4. IsGroup(group) /\ PoliciesOf(group)
    BY <2>1, ShortSequences DEF IsGroup, PoliciesOf
  <2>5. QED
    BY <2>1, <2>2, <2>3, <2>4 DEF group, all
<1>6. QED
  BY <1>4, <1>5

-----------------------------------------------------------------------------
(* The policies of a server                                                *)

LEMMA ExchangeRulesAre ==
  ASSUME NEW target, NEW audience, NEW sourceRole
  PROVE  LET rules == ExchangeRules(target, audience, sourceRole) IN
         /\ IsSequence(rules)
         /\ 1 \in DOMAIN rules /\ rules[1].role = HelperRole(target, "jag")
         /\ \A x \in ToSet(rules) :
              \/ x.role = HelperRole(target, "jag") /\ x.rule.action # "zts.token_source_exchange"
              \/ x.role = HelperRole(target, "target") /\ x.rule.action # "zts.token_source_exchange"
              \/ x.role = sourceRole /\ sourceRole # None
                 /\ x.rule.action = "zts.token_source_exchange"
<1> DEFINE a == [role |-> HelperRole(target, "jag"),
                 rule |-> Policy("ALLOW", "zts.jag_exchange", <<target.domain, target.name>>)]
           b == [role |-> sourceRole,
                 rule |-> Policy("ALLOW", "zts.token_source_exchange", <<audience, target.domain>>)]
           c == [role |-> HelperRole(target, "target"),
                 rule |-> Policy("ALLOW", "zts.token_target_exchange",
                                 <<target.domain, audience, target.name>>)]
           middle == IF sourceRole = None THEN << >> ELSE <<b>>
           rules == <<a>> \o middle \o <<c>>
<1>1. ExchangeRules(target, audience, sourceRole) = rules
  BY DEF ExchangeRules
<1>2. /\ a.role = HelperRole(target, "jag") /\ a.rule.action # "zts.token_source_exchange"
      /\ b.role = sourceRole /\ b.rule.action = "zts.token_source_exchange"
      /\ c.role = HelperRole(target, "target") /\ c.rule.action # "zts.token_source_exchange"
  BY DEF Policy
<1> HIDE DEF a, b, c
<1>3. IsSequence(middle) /\ ToSet(middle) = IF sourceRole = None THEN {} ELSE {b}
  BY ShortSequences, Zenon
<1>4. IsSequence(<<a>>) /\ ToSet(<<a>>) = {a} /\ IsSequence(<<c>>) /\ ToSet(<<c>>) = {c}
  BY ShortSequences
<1> HIDE DEF middle
<1>5. IsSequence(<<a>> \o middle) /\ ToSet(<<a>> \o middle) = {a} \cup ToSet(middle)
  BY <1>3, <1>4, Appended
<1>6. IsSequence(rules) /\ ToSet(rules) = {a} \cup ToSet(middle) \cup {c}
  BY <1>4, <1>5, Appended
<1>7. 1 \in DOMAIN rules /\ rules[1] = a
  <2> DEFINE U == {a} \cup ToSet(middle) \cup {c}
  <2>1. middle \in Seq(U) /\ <<a>> \in Seq(U) /\ <<c>> \in Seq(U)
    BY <1>3 DEF IsSequence
  <2> HIDE DEF U
  <2>2. <<a>> \o middle \in Seq(U) /\ Len(<<a>> \o middle) = 1 + Len(middle)
        /\ (<<a>> \o middle)[1] = a
    BY <2>1
  <2>3. QED
    BY <2>1, <2>2
<1> HIDE DEF rules
<1>8. QED
  BY <1>1, <1>2, <1>3, <1>6, <1>7

\* What a row makes the server expect.
IsExpectedOf(p, row, sourceRole) ==
  /\ row.configured = SignedIn
  /\ \/ /\ row.source = "tool" /\ p.source = "helper"
        /\ p.role \in {HelperRole(row.role, "jag"), HelperRole(row.role, "target")}
     \/ row.source = "tool" /\ p.source = "managed" /\ p.role = sourceRole /\ sourceRole # None
     \/ row.source # "tool" /\ p.source = "managed" /\ p.role = HelperRole(row.role, "jag")

LEMMA ExpectedOfRow ==
  ASSUME NEW row, NEW audience, NEW sourceRole
  PROVE  /\ IsSequence(ExpectedOf(row, audience, sourceRole))
         /\ \A p \in ToSet(ExpectedOf(row, audience, sourceRole)) : IsExpectedOf(p, row, sourceRole)
<1> DEFINE rules == ExchangeRules(row.role, audience, IF row.source = "tool" THEN sourceRole ELSE None)
           sourceOf(k) == IF row.source = "tool" /\ rules[k].rule.action # "zts.token_source_exchange"
                          THEN "helper" ELSE "managed"
           rowFor(k) == PolicyRow(rules[k].rule, rules[k].role, sourceOf(k), row.index)
           expected == ExpectedOf(row, audience, sourceRole)
           n == Len(rules)
<1>1. expected = IF row.configured # SignedIn THEN << >>
                 ELSE IF row.source = "tool" THEN [k \in DOMAIN rules |-> rowFor(k)]
                 ELSE << rowFor(1) >>
  BY DEF ExpectedOf
<1>2. /\ IsSequence(rules)
      /\ 1 \in DOMAIN rules /\ rules[1].role = HelperRole(row.role, "jag")
      /\ \A x \in ToSet(rules) :
              \/ x.role = HelperRole(row.role, "jag") /\ x.rule.action # "zts.token_source_exchange"
              \/ x.role = HelperRole(row.role, "target") /\ x.rule.action # "zts.token_source_exchange"
              \/ x.role = (IF row.source = "tool" THEN sourceRole ELSE None)
                 /\ (IF row.source = "tool" THEN sourceRole ELSE None) # None
                 /\ x.rule.action = "zts.token_source_exchange"
  BY ExchangeRulesAre
<1> HIDE DEF rules
<1>3. n \in Nat /\ DOMAIN rules = 1..n /\ \A k \in 1..n : rules[k] \in ToSet(rules)
  BY <1>2, SequenceIs
<1>4. \A k : rowFor(k).source = sourceOf(k) /\ rowFor(k).role = rules[k].role
  BY PolicyRowIs
<1> HIDE DEF expected, rowFor, n
<1>5. CASE row.configured # SignedIn
  <2>1. expected = << >>
    BY <1>1, <1>5
  <2>2. QED
    BY <2>1, ShortSequences DEF expected
<1>6. CASE row.configured = SignedIn /\ row.source = "tool"
  <2>1. expected = [k \in 1..n |-> rowFor(k)]
    BY <1>1, <1>3, <1>6
  <2>2. expected = [k \in 1..n |-> expected[k]] /\ \A k \in 1..n : expected[k] = rowFor(k)
    BY <2>1
  <2>3. IsSequence(expected) /\ ToSet(expected) = {expected[k] : k \in 1..n}
    BY <1>3, <2>2, Listed1
  <2>4. ASSUME NEW k \in 1..n PROVE IsExpectedOf(rowFor(k), row, sourceRole)
    BY <1>2, <1>3, <1>4, <1>6 DEF IsExpectedOf
  <2>5. QED
    BY <2>2, <2>3, <2>4 DEF expected
<1>7. CASE row.configured = SignedIn /\ row.source # "tool"
  <2>1. expected = << rowFor(1) >>
    BY <1>1, <1>7
  <2>2. IsSequence(expected) /\ ToSet(expected) = {rowFor(1)}
    BY <2>1, ShortSequences
  <2>3. IsExpectedOf(rowFor(1), row, sourceRole)
    BY <1>2, <1>4, <1>7 DEF IsExpectedOf
  <2>4. QED
    BY <2>2, <2>3 DEF expected
<1>8. QED
  BY <1>5, <1>6, <1>7

LEMMA SourceRoleIs ==
  ASSUME NEW g, IsSequence(g.requirements), SourceRoleOf(g) # None
  PROVE  \E x \in ToSet(g.requirements) : x.source = "managed" /\ x.role = SourceRoleOf(g)
<1> DEFINE rows == g.requirements
           sources == {i \in DOMAIN rows : rows[i].source = "managed" /\ rows[i].role.use = "source"}
           first == CHOOSE i \in sources : \A j \in sources : i <= j
<1>1. sources # {} /\ SourceRoleOf(g) = rows[first].role
  BY DEF SourceRoleOf
<1>2. sources \subseteq Nat
  <2>1. Len(rows) \in Nat /\ DOMAIN rows = 1..Len(rows)
    BY SequenceIs
  <2>2. QED
    BY <2>1
<1>3. first \in sources
  <2>1. \E i \in sources : \A j \in sources : i <= j
    <3> HIDE DEF sources
    <3>1. QED
      BY <1>1, <1>2, Least
  <2> HIDE DEF sources
  <2>2. QED
    BY <2>1
<1>4. rows[first] \in ToSet(rows) /\ rows[first].source = "managed"
  BY <1>3, Zenon DEF ToSet
<1> HIDE DEF first
<1>5. QED
  BY <1>1, <1>4

\* The policies that are added have a row of their role.
LEMMA WithExpected ==
  ASSUME NEW g, IsGroup(g), IsSequence(g.requirements), IsSequence(g.policies), NEW audience
  PROVE  LET w == WithExpectedPolicies(g, audience) IN
         /\ IsGroup(w) /\ w.requirements = g.requirements /\ IsSequence(w.policies)
         /\ \A p \in ToSet(w.policies) :
              \/ p \in ToSet(g.policies)
              \/ /\ \E x \in ToSet(g.requirements) : IsExpectedOf(p, x, SourceRoleOf(g))
                 /\ \E x \in ToSet(g.requirements) : x.role = p.role
<1> DEFINE rows == g.requirements
           n == Len(rows)
           parts == [i \in DOMAIN rows |-> ExpectedOf(rows[i], audience, SourceRoleOf(g))]
           expected == FlattenSeq(parts)
           w == WithExpectedPolicies(g, audience)
<1>1. CASE audience = None
  BY <1>1 DEF WithExpectedPolicies
<1>2. CASE audience # None
  <2>1. n \in Nat /\ DOMAIN rows = 1..n /\ \A i \in 1..n : rows[i] \in ToSet(rows)
    BY SequenceIs
  <2> HIDE DEF n
  <2>2. parts = [i \in 1..n |-> parts[i]]
        /\ \A i \in 1..n : parts[i] = ExpectedOf(rows[i], audience, SourceRoleOf(g))
    BY <2>1
  <2> HIDE DEF parts
  <2>3. \A i \in 1..n : /\ IsSequence(parts[i])
                        /\ \A p \in ToSet(parts[i]) : IsExpectedOf(p, rows[i], SourceRoleOf(g))
    BY <2>2, ExpectedOfRow
  <2>4. IsSequence(expected) /\ ToSet(expected) = UNION {ToSet(parts[i]) : i \in 1..n}
    BY <2>1, <2>2, <2>3, Concatenated
  <2>5. \A p \in ToSet(expected) : \E x \in ToSet(rows) : IsExpectedOf(p, x, SourceRoleOf(g))
    BY <2>1, <2>3, <2>4, Zenon
  <2> DEFINE present == {PolicyKey(p) : p \in ToSet(g.policies)}
             applies(k) ==
                /\ ~Unlisted(expected[k], {row.role : row \in ToSet(g.requirements)})
                /\ expected[k].source = "helper" =>
                      <<expected[k].index, expected[k].role>> \notin CustomizedRoles(g)
             first(k) == \A j \in 1 .. k - 1 :
                            applies(j) => PolicyKey(expected[j]) # PolicyKey(expected[k])
             kept == {k \in DOMAIN expected :
                        applies(k) /\ PolicyKey(expected[k]) \notin present /\ first(k)}
             added == Selected(expected, kept)
  <2>6. w = [g EXCEPT !.policies = @ \o added]
    BY <1>2 DEF WithExpectedPolicies, Adopted, parts
  <2> HIDE DEF expected
  <2>7. \A k \in kept : expected[k].role \in {row.role : row \in ToSet(rows)}
    BY DEF Unlisted
  <2> HIDE DEF kept
  <2>8. IsSequence(added) /\ ToSet(added) = {expected[k] : k \in kept \cap DOMAIN expected}
    BY <2>4, SelectedElements
  <2> HIDE DEF added
  <2>9. \A p \in ToSet(added) : /\ \E x \in ToSet(rows) : IsExpectedOf(p, x, SourceRoleOf(g))
                                /\ \E x \in ToSet(rows) : x.role = p.role
    <3>1. \A k \in DOMAIN expected : expected[k] \in ToSet(expected)
      BY DEF ToSet
    <3>2. QED
      BY <2>5, <2>7, <2>8, <3>1
  <2>10. w = [requirements |-> rows, policies |-> g.policies \o added]
    BY <2>6, Zenon DEF IsGroup
  <2>11. IsSequence(g.policies \o added)
         /\ ToSet(g.policies \o added) = ToSet(g.policies) \cup ToSet(added)
    BY <2>8, Appended
  <2> HIDE DEF w, rows
  <2>12. QED
    BY <2>9, <2>10, <2>11 DEF IsGroup, w, rows
<1>3. QED
  BY <1>1, <1>2

LEMMA DefinitionHas ==
  ASSUME Service # SignedIn, NEW settings, SettingsWell(settings), NEW scope, IsSequence(scope),
         scope # << >>, NEW audience, NEW g \in DOMAIN Definition(settings, scope, audience)
  PROVE  LET d == Definition(settings, scope, audience)[g] IN
         /\ GroupHas(d.requirements, RequirementsOf(settings, g), scope)
         /\ IsSequence(d.policies)
         /\ \A p \in ToSet(d.policies) :
              \/ p.source = "helper"
                 /\ \E x \in ToSet(d.requirements) : x.source = "helper" /\ x.role = p.role
              \/ /\ \E x \in ToSet(d.requirements) : IsExpectedOf(p, x, SourceRoleOf(d))
                 /\ \E x \in ToSet(d.requirements) : x.role = p.role
         /\ g \in DOMAIN ToolGroups(settings) \/ g = SharedGroup
<1> DEFINE default == IF settings = None THEN None ELSE settings.default
           all == WithManagedAccess(ToolGroups(settings), default, scope)
           group == all[g]
           d == Definition(settings, scope, audience)[g]
<1>1. Definition(settings, scope, audience) = [x \in DOMAIN all |-> WithExpectedPolicies(all[x], audience)]
  BY DEF Definition, ToolGroups
<1>2. g \in DOMAIN all /\ d = WithExpectedPolicies(group, audience)
  BY <1>1
<1> HIDE DEF d, default
<1>3. /\ IsGroup(group) /\ PoliciesOf(group)
      /\ GroupHas(group.requirements, RequirementsOf(settings, g), scope)
      /\ g \in DOMAIN ToolGroups(settings) \/ g = SharedGroup
  BY <1>2, WithManagedAccessHas
<1> HIDE DEF group
<1>4. IsSequence(group.requirements) /\ IsSequence(group.policies)
  BY <1>3 DEF GroupHas, PoliciesOf
<1>5. /\ d.requirements = group.requirements /\ IsSequence(d.policies)
      /\ \A p \in ToSet(d.policies) :
              \/ p \in ToSet(group.policies)
              \/ /\ \E x \in ToSet(group.requirements) : IsExpectedOf(p, x, SourceRoleOf(group))
                 /\ \E x \in ToSet(group.requirements) : x.role = p.role
  BY <1>2, <1>3, <1>4, WithExpected
<1>6. SourceRoleOf(d) = SourceRoleOf(group)
  BY <1>5 DEF SourceRoleOf
<1>7. QED
  BY <1>3, <1>5, <1>6 DEF PoliciesOf, d

\* A row that is not managed, for what is managed.
OwnRequired(rows, scope) ==
  \E x \in ToSet(rows), y \in ToSet(ManagedRows(scope)) : Custom(x) /\ Identity(x) = Identity(y)

LEMMA HelperRoles ==
  ASSUME NEW q, NEW r, IsDirectRole(q), IsDirectRole(r)
  PROVE  /\ \A u, v : HelperRole(q, u) = HelperRole(r, v) => q = r /\ u = v
         /\ \A u : HelperRole(q, u) = r => u = "direct"
<1>1. q = [domain |-> q.domain, name |-> q.name, use |-> "direct"]
      /\ r = [domain |-> r.domain, name |-> r.name, use |-> "direct"]
  BY DEF IsDirectRole, Role
<1>2. \A u : HelperRole(q, u) = [domain |-> q.domain, name |-> q.name, use |-> u]
             /\ HelperRole(r, u) = [domain |-> r.domain, name |-> r.name, use |-> u]
  BY <1>1 DEF HelperRole
<1>3. ASSUME NEW u, NEW v, HelperRole(q, u) = HelperRole(r, v) PROVE q = r /\ u = v
  <2>1. [domain |-> q.domain, name |-> q.name, use |-> u]
          = [domain |-> r.domain, name |-> r.name, use |-> v]
    BY <1>2, <1>3
  <2>2. q.domain = r.domain /\ q.name = r.name /\ u = v
    BY <2>1
  <2>3. QED
    BY <1>1, <2>2
<1>4. ASSUME NEW u, HelperRole(q, u) = r PROVE u = "direct"
  <2>1. [domain |-> q.domain, name |-> q.name, use |-> u].use = r.use /\ r.use = "direct"
    BY <1>1, <1>2, <1>4
  <2>2. QED
    BY <2>1
<1>5. QED
  BY <1>3, <1>4

\* Every policy belongs to the table of some row, where no tool requires the
\* server's own access role.
LEMMA Visible ==
  ASSUME Service # SignedIn, NEW rows, NEW qs, NEW scope, IsSequence(scope),
         \A r \in ToSet(scope) : IsDirectRole(r),
         GroupHas(rows, qs, scope), ~OwnRequired(rows, scope), NEW p, NEW sourceRole,
         sourceRole # None => \E x \in ToSet(rows) : x.source = "managed" /\ x.role = sourceRole,
         \/ p.source = "helper" /\ \E x \in ToSet(rows) : x.source = "helper" /\ x.role = p.role
         \/ /\ \E x \in ToSet(rows) : IsExpectedOf(p, x, sourceRole)
            /\ \E x \in ToSet(rows) : x.role = p.role
  PROVE  \E x \in ToSet(rows) : x.role = p.role /\ (Custom(x) <=> Custom(p))
<1> DEFINE managed == ToSet(ManagedRows(scope))
<1>1. \A x \in ToSet(rows) : x \in managed \/ IsToolRow(x) \/ IsHelperRow(x)
  BY DEF GroupHas
<1>2. \A x \in managed :
        /\ x.source = "managed" /\ x.member = ResolvedMember(x.configured)
        /\ \E r \in ToSet(scope) :
              \/ x.configured = SignedIn /\ x.role = r
              \/ x.configured = Gateway /\ x.role = HelperRole(r, "jag")
              \/ x.configured = Service /\ x.role = HelperRole(r, "source") /\ Service # None
  BY ManagedRowIs
<1>3. \A r \in ToSet(scope) : Row(SignedIn, r, "managed", None) \in managed
                              /\ Row(Gateway, HelperRole(r, "jag"), "managed", None) \in managed
  BY ManagedRowsAre DEF ManagedOf
<1>4. \A y \in managed : \E x \in ToSet(rows) : Identity(x) = Identity(y) /\ (x = y \/ Custom(x))
  BY DEF GroupHas
<1>5. \A x \in ToSet(rows), y \in managed : Identity(x) = Identity(y) => ~Custom(x)
  BY DEF OwnRequired
<1> HIDE DEF managed
<1>6. CASE p.source = "helper" /\ \E x \in ToSet(rows) : x.source = "helper" /\ x.role = p.role
  BY <1>6 DEF Custom
<1>7. CASE /\ \E x \in ToSet(rows) : IsExpectedOf(p, x, sourceRole)
           /\ \E x \in ToSet(rows) : x.role = p.role
  <2>1. PICK row \in ToSet(rows) : IsExpectedOf(p, row, sourceRole)
    BY <1>7
  <2>2. row.configured = SignedIn
    BY <2>1 DEF IsExpectedOf
  <2>3. CASE /\ row.source = "tool" /\ p.source = "helper"
             /\ p.role \in {HelperRole(row.role, "jag"), HelperRole(row.role, "target")}
    <3>1. PICK x \in ToSet(rows) : x.role = p.role
      BY <1>7
    <3>2. IsDirectRole(row.role) /\ row.member = ResolvedMember(SignedIn) /\ Custom(row)
      BY <1>1, <1>2, <2>2, <2>3 DEF IsToolRow, IsHelperRow, Custom, GroupHas
    <3>3. ASSUME x \in managed PROVE FALSE
      <4>1. PICK r \in ToSet(scope) : \/ x.role = r
                                      \/ x.role = HelperRole(r, "jag")
                                      \/ x.role = HelperRole(r, "source")
        BY <1>2, <3>3
      <4>2. IsDirectRole(r)
        OBVIOUS
      <4>3. row.role = r
        BY <2>3, <3>1, <3>2, <4>1, <4>2, HelperRoles
      <4>4. Identity(row) = Identity(Row(SignedIn, r, "managed", None))
        BY <3>2, <4>3, RowIs DEF Identity
      <4>5. QED
        BY <1>3, <1>5, <3>2, <4>4
    <3>4. Custom(x) /\ Custom(p)
      BY <1>1, <2>3, <3>1, <3>3 DEF IsToolRow, IsHelperRow, Custom
    <3>5. QED
      BY <3>1, <3>4
  <2>4. CASE row.source = "tool" /\ p.source = "managed" /\ p.role = sourceRole /\ sourceRole # None
    BY <2>4 DEF Custom
  <2>5. CASE row.source # "tool" /\ p.source = "managed" /\ p.role = HelperRole(row.role, "jag")
    <3>1. row \in managed
      BY <1>1, <2>1, <2>2, <2>5 DEF IsToolRow, IsHelperRow
    <3>2. PICK r \in ToSet(scope) : row.role = r
      BY <1>2, <2>2, <3>1 DEF SignedIn, Gateway
    <3> DEFINE y == Row(Gateway, HelperRole(r, "jag"), "managed", None)
    <3>3. y \in managed /\ y.role = p.role /\ y.source = "managed"
      BY <1>3, <2>5, <3>2, RowIs
    <3> HIDE DEF y
    <3>4. y \in ToSet(rows)
      BY <1>4, <1>5, <3>3
    <3>5. QED
      BY <2>5, <3>3, <3>4 DEF Custom
  <2>6. QED
    BY <2>1, <2>3, <2>4, <2>5 DEF IsExpectedOf
<1>8. QED
  BY <1>6, <1>7

-----------------------------------------------------------------------------
(* What the page of a server has                                           *)

LEMMA ManagedMembersAre == ManagedMembers = {Identity(y) : y \in ToSet(ManagedRows(Scope))}
<1>1. IsSequence(Scope)
  BY ReadinessAssumption
<1>2. ASSUME NEW y \in ToSet(ManagedRows(Scope))
      PROVE  Identity([member |-> ResolvedMember(y.configured), role |-> y.role]) = Identity(y)
  <2>1. y.member = ResolvedMember(y.configured)
    BY <1>1, ManagedRowIs
  <2>2. QED
    BY <2>1 DEF Identity
<1>3. QED
  BY <1>2, Zenon DEF ManagedMembers

LEMMA GroupsHave ==
  ASSUME start \in PageStarts, NEW g \in DOMAIN Groups
  PROVE  /\ GroupHas(Groups[g].requirements, RequirementsOf(SettingsOf(start), g), Scope)
         /\ IsSequence(Groups[g].policies)
         /\ ~OwnRoleRequired =>
              \A p \in ToSet(Groups[g].policies) : \E x \in ToSet(Groups[g].requirements) :
                 x.role = p.role /\ (Custom(x) <=> Custom(p))
<1> DEFINE settings == SettingsOf(start)
           d == Groups[g]
<1>1. Groups = IF Readable(start) THEN Definition(settings, Scope, Audience) ELSE << >>
  BY DEF Groups, DefinitionOf
<1>2. Readable(start) /\ Groups = Definition(settings, Scope, Audience)
  BY <1>1, Nowhere
<1>3. SettingsWell(settings)
  BY <1>2, ReadSettingsWell
<1>4. /\ Scope # << >> /\ IsSequence(Scope) /\ \A r \in ToSet(Scope) : IsDirectRole(r)
      /\ Service # SignedIn
  BY ReadinessAssumption
<1> HIDE DEF settings
<1>5. /\ GroupHas(d.requirements, RequirementsOf(settings, g), Scope)
      /\ IsSequence(d.policies)
      /\ \A p \in ToSet(d.policies) :
              \/ p.source = "helper"
                 /\ \E x \in ToSet(d.requirements) : x.source = "helper" /\ x.role = p.role
              \/ /\ \E x \in ToSet(d.requirements) : IsExpectedOf(p, x, SourceRoleOf(d))
                 /\ \E x \in ToSet(d.requirements) : x.role = p.role
  BY <1>2, <1>3, <1>4, DefinitionHas
<1>6. IsSequence(d.requirements)
  BY <1>5 DEF GroupHas
<1>7. SourceRoleOf(d) # None =>
        \E x \in ToSet(d.requirements) : x.source = "managed" /\ x.role = SourceRoleOf(d)
  BY <1>6, SourceRoleIs
<1>8. ~OwnRoleRequired => ~OwnRequired(d.requirements, Scope)
  BY ManagedMembersAre DEF OwnRoleRequired, OwnRequired
<1> HIDE DEF d
<1>9. ASSUME ~OwnRoleRequired, NEW p \in ToSet(d.policies)
      PROVE  \E x \in ToSet(d.requirements) : x.role = p.role /\ (Custom(x) <=> Custom(p))
  BY <1>4, <1>5, <1>7, <1>8, <1>9, Visible, Zenon
<1>10. QED
  BY <1>5, <1>9 DEF d, settings

-----------------------------------------------------------------------------
(* What the page shows                                                     *)

\* A readiness has a status for each row and each policy, or for none.
Shaped(readiness) ==
  /\ DOMAIN readiness.statuses \in {{}, DOMAIN Groups}
  /\ \A g \in DOMAIN readiness.statuses :
       /\ DOMAIN readiness.statuses[g].requirements = DOMAIN Groups[g].requirements
       /\ DOMAIN readiness.statuses[g].policies = DOMAIN Groups[g].policies
WasSince(readiness) ==
  \A g \in DOMAIN readiness.statuses :
     /\ \A i \in DOMAIN readiness.statuses[g].requirements :
          LET f == Identity(Groups[g].requirements[i]) IN
          readiness.statuses[g].requirements[i] = "ready" /\ f \in ManagedMembers => f \in since
     /\ \A i \in DOMAIN readiness.statuses[g].policies :
          LET k == PolicyKey(Groups[g].policies[i]) IN
          readiness.statuses[g].policies[i] = "ready" /\ k \in ManagedKeys => k \in since
\* What of the server's own access was true is remembered.
Remembered ==
  /\ members \cap ManagedMembers \subseteq since
  /\ HeldKeys \cap ManagedKeys \subseteq since
  /\ load.pc # "none" => /\ history.held \cap ManagedMembers \subseteq since
                         /\ history.keys \cap ManagedKeys \subseteq since
\* What a request has not granted yet, it will.
ToGrant ==
  page.state = "requesting" /\ Readable(start) =>
     /\ \A f \in ManagedMembers : f \in since \/ \E i \in DOMAIN request : f \in request[i].members
     /\ \A k \in ManagedKeys : k \in since \/ \E i \in DOMAIN request : k \in request[i].keys
PageWell ==
  /\ DOMAIN page = DOMAIN Unmounted
  /\ Shaped(page.readiness) /\ WasSince(page.readiness)
  /\ load.pc = "answered" => Shaped(load.answer)
  /\ Remembered /\ ToGrant
  /\ page.state = "approved" => ManagedMembers \cup ManagedKeys \subseteq since

LEMMA PageFields ==
  DOMAIN Unmounted = {"mounted", "readiness", "tools", "state", "accessApproved"}
BY DEF Unmounted

LEMMA ConstantOf ==
  ASSUME start' = start
  PROVE  /\ Groups' = Groups /\ ManagedMembers' = ManagedMembers /\ ManagedKeys' = ManagedKeys
         /\ Memberships(start)' = Memberships(start) /\ Readable(start)' = Readable(start)
         /\ \A r : Shaped(r) => Shaped(r)'
BY DEF Groups, ManagedMembers, ManagedKeys, Memberships, Assertions, Readable, SettingsOf,
       StoredSettings, Shaped

LEMMA SinceKept ==
  ASSUME start' = start, since \subseteq since', NEW r, WasSince(r)
  PROVE  WasSince(r)'
<1>1. Groups' = Groups /\ ManagedMembers' = ManagedMembers /\ ManagedKeys' = ManagedKeys
  BY ConstantOf
<1>2. QED
  BY <1>1 DEF WasSince

\* A step that leaves the page alone, and the load's answer.
LEMMA PageKept ==
  ASSUME PageWell, start' = start, page' = page, since \subseteq since', Remembered', ToGrant',
         (load.pc = "answered" => Shaped(load.answer))'
  PROVE  PageWell'
<1>1. ManagedMembers' = ManagedMembers /\ ManagedKeys' = ManagedKeys
      /\ (Shaped(page.readiness) => Shaped(page.readiness)')
  BY ConstantOf
<1>2. WasSince(page.readiness)'
  BY SinceKept DEF PageWell
<1>3. QED
  BY <1>1, <1>2 DEF PageWell, Shaped, WasSince

LEMMA BecomesPage ==
  ASSUME LookupWell, PageWell, NEW ms, NEW ps, AthenzBecomes(ms, ps),
         UNCHANGED <<start, load, page>>
  PROVE  /\ since \subseteq since' /\ Remembered'
         /\ ms \cap ManagedMembers \subseteq since'
         /\ HeldKeys' \cap ManagedKeys \subseteq since'
<1> DEFINE seen == HistoryFrom(ms, ps)
<1>1. ManagedMembers' = ManagedMembers /\ ManagedKeys' = ManagedKeys
  BY ConstantOf
<1>2. seen.held = ms /\ seen.keys = HeldKeys' /\ members' = ms
  BY DEF AthenzBecomes, HistoryFrom, HeldKeys
<1>3. since' = since \cup ManagedFacts(ms, seen.keys)
  BY DEF AthenzBecomes
<1>4. load.pc # "none" => /\ history'.held = history.held \cup seen.held
                          /\ history'.keys = history.keys \cup seen.keys
  BY DEF AthenzBecomes
<1> HIDE DEF seen
<1>5. /\ since \subseteq since' /\ ms \cap ManagedMembers \subseteq since'
      /\ HeldKeys' \cap ManagedKeys \subseteq since'
  BY <1>2, <1>3 DEF ManagedFacts
<1>6. Remembered'
  BY <1>1, <1>2, <1>4, <1>5 DEF PageWell, Remembered
<1>7. QED
  BY <1>5, <1>6

LEMMA ChangesKeepPage ==
  ASSUME LookupWell, PageWell, MembershipChanges \/ PolicyChanges
  PROVE  PageWell'
<1>1. PICK ms, ps : AthenzBecomes(ms, ps)
  BY Zenon DEF MembershipChanges, PolicyChanges
<1>2. UNCHANGED <<start, load, page, request>>
  BY DEF MembershipChanges, PolicyChanges
<1>3. since \subseteq since' /\ Remembered'
  BY <1>1, <1>2, BecomesPage
<1>4. /\ ManagedMembers' = ManagedMembers /\ ManagedKeys' = ManagedKeys
      /\ Readable(start)' = Readable(start) /\ \A r : Shaped(r) => Shaped(r)'
  BY <1>2, ConstantOf
<1>5. ToGrant'
  BY <1>2, <1>3, <1>4 DEF PageWell, ToGrant
<1>6. (load.pc = "answered" => Shaped(load.answer))'
  BY <1>2, <1>4 DEF PageWell, Shaped
<1>7. QED
  BY <1>2, <1>3, <1>5, <1>6, PageKept

LEMMA GrantKeepsPage ==
  ASSUME LookupWell, PageWell, Granted
  PROVE  PageWell'
<1> DEFINE M == {f \in Memberships(start) \cup ManagedMembers : IsPair(f)}
           K == Assertions(start)
           G == [members : SUBSET M, keys : SUBSET K]
           g == Head(request)
           ps == [n \in PolicyNames |-> policies[n] \cup {k \in g.keys \ HeldKeys : HomeOf(k) = n}]
<1> HIDE DEF M, K, G
<1>1. request \in Seq(G) /\ request # << >>
  <2>1. request \in Seq([members : SUBSET M, keys : SUBSET K])
    BY DEF LookupWell, Request, M, K
  <2>2. QED
    BY <2>1 DEF Granted, G
<1>2. /\ AthenzBecomes(members \cup g.members, ps)
      /\ request' = Tail(request) /\ UNCHANGED <<start, load, page>>
  BY DEF Granted
<1>3. g \in G /\ g = request[1] /\ Tail(request) \in Seq(G)
      /\ \A i \in DOMAIN request : i = 1 \/ (i - 1 \in DOMAIN Tail(request)
                                             /\ Tail(request)[i - 1] = request[i])
  BY <1>1
<1>4. g.keys \subseteq K
  BY <1>3 DEF G
<1>5. /\ since \subseteq since' /\ Remembered'
      /\ (members \cup g.members) \cap ManagedMembers \subseteq since'
      /\ HeldKeys' \cap ManagedKeys \subseteq since'
  BY <1>2, BecomesPage
<1> HIDE DEF g
<1>6. g.keys \subseteq HeldKeys'
  <2>1. policies' = ps
    BY <1>2 DEF AthenzBecomes
  <2>2. ASSUME NEW k \in g.keys PROVE \E n \in PolicyNames : k \in ps[n]
    <3>1. CASE k \in HeldKeys
      BY <3>1 DEF HeldKeys
    <3>2. CASE k \notin HeldKeys
      <4>1. HomeOf(k) \in PolicyNames
        BY <1>4, Homes DEF LookupWell, K
      <4>2. k \in ps[HomeOf(k)]
        BY <3>2, <4>1
      <4>3. QED
        BY <4>1, <4>2
    <3>3. QED
      BY <3>1, <3>2
  <2>3. HeldKeys' = UNION {ps[n] : n \in PolicyNames}
    BY <2>1 DEF HeldKeys
  <2>4. QED
    BY <2>2, <2>3
<1> HIDE DEF ps
<1>7. /\ ManagedMembers' = ManagedMembers /\ ManagedKeys' = ManagedKeys
      /\ Readable(start)' = Readable(start) /\ \A r : Shaped(r) => Shaped(r)'
  BY <1>2, ConstantOf
<1>8. ToGrant'
  <2> SUFFICES ASSUME page.state = "requesting", Readable(start)
               PROVE  /\ \A f \in ManagedMembers :
                           f \in since' \/ \E i \in DOMAIN request' : f \in request'[i].members
                      /\ \A k \in ManagedKeys :
                           k \in since' \/ \E i \in DOMAIN request' : k \in request'[i].keys
    BY <1>2, <1>7 DEF ToGrant
  <2>1. /\ \A f \in ManagedMembers : f \in since \/ \E i \in DOMAIN request : f \in request[i].members
        /\ \A k \in ManagedKeys : k \in since \/ \E i \in DOMAIN request : k \in request[i].keys
    BY DEF PageWell, ToGrant
  <2>2. ASSUME NEW f \in ManagedMembers
        PROVE  f \in since' \/ \E i \in DOMAIN request' : f \in request'[i].members
    BY <1>2, <1>3, <1>5, <2>1, Zenon
  <2>3. ASSUME NEW k \in ManagedKeys
        PROVE  k \in since' \/ \E i \in DOMAIN request' : k \in request'[i].keys
    BY <1>2, <1>3, <1>5, <1>6, <2>1, Zenon
  <2>4. QED
    BY <2>2, <2>3
<1>9. (load.pc = "answered" => Shaped(load.answer))'
  BY <1>2, <1>7 DEF PageWell, Shaped
<1>10. QED
  BY <1>2, <1>5, <1>8, <1>9, PageKept

\* A step of the load: an answer has the form of what was looked up.
LEMMA AnswerShaped ==
  ASSUME LookupWell, PageWell, LoadStep
  PROVE  (load.pc = "answered" => Shaped(load.answer))'
<1>1. DOMAIN load = DOMAIN NoLoad
  BY DEF LookupWell
<1>2. ASSUME NEW error, Loading(Answered(error, << >>)) PROVE Shaped(load.answer)'
  <2>1. load'.answer.statuses = << >>
    BY <1>1, <1>2, LoadFields DEF Loading, Answered
  <2>2. QED
    BY <2>1, Nowhere DEF Shaped
<1>3. ASSUME NEW statuses, Loading(Answered(FALSE, statuses)), DOMAIN statuses = DOMAIN Groups,
             \A g \in DOMAIN statuses :
               /\ DOMAIN statuses[g].requirements = DOMAIN Groups[g].requirements
               /\ DOMAIN statuses[g].policies = DOMAIN Groups[g].policies
      PROVE  Shaped(load.answer)'
  <2>1. load'.answer.statuses = statuses /\ Groups' = Groups
    BY <1>1, <1>3, LoadFields, ConstantOf DEF Loading, Answered
  <2>2. QED
    BY <1>3, <2>1 DEF Shaped
<1>4. ASSUME NEW next, Loading(next), next.answer = load.answer,
             next.pc = "answered" => load.pc = "answered"
      PROVE  (load.pc = "answered" => Shaped(load.answer))'
  <2>1. load' = next /\ Groups' = Groups
    BY <1>4, ConstantOf DEF Loading
  <2>2. QED
    BY <1>4, <2>1 DEF PageWell, Shaped
<1>5. CASE DefinitionRead
  <2>1. CASE Readable(start)
    <3>1. Loading([load EXCEPT !.pc = "credentials"])
      BY <1>5, <2>1 DEF DefinitionRead
    <3>2. QED
      BY <1>1, <1>4, <3>1, LoadFields
  <2>2. CASE ~Readable(start)
    BY <1>2, <1>5, <2>2, Zenon DEF DefinitionRead
  <2>3. QED
    BY <2>1, <2>2
<1>6. CASE DefinitionFails
  BY <1>2, <1>6, Zenon DEF DefinitionFails
<1>7. CASE CredentialsRead
  <2>1. Loading([load EXCEPT !.pc = "looking"])
    BY <1>7 DEF CredentialsRead
  <2>2. QED
    BY <1>1, <1>4, <2>1, LoadFields
<1>8. CASE CredentialsMissing
  <2> DEFINE statuses == AllStatuses("unavailable")
  <2>1. Loading(Answered(FALSE, statuses))
    BY <1>8, Zenon DEF CredentialsMissing
  <2>2. /\ DOMAIN statuses = DOMAIN Groups
        /\ \A g \in DOMAIN statuses :
             /\ DOMAIN statuses[g].requirements = DOMAIN Groups[g].requirements
             /\ DOMAIN statuses[g].policies = DOMAIN Groups[g].policies
    BY DEF AllStatuses
  <2> HIDE DEF statuses
  <2>3. QED
    BY <1>3, <2>1, <2>2, Zenon
<1>9. CASE LookedUp
  <2> DEFINE statuses ==
      [g \in DOMAIN Groups |->
         [requirements |-> [i \in DOMAIN Groups[g].requirements |->
                              MembershipStatus(Groups[g].requirements[i])],
          policies |-> [i \in DOMAIN Groups[g].policies |->
                          PolicyStatus(Groups[g].policies[i])]]]
  <2>1. Loading(Answered(FALSE, statuses))
    BY <1>9, Zenon DEF LookedUp
  <2>2. /\ DOMAIN statuses = DOMAIN Groups
        /\ \A g \in DOMAIN statuses :
             /\ DOMAIN statuses[g].requirements = DOMAIN Groups[g].requirements
             /\ DOMAIN statuses[g].policies = DOMAIN Groups[g].policies
    OBVIOUS
  <2> HIDE DEF statuses
  <2>3. QED
    BY <1>3, <2>1, <2>2, Zenon
<1>10. CASE \E m \in Principals : RolesFound(m) \/ RolesFail(m)
  <2>1. PICK answers, failed : Loading([load EXCEPT !.roles = answers])
                             \/ Loading([load EXCEPT !.noRoles = failed])
    BY <1>10, Zenon DEF RolesFound, RolesFail
  <2>2. QED
    BY <1>1, <1>4, <2>1, LoadFields
<1>11. CASE \E d \in Domains : PoliciesListed(d) \/ PoliciesFail(d)
  <2>1. PICK keys, unread, failed : Loading([load EXCEPT !.keys = keys, !.unread = unread])
                                    \/ Loading([load EXCEPT !.noPolicies = failed])
    BY <1>11 DEF PoliciesListed, PoliciesFail
  <2>2. QED
    BY <1>1, <1>4, <2>1, LoadFields, Zenon
<1>12. CASE \E n \in PolicyNames : PolicyRead(n) \/ PolicyFails(n)
  <2>1. CASE \E n \in PolicyNames : PolicyRead(n)
    <3>1. PICK n : Loading([load EXCEPT !.keys[n[1]] = @ \cup policies[n], !.unread = @ \ {n}])
      BY <2>1 DEF PolicyRead
    <3>2. QED
      BY <1>1, <1>4, <3>1, LoadFields, Zenon
  <2>2. CASE \E n \in PolicyNames : PolicyFails(n)
    <3>1. PICK n : Loading([load EXCEPT !.unread = {x \in @ : x[1] # n[1]},
                                        !.noPolicies = @ \cup {n[1]}])
      BY <2>2 DEF PolicyFails, WithoutPolicy
    <3>2. QED
      BY <1>1, <1>4, <3>1, LoadFields, Zenon
  <2>3. QED
    BY <1>12, <2>1, <2>2
<1>13. CASE Initialized \/ Notified \/ ToolsListed \/ SessionClosed \/ ServerFails
  <2>1. PICK l, session, tools :
          \/ Loading([load EXCEPT !.listing = l])
          \/ Loading([load EXCEPT !.listing = l, !.session = session])
          \/ Loading([load EXCEPT !.listing = l, !.tools = tools])
    BY <1>13 DEF Initialized, Notified, ToolsListed, SessionClosed, ServerFails
  <2>2. QED
    BY <1>1, <1>4, <2>1, LoadFields, Zenon
<1>14. QED
  BY <1>5, <1>6, <1>7, <1>8, <1>9, <1>10, <1>11, <1>12, <1>13 DEF LoadStep

LEMMA LoadKeepsPage ==
  ASSUME LookupWell, PageWell, LoadStep
  PROVE  PageWell'
<1>1. UNCHANGED <<start, members, policies, page, request, history, since>>
  BY DEF LoadStep, DefinitionRead, DefinitionFails, CredentialsRead, CredentialsMissing,
         RolesFound, RolesFail, PoliciesListed, PoliciesFail, PolicyRead, PolicyFails,
         LookedUp, Initialized, Notified, ToolsListed, SessionClosed, ServerFails, Loading
<1>2. load'.pc # "none" => load.pc # "none"
  <2>1. DOMAIN load = DOMAIN NoLoad
    BY DEF LookupWell
  <2>2. CASE Initialized \/ Notified \/ ToolsListed \/ SessionClosed \/ ServerFails
    <3>1. PICK l, session, tools :
          \/ load' = [load EXCEPT !.listing = l]
          \/ load' = [load EXCEPT !.listing = l, !.session = session]
          \/ load' = [load EXCEPT !.listing = l, !.tools = tools]
      BY <2>2 DEF Initialized, Notified, ToolsListed, SessionClosed, ServerFails, Loading
    <3>2. QED
      BY <2>1, <3>1, LoadFields, Zenon
  <2>3. CASE ~(Initialized \/ Notified \/ ToolsListed \/ SessionClosed \/ ServerFails)
    BY <2>3 DEF LoadStep, DefinitionRead, DefinitionFails, CredentialsRead, CredentialsMissing,
                RolesFound, RolesFail, PoliciesListed, PoliciesFail, PolicyRead, PolicyFails,
                LookedUp
  <2>4. QED
    BY <2>2, <2>3
<1>3. /\ ManagedMembers' = ManagedMembers /\ ManagedKeys' = ManagedKeys
      /\ Readable(start)' = Readable(start) /\ HeldKeys' = HeldKeys
  BY <1>1, ConstantOf DEF HeldKeys
<1>4. Remembered' /\ ToGrant'
  BY <1>1, <1>2, <1>3 DEF PageWell, Remembered, ToGrant
<1>5. QED
  BY <1>1, <1>4, AnswerShaped, PageKept

\* What an answer says is ready was there since the page was asked for.
LEMMA AnswerWasSince ==
  ASSUME LookupWell, PageWell, load.pc = "answered"
  PROVE  WasSince(load.answer)
<1>1. /\ history.held \cap ManagedMembers \subseteq since
      /\ history.keys \cap ManagedKeys \subseteq since
  BY DEF PageWell, Remembered
<1>2. StatusesWereTrue
  BY DEF LookupWell
<1>3. QED
  BY <1>1, <1>2 DEF StatusesWereTrue, WasSince

LEMMA DeliveredKeepsPage == ASSUME LookupWell, PageWell, Delivered PROVE PageWell'
<1>1. /\ load.pc = "answered" /\ load' = NoLoad /\ NoLoad.pc = "none"
      /\ page' = [page EXCEPT !.mounted = TRUE, !.readiness = load.answer, !.tools = load.tools,
                              !.accessApproved = IF page.mounted THEN @ ELSE ManagedReady(load.answer)]
      /\ UNCHANGED <<start, members, policies, request, since>>
  BY DEF Delivered, NoLoad
<1>2. DOMAIN page' = DOMAIN Unmounted /\ page'.readiness = load.answer /\ page'.state = page.state
  BY <1>1, PageFields DEF PageWell
<1>3. WasSince(load.answer) /\ Shaped(load.answer)
  BY <1>1, AnswerWasSince DEF PageWell
<1>4. /\ ManagedMembers' = ManagedMembers /\ ManagedKeys' = ManagedKeys /\ Groups' = Groups
      /\ Readable(start)' = Readable(start) /\ HeldKeys' = HeldKeys
  BY <1>1, ConstantOf DEF HeldKeys
<1>5. Shaped(page.readiness)' /\ WasSince(page.readiness)'
  BY <1>1, <1>2, <1>3, <1>4 DEF Shaped, WasSince
<1>6. Remembered' /\ ToGrant'
  BY <1>1, <1>2, <1>4 DEF PageWell, Remembered, ToGrant
<1>7. QED
  BY <1>1, <1>2, <1>4, <1>5, <1>6 DEF PageWell

LEMMA LoadAgainRemembers ==
  ASSUME PageWell, LoadAgain, UNCHANGED <<start, members, policies, since>>
  PROVE  Remembered' /\ (load.pc = "answered" => Shaped(load.answer))'
<1>1. /\ ManagedMembers' = ManagedMembers /\ ManagedKeys' = ManagedKeys /\ HeldKeys' = HeldKeys
  BY ConstantOf DEF HeldKeys
<1>2. history' = HistoryFrom(members, policies) /\ load' = NewLoad /\ NewLoad.pc = "definition"
  BY DEF LoadAgain, NewLoad, NoLoad
<1>3. history'.held = members /\ history'.keys = HeldKeys
  BY <1>2 DEF HistoryFrom, HeldKeys
<1>4. QED
  BY <1>1, <1>2, <1>3 DEF PageWell, Remembered

\* The four steps of a request grant all of the server's own access.
LEMMA GrantsAll ==
  /\ \A f \in ManagedMembers : \E i \in DOMAIN Grants : f \in Grants[i].members
  /\ \A k \in ManagedKeys : \E i \in DOMAIN Grants : k \in Grants[i].keys
<1>1. /\ DOMAIN Grants = 1..4
      /\ Grants[1].members = ManagedMembers \ UserMemberships /\ Grants[1].keys = ManagedKeys
      /\ Grants[3].members = UserMemberships
  BY DEF Grants
<1>2. QED
  BY <1>1

LEMMA RequestKeepsPage ==
  ASSUME LookupWell, PageWell, RequestAccess \/ RequestApproved \/ RequestFails
  PROVE  PageWell'
<1>1. UNCHANGED <<start, members, policies, since>>
  BY DEF RequestAccess, RequestApproved, RequestFails
<1>2. /\ ManagedMembers' = ManagedMembers /\ ManagedKeys' = ManagedKeys /\ Groups' = Groups
      /\ Readable(start)' = Readable(start) /\ HeldKeys' = HeldKeys
  BY <1>1, ConstantOf DEF HeldKeys
<1>3. DOMAIN page = DOMAIN Unmounted
  BY DEF PageWell
<1>4. ASSUME UNCHANGED <<load, history>> \/ LoadAgain
      PROVE  Remembered' /\ (load.pc = "answered" => Shaped(load.answer))'
  <2>1. CASE UNCHANGED <<load, history>>
    BY <1>1, <1>2, <2>1 DEF PageWell, Remembered, Shaped
  <2>2. QED
    BY <1>1, <1>4, <2>1, LoadAgainRemembers
<1>5. ASSUME page'.readiness = page.readiness
      PROVE  Shaped(page.readiness)' /\ WasSince(page.readiness)'
  BY <1>1, <1>2, <1>5 DEF PageWell, Shaped, WasSince
<1>6. CASE RequestAccess
  <2>1. /\ page' = [page EXCEPT !.state = "requesting"] /\ UNCHANGED <<load, history>>
        /\ request' = IF Readable(start) THEN Grants ELSE << >>
    BY <1>6 DEF RequestAccess
  <2>2. DOMAIN page' = DOMAIN Unmounted /\ page'.readiness = page.readiness
        /\ page'.state = "requesting"
    BY <1>3, <2>1, PageFields
  <2>3. ToGrant'
    BY <1>2, <2>1, GrantsAll DEF ToGrant
  <2>4. QED
    BY <1>4, <1>5, <2>1, <2>2, <2>3 DEF PageWell
<1>7. CASE RequestApproved
  <2>1. /\ page.state = "requesting" /\ request = << >> /\ Readable(start)
        /\ page' = [page EXCEPT !.state = "approved", !.accessApproved = TRUE]
        /\ UNCHANGED <<load, history>> \/ LoadAgain
    BY <1>7 DEF RequestApproved
  <2>2. DOMAIN page' = DOMAIN Unmounted /\ page'.readiness = page.readiness
        /\ page'.state = "approved"
    BY <1>3, <2>1, PageFields
  <2>3. ManagedMembers \cup ManagedKeys \subseteq since
    BY <2>1, Nowhere DEF PageWell, ToGrant
  <2>4. ToGrant'
    BY <2>2 DEF ToGrant
  <2>5. QED
    BY <1>1, <1>2, <1>4, <1>5, <2>1, <2>2, <2>3, <2>4 DEF PageWell
<1>8. CASE RequestFails
  <2>1. page' = [page EXCEPT !.state = "error"] /\ UNCHANGED <<load, history>>
    BY <1>8 DEF RequestFails
  <2>2. DOMAIN page' = DOMAIN Unmounted /\ page'.readiness = page.readiness
        /\ page'.state = "error"
    BY <1>3, <2>1, PageFields
  <2>3. ToGrant'
    BY <2>2 DEF ToGrant
  <2>4. QED
    BY <1>4, <1>5, <2>1, <2>2, <2>3 DEF PageWell
<1>9. QED
  BY <1>6, <1>7, <1>8

LEMMA InitPage == PageInit => PageWell
<1> SUFFICES ASSUME PageInit PROVE PageWell
  OBVIOUS
<1>1. /\ page = Unmounted /\ load = NewLoad /\ request = << >>
      /\ history = HistoryFrom(members, policies) /\ since = ManagedFacts(members, HeldKeys)
  BY DEF PageInit
<1>2. /\ Unmounted.readiness = NoAnswer /\ NoAnswer.statuses = << >> /\ Unmounted.state = "idle"
      /\ NewLoad.pc = "definition"
  BY DEF Unmounted, NoAnswer, NewLoad, NoLoad
<1>3. history.held = members /\ history.keys = HeldKeys
  BY <1>1 DEF HistoryFrom, HeldKeys
<1>4. Remembered
  BY <1>1, <1>3 DEF Remembered, ManagedFacts
<1>5. Shaped(page.readiness) /\ WasSince(page.readiness)
  BY <1>1, <1>2, Nowhere DEF Shaped, WasSince
<1>6. QED
  BY <1>1, <1>2, <1>4, <1>5 DEF PageWell, ToGrant

LEMMA PageKeeps == ASSUME LookupWell, PageWell, [PageNext]_pageVars PROVE PageWell'
<1>1. CASE Refresh
  <2>1. LoadAgain /\ UNCHANGED <<start, members, policies, page, request, since>>
    BY <1>1 DEF Refresh
  <2>2. ToGrant'
    BY <2>1, ConstantOf DEF PageWell, ToGrant
  <2>3. QED
    BY <2>1, <2>2, LoadAgainRemembers, PageKept
<1>2. CASE UNCHANGED pageVars
  <2>1. UNCHANGED <<start, members, policies, load, page, request, history, since>>
    BY <1>2 DEF pageVars
  <2>2. /\ ManagedMembers' = ManagedMembers /\ ManagedKeys' = ManagedKeys /\ Groups' = Groups
        /\ Readable(start)' = Readable(start) /\ HeldKeys' = HeldKeys
    BY <2>1, ConstantOf DEF HeldKeys
  <2>3. Remembered' /\ ToGrant' /\ (load.pc = "answered" => Shaped(load.answer))'
    BY <2>1, <2>2 DEF PageWell, Remembered, ToGrant, Shaped
  <2>4. QED
    BY <2>1, <2>3, PageKept
<1>3. QED
  BY <1>1, <1>2, ChangesKeepPage, LoadKeepsPage, DeliveredKeepsPage, GrantKeepsPage,
     RequestKeepsPage DEF PageNext

LEMMA ReadyWasVerified ==
  ASSUME LookupWell, PageWell, ManagedReady(page.readiness), ~OwnRoleRequired, ~OwnPolicySet
  PROVE  ManagedMembers \cup ManagedKeys \subseteq since
<1> DEFINE statuses == page.readiness.statuses
<1>1. ManagedStatuses(page.readiness) = {"ready"}
  BY DEF ManagedReady
<1>2. DOMAIN statuses = DOMAIN Groups /\ DOMAIN Groups # {}
  <2>1. DOMAIN statuses # {}
    BY <1>1 DEF ManagedStatuses
  <2>2. QED
    BY <2>1 DEF PageWell, Shaped
<1>3. ASSUME NEW g \in DOMAIN Groups
      PROVE  /\ \A i \in DOMAIN Groups[g].requirements :
                  ~Custom(Groups[g].requirements[i]) => statuses[g].requirements[i] = "ready"
             /\ \A i \in DOMAIN Groups[g].policies :
                  ~Custom(Groups[g].policies[i]) => statuses[g].policies[i] = "ready"
  <2> DEFINE rs == {statuses[g].requirements[i] :
                     i \in {k \in DOMAIN Groups[g].requirements :
                              Groups[g].requirements[k].source = "managed"}}
             ps == {statuses[g].policies[i] :
                     i \in {k \in DOMAIN Groups[g].policies :
                              Groups[g].policies[k].source = "managed"}}
  <2>1. rs \cup ps \subseteq ManagedStatuses(page.readiness)
    BY <1>2 DEF ManagedStatuses
  <2>2. rs \cup ps \subseteq {"ready"}
    BY <1>1, <2>1
  <2>3. ASSUME NEW i \in DOMAIN Groups[g].requirements, ~Custom(Groups[g].requirements[i])
        PROVE  statuses[g].requirements[i] = "ready"
    <3>1. statuses[g].requirements[i] \in rs
      BY <2>3 DEF Custom
    <3>2. QED
      BY <2>2, <3>1, Zenon
  <2>4. ASSUME NEW i \in DOMAIN Groups[g].policies, ~Custom(Groups[g].policies[i])
        PROVE  statuses[g].policies[i] = "ready"
    <3>1. statuses[g].policies[i] \in ps
      BY <2>4 DEF Custom
    <3>2. QED
      BY <2>2, <3>1, Zenon
  <2>5. QED
    BY <2>3, <2>4
<1>4. ASSUME NEW g \in DOMAIN Groups
      PROVE  /\ DOMAIN statuses[g].requirements = DOMAIN Groups[g].requirements
             /\ DOMAIN statuses[g].policies = DOMAIN Groups[g].policies
  BY <1>2 DEF PageWell, Shaped
<1> HIDE DEF statuses
<1>5. ASSUME NEW f \in ManagedMembers PROVE f \in since
  <2>1. PICK g \in DOMAIN Groups : TRUE
    BY <1>2
  <2>2. PICK y \in ToSet(ManagedRows(Scope)) : f = Identity(y)
    BY ManagedMembersAre
  <2>3. PICK x \in ToSet(Groups[g].requirements) : Identity(x) = f
    BY <2>2, GroupsHave DEF GroupHas, LookupWell
  <2>4. ~Custom(x)
    BY <2>3 DEF OwnRoleRequired
  <2>5. PICK i \in DOMAIN Groups[g].requirements : x = Groups[g].requirements[i]
    BY DEF ToSet
  <2>6. statuses[g].requirements[i] = "ready"
    BY <1>3, <2>4, <2>5
  <2>7. g \in DOMAIN statuses /\ i \in DOMAIN statuses[g].requirements
    BY <1>2, <1>4
  <2>8. QED
    BY <2>3, <2>5, <2>6, <2>7 DEF PageWell, WasSince, statuses
<1>6. ASSUME NEW k \in ManagedKeys PROVE k \in since
  <2>1. PICK g \in DOMAIN Groups : \E i \in DOMAIN Groups[g].policies :
          k = PolicyKey(Groups[g].policies[i])
    BY DEF ManagedKeys, Assertions, Groups
  <2>2. PICK i \in DOMAIN Groups[g].policies : k = PolicyKey(Groups[g].policies[i])
    BY <2>1
  <2>3. ~Custom(Groups[g].policies[i])
    BY <2>2 DEF OwnPolicySet, ToSet
  <2>4. statuses[g].policies[i] = "ready"
    BY <1>3, <2>3
  <2>5. g \in DOMAIN statuses /\ i \in DOMAIN statuses[g].policies
    BY <1>2, <1>4
  <2>6. QED
    BY <2>2, <2>4, <2>5 DEF PageWell, WasSince, statuses
<1>7. QED
  BY <1>5, <1>6

LEMMA NoneHidden ==
  ASSUME LookupWell, PageWell
  PROVE  NothingHidden
<1> SUFFICES ASSUME ~OwnRoleRequired, NEW g \in DOMAIN page.readiness.statuses
             PROVE  /\ GroupStatus(g) = "ready" <=> RowStatuses(g, BOOLEAN) \subseteq {"ready"}
                    /\ RequestStatus(g) \in {"ready", "not-required"}
                         <=> RowStatuses(g, {TRUE}) \subseteq {"ready"}
  BY DEF NothingHidden, RowGroup
<1> DEFINE s == page.readiness.statuses[g]
           rows == Groups[g].requirements
           ps == Groups[g].policies
           Bad == {"missing", "unavailable"}
           mine(i) == {x \in DOMAIN s.policies : /\ ps[x].role = rows[i].role
                                                 /\ Custom(ps[x]) <=> Custom(rows[i])}
           all(i) == {s.requirements[i]} \cup {s.policies[k] : k \in mine(i)}
<1>1. DOMAIN s.requirements = DOMAIN rows /\ DOMAIN s.policies = DOMAIN ps /\ g \in DOMAIN Groups
  BY DEF PageWell, Shaped
<1>2. \A p \in ToSet(ps) : \E x \in ToSet(rows) : x.role = p.role /\ (Custom(x) <=> Custom(p))
  BY <1>1, GroupsHave DEF LookupWell
<1>3. ASSUME NEW k \in DOMAIN ps PROVE \E i \in DOMAIN rows : k \in mine(i)
  <2>1. PICK x \in ToSet(rows) : x.role = ps[k].role /\ (Custom(x) <=> Custom(ps[k]))
    BY <1>2 DEF ToSet
  <2>2. PICK i \in DOMAIN rows : x = rows[i]
    BY DEF ToSet
  <2>3. QED
    BY <1>1, <2>1, <2>2
<1>4. \A i : RowStatus(g, i) = "ready" <=> all(i) \cap Bad = {}
  BY DEF RowStatus
<1>5. ToSet(s.requirements) = {s.requirements[i] : i \in DOMAIN rows}
      /\ ToSet(s.policies) = {s.policies[k] : k \in DOMAIN ps}
  BY <1>1 DEF ToSet
<1>6. \A i : Custom(rows[i]) \in BOOLEAN
  BY DEF Custom
<1>7. \A i, k : k \in mine(i) => k \in DOMAIN ps /\ (Custom(ps[k]) <=> Custom(rows[i]))
  BY <1>1
<1>8. \A B : RowStatuses(g, B) \subseteq {"ready"}
               <=> \A i \in DOMAIN rows : Custom(rows[i]) \in B => all(i) \cap Bad = {}
  BY <1>4, Zenon DEF RowStatuses
<1>9. StatusesOf(g) = {s.requirements[i] : i \in DOMAIN rows} \cup {s.policies[k] : k \in DOMAIN ps}
  BY <1>5 DEF StatusesOf
<1>10. GroupStatus(g) = "ready" <=> StatusesOf(g) \cap Bad = {}
  BY DEF GroupStatus
<1> DEFINE checks == {s.requirements[i] : i \in {k \in DOMAIN rows : Custom(rows[k])}}
                     \cup {s.policies[i] : i \in {k \in DOMAIN ps : Custom(ps[k])}}
<1>11. RequestStatus(g) \in {"ready", "not-required"} <=> checks \cap Bad = {}
  <2>1. RequestStatus(g) = IF checks = {} THEN "not-required"
                           ELSE IF "unavailable" \in checks THEN "unavailable"
                           ELSE IF "missing" \in checks THEN "missing" ELSE "ready"
    BY <1>1 DEF RequestStatus
  <2> HIDE DEF checks
  <2>2. QED
    BY <2>1
<1> HIDE DEF s, rows, ps, mine
<1>12. GroupStatus(g) = "ready" <=> RowStatuses(g, BOOLEAN) \subseteq {"ready"}
  <2>1. ASSUME StatusesOf(g) \cap Bad = {}, NEW i \in DOMAIN rows PROVE all(i) \cap Bad = {}
    BY <1>7, <1>9, <2>1
  <2>2. ASSUME \A i \in DOMAIN rows : all(i) \cap Bad = {} PROVE StatusesOf(g) \cap Bad = {}
    BY <1>3, <1>9, <2>2
  <2>3. QED
    BY <1>6, <1>8, <1>10, <2>1, <2>2, Zenon
<1>13. RequestStatus(g) \in {"ready", "not-required"} <=> RowStatuses(g, {TRUE}) \subseteq {"ready"}
  <2>1. ASSUME checks \cap Bad = {}, NEW i \in DOMAIN rows, Custom(rows[i])
        PROVE  all(i) \cap Bad = {}
    BY <1>7, <2>1
  <2>2. ASSUME \A i \in DOMAIN rows : Custom(rows[i]) => all(i) \cap Bad = {}
        PROVE  checks \cap Bad = {}
    BY <1>3, <1>7, <2>2
  <2>3. \A i : Custom(rows[i]) \in {TRUE} <=> Custom(rows[i])
    BY <1>6, Zenon
  <2>4. QED
    BY <1>8, <1>11, <2>1, <2>2, <2>3, Zenon
<1>14. QED
  BY <1>12, <1>13

\* "MCP Hub verified your membership and this server's managed token-exchange
\* setup" is true of each membership and each policy of the server's own access,
\* whichever requests and loads it takes, and whatever is changed meanwhile
\* (McpAccessRequestSection.tsx, POST /api/mcp-servers/[mcpKeyName]/access).
THEOREM PageApprovedWasVerified == PageSpec => []ApprovedWasVerified
<1>1. LookupWell /\ PageWell => ApprovedWasVerified
  BY ReadyWasVerified DEF ApprovedWasVerified, Approved, PageWell
<1>2. PageInit => LookupWell /\ PageWell
  BY InitLookup, InitPage
<1>3. LookupWell /\ PageWell /\ [PageNext]_pageVars => LookupWell' /\ PageWell'
  BY LookupKept, PageKeeps
<1>4. QED
  BY <1>1, <1>2, <1>3, PTL DEF PageSpec

\* No status that counts for a tool is left out of the tables of its dialog,
\* whatever settings the server has (PermissionReadinessSection.tsx,
\* PermissionRequestDialog.tsx).
THEOREM PageNothingHidden == PageSpec => []NothingHidden
<1>1. LookupWell /\ PageWell => NothingHidden
  BY NoneHidden
<1>2. PageInit => LookupWell /\ PageWell
  BY InitLookup, InitPage
<1>3. LookupWell /\ PageWell /\ [PageNext]_pageVars => LookupWell' /\ PageWell'
  BY LookupKept, PageKeeps
<1>4. QED
  BY <1>1, <1>2, <1>3, PTL DEF PageSpec

\* What a call is read with: fields of it and of its read.
IsCall(call) ==
  /\ DOMAIN call = DOMAIN NoCall
  /\ DOMAIN call.read = DOMAIN NoRead

\* A read has begun by the time t and, once it has anything, it has read that
\* no earlier than it began; only a call that waits for a read has one.
IsReading(call, t) ==
  /\ call.read.from \in Nat /\ call.read.at \in Nat
  /\ call.read.from <= t
  /\ call.read.listed # None \/ call.read.deployments # None =>
       call.read.from <= call.read.at
  /\ call.pc \notin {"asking", "discovering"} => call.read = NoRead

CallsWell ==
  /\ DOMAIN calls = Calls
  /\ \A c \in Calls : IsCall(calls[c]) /\ IsReading(calls[c], now)

\* The life of what is cached is counted from before it was read.
CacheWell ==
  /\ DOMAIN cache = Caches
  /\ \A k \in Caches :
       /\ cache[k].expires \in Nat /\ cache[k].readAt \in Nat
       /\ cache[k].expires <= cache[k].readAt + Ttl[k]

IInv == now \in Nat /\ CallsWell /\ CacheWell

-----------------------------------------------------------------------------
LEMMA Lives == \A k \in Caches : Ttl[k] \in Nat
BY RoutingAssumption

LEMMA NoCallWell == ASSUME NEW t \in Nat PROVE IsCall(NoCall) /\ IsReading(NoCall, t)
BY DEF IsCall, IsReading, NoCall, NoRead

\* A call that has ended waits for nothing.
LEMMA EndedWell ==
  ASSUME NEW t \in Nat, NEW status
  PROVE  IsCall(Ended(status)) /\ IsReading(Ended(status), t)
BY DEF IsCall, IsReading, NoCall, NoRead, Ended

\* Without the fields' names it is a long formula for a short fact.
LEMMA Fields ==
  /\ DOMAIN NoCall = {"pc", "id", "tool", "arrived", "read", "route", "scopes",
                      "downstream", "reached", "answer"}
  /\ DOMAIN NoRead = {"from", "at", "listed", "deployments", "services"}
BY DEF NoCall, NoRead

\* Once the route is known, the call waits for a read no more.
LEMMA WithRouteWell ==
  ASSUME NEW t \in Nat, NEW call, IsCall(call), NEW routes
  PROVE  /\ IsCall(WithRoute(call, routes))
         /\ IsReading(WithRoute(call, routes), t)
<1> DEFINE found == [call EXCEPT !.route = routes[call.id], !.read = NoRead]
<1>1. IsCall(found) /\ found.read = NoRead
  BY Fields DEF IsCall, NoRead
<1>2. \A x : IsCall(x) /\ x.read = NoRead => IsReading(x, t)
  BY DEF IsReading, NoRead
<1>3. IsCall(Ended("not-found")) /\ Ended("not-found").read = NoRead
  BY Fields DEF IsCall, Ended, NoCall
<1>4. LET e == [Ended("not-found") EXCEPT !.id = call.id] IN IsCall(e) /\ e.read = NoRead
  BY <1>3, Fields DEF IsCall
<1>5. IsCall(ToCore(found)) /\ ToCore(found).read = NoRead
  BY <1>1, Fields DEF IsCall, ToCore
<1>6. LET e == [found EXCEPT !.pc = "done", !.answer = "refused"]
      IN  IsCall(e) /\ e.read = NoRead
  BY <1>1, Fields DEF IsCall
<1>7. \A x, y : LET e == [found EXCEPT !.pc = "token", !.scopes = x, !.downstream = y]
                IN  IsCall(e) /\ e.read = NoRead
  BY <1>1, Fields DEF IsCall
<1>8. IsCall(WithRoute(call, routes)) /\ WithRoute(call, routes).read = NoRead
  BY <1>4, <1>5, <1>6, <1>7 DEF WithRoute
<1>9. QED
  BY <1>2, <1>8

LEMMA WithUpstreamWell ==
  ASSUME NEW t \in Nat, NEW call, IsCall(call), NEW routes
  PROVE  /\ IsCall(WithUpstream(call, routes))
         /\ IsReading(WithUpstream(call, routes), t)
<1> DEFINE there == [call EXCEPT !.pc = "forwarded", !.read = NoRead,
                                 !.reached = Key(routes[call.id])]
<1>1. IsCall(there) /\ there.read = NoRead
  BY Fields DEF IsCall
<1>2. IsReading(there, t)
  BY <1>1 DEF IsReading, NoRead
<1>3. QED
  BY <1>1, <1>2, EndedWell DEF WithUpstream

-----------------------------------------------------------------------------
(* The invariant *)

LEMMA InitWell == Init => IInv
<1> SUFFICES ASSUME Init PROVE IInv
  OBVIOUS
<1>1. CallsWell
  BY NoCallWell DEF Init, CallsWell
<1>2. CacheWell
  BY Lives DEF Init, CacheWell
<1>3. QED
  BY <1>1, <1>2 DEF Init, IInv

\* A step of one call that leaves the clock and the caches alone.
LEMMA BecomesWell ==
  ASSUME IInv, NEW c \in Calls, NEW call, IsCall(call), IsReading(call, now),
         Becomes(c, call), UNCHANGED now
  PROVE  CallsWell'
BY DEF IInv, CallsWell, Becomes

\* What is filled in from a read that began no later than it read keeps the
\* lives of the caches.
LEMMA FilledWell ==
  ASSUME IInv, NEW k \in Caches, NEW read, read.from \in Nat, read.at \in Nat,
         read.from <= read.at, NEW routes, Filled(k, read, routes)
  PROVE  CacheWell'
BY Lives DEF IInv, CacheWell, Filled

LEMMA CacheKept == ASSUME IInv, UNCHANGED cache PROVE CacheWell'
BY DEF IInv, CacheWell

\* Steps of the clock and the cluster leave calls and caches alone.
LEMMA OthersKeep ==
  ASSUME IInv, now' \in Nat, now <= now', UNCHANGED <<calls, cache>>
  PROVE  IInv'
<1>1. CallsWell'
  BY DEF IInv, CallsWell, IsReading
<1>2. QED
  BY <1>1, CacheKept DEF IInv

LEMMA GatewayKeeps ==
  ASSUME IInv, NEW c \in Calls, GatewayStep(c)
  PROVE  IInv'
<1> DEFINE call == calls[c]
<1>1. IsCall(call) /\ IsReading(call, now) /\ now \in Nat
  BY DEF IInv, CallsWell
<1>2. CASE Arrives(c)
  <2>1. PICK asked \in Asked :
          LET new == [NoCall EXCEPT !.id = asked[1], !.tool = asked[2], !.arrived = now] IN
          Becomes(c, IF cache["gateway"].expires > now
                     THEN WithRoute(new, cache["gateway"].routes)
                     ELSE [new EXCEPT !.pc = "asking", !.read.from = now])
    BY <1>2 DEF Arrives
  <2> DEFINE new == [NoCall EXCEPT !.id = asked[1], !.tool = asked[2], !.arrived = now]
             waits == [new EXCEPT !.pc = "asking", !.read.from = now]
  <2>2. IsCall(new) /\ new.read = NoRead
    BY Fields DEF IsCall, NoCall
  <2>3. IsCall(waits) /\ IsReading(waits, now)
    BY <1>1, <2>2, Fields DEF IsCall, IsReading, NoRead
  <2>4. IsCall(WithRoute(new, cache["gateway"].routes))
        /\ IsReading(WithRoute(new, cache["gateway"].routes), now)
    BY <1>1, <2>2, WithRouteWell
  <2>5. UNCHANGED <<now, cache>>
    BY <1>2 DEF Arrives
  <2>6. CallsWell'
    BY <2>1, <2>3, <2>4, <2>5, BecomesWell
  <2>7. QED
    BY <1>1, <2>5, <2>6, CacheKept DEF IInv
<1>3. CASE HubReads(c)
  <2>1. PICK routes :
          Becomes(c, [call EXCEPT !.read.listed = routes, !.read.at = now])
    BY <1>3 DEF HubReads
  <2> DEFINE read == [call EXCEPT !.read.listed = routes, !.read.at = now]
  <2>2. call.pc = "asking" /\ UNCHANGED <<now, cache>>
    BY <1>3 DEF HubReads
  <2>3. IsCall(read) /\ IsReading(read, now)
    BY <1>1, <2>2, Fields, Zenon DEF IsCall, IsReading
  <2>4. CallsWell'
    BY <2>1, <2>2, <2>3, BecomesWell
  <2>5. QED
    BY <1>1, <2>2, <2>4, CacheKept DEF IInv
<1>4. CASE HubAnswers(c)
  <2>1. UNCHANGED now
    BY <1>4 DEF HubAnswers
  <2>2. CallsWell'
    <3>1. IsCall(WithRoute(call, call.read.listed))
          /\ IsReading(WithRoute(call, call.read.listed), now)
      BY <1>1, WithRouteWell
    <3>2. IsCall(Ended("refused")) /\ IsReading(Ended("refused"), now)
      BY <1>1, EndedWell
    <3>3. Becomes(c, WithRoute(call, call.read.listed)) \/ Becomes(c, Ended("refused"))
      BY <1>4 DEF HubAnswers
    <3>4. QED
      BY <2>1, <3>1, <3>2, <3>3, BecomesWell
  <2>3. CacheWell'
    <3>1. call.read.from \in Nat /\ call.read.at \in Nat /\ call.read.from <= call.read.at
      BY <1>1, <1>4 DEF HubAnswers, IsReading
    <3>2. "gateway" \in Caches
      BY DEF Caches
    <3>3. Filled("gateway", call.read, call.read.listed) \/ UNCHANGED cache
      BY <1>4 DEF HubAnswers
    <3>4. QED
      BY <3>1, <3>2, <3>3, FilledWell, CacheKept
  <2>4. QED
    BY <1>1, <2>1, <2>2, <2>3 DEF IInv
<1>5. CASE AskingFails(c) \/ TokenRefused(c)
  <2>1. Becomes(c, Ended("refused")) /\ UNCHANGED <<now, cache>>
    BY <1>5 DEF AskingFails, TokenRefused
  <2>2. CallsWell'
    BY <1>1, <2>1, EndedWell, BecomesWell
  <2>3. QED
    BY <1>1, <2>1, <2>2, CacheKept DEF IInv
<1>6. CASE TokenIssued(c)
  <2>1. Becomes(c, ToCore(call)) /\ UNCHANGED <<now, cache>> /\ call.pc = "token"
    BY <1>6 DEF TokenIssued
  <2>2. IsCall(ToCore(call)) /\ IsReading(ToCore(call), now)
    BY <1>1, <2>1, Fields DEF IsCall, IsReading, ToCore
  <2>3. CallsWell'
    BY <2>1, <2>2, BecomesWell
  <2>4. QED
    BY <1>1, <2>1, <2>3, CacheKept DEF IInv
<1>7. QED
  BY <1>2, <1>3, <1>4, <1>5, <1>6 DEF GatewayStep

LEMMA CoreKeeps ==
  ASSUME IInv, NEW c \in Calls, CoreStep(c)
  PROVE  IInv'
<1> DEFINE call == calls[c]
<1>1. IsCall(call) /\ IsReading(call, now) /\ now \in Nat
  BY DEF IInv, CallsWell
<1>2. CASE CoreReceives(c)
  <2> DEFINE waits == [call EXCEPT !.pc = "discovering", !.read.from = now]
  <2>1. UNCHANGED <<now, cache>> /\ call.pc = "sent"
    BY <1>2 DEF CoreReceives
  <2>2. Becomes(c, WithUpstream(call, cache["core"].routes)) \/ Becomes(c, waits)
    BY <1>2 DEF CoreReceives
  <2>3. IsCall(waits) /\ IsReading(waits, now)
    BY <1>1, <2>1, Fields DEF IsCall, IsReading, NoRead
  <2>4. CallsWell'
    BY <1>1, <2>1, <2>2, <2>3, WithUpstreamWell, BecomesWell
  <2>5. QED
    BY <1>1, <2>1, <2>4, CacheKept DEF IInv
<1>3. CASE CoreReadsDeployments(c)
  <2> DEFINE read == [call EXCEPT !.read.deployments = deployments, !.read.at = now]
  <2>1. Becomes(c, read) /\ UNCHANGED <<now, cache>> /\ call.pc = "discovering"
    BY <1>3 DEF CoreReadsDeployments
  <2>2. IsCall(read) /\ IsReading(read, now)
    BY <1>1, <2>1, Fields, Zenon DEF IsCall, IsReading
  <2>3. CallsWell'
    BY <2>1, <2>2, BecomesWell
  <2>4. QED
    BY <1>1, <2>1, <2>3, CacheKept DEF IInv
<1>4. CASE CoreReadsServices(c)
  <2> DEFINE read == [call EXCEPT !.read.services = services]
  <2>1. Becomes(c, read) /\ UNCHANGED <<now, cache>> /\ call.pc = "discovering"
    BY <1>4 DEF CoreReadsServices
  <2>2. IsCall(read) /\ IsReading(read, now)
    BY <1>1, <2>1, Fields DEF IsCall, IsReading
  <2>3. CallsWell'
    BY <2>1, <2>2, BecomesWell
  <2>4. QED
    BY <1>1, <2>1, <2>3, CacheKept DEF IInv
<1>5. CASE CoreDiscovered(c)
  <2> DEFINE routes == CoreRoutes(call.read.deployments, call.read.services)
  <2>1. UNCHANGED now
    BY <1>5 DEF CoreDiscovered
  <2>2. CallsWell'
    <3>1. Becomes(c, WithUpstream(call, routes)) \/ Becomes(c, Ended("refused"))
      BY <1>5 DEF CoreDiscovered
    <3>2. QED
      BY <1>1, <2>1, <3>1, WithUpstreamWell, EndedWell, BecomesWell
  <2>3. CacheWell'
    <3>1. call.read.from \in Nat /\ call.read.at \in Nat /\ call.read.from <= call.read.at
      BY <1>1, <1>5 DEF CoreDiscovered, IsReading
    <3>2. "core" \in Caches
      BY DEF Caches
    <3>3. Filled("core", call.read, routes) \/ UNCHANGED cache
      BY <1>5 DEF CoreDiscovered
    <3>4. QED
      BY <3>1, <3>2, <3>3, FilledWell, CacheKept
  <2>4. QED
    BY <1>1, <2>1, <2>2, <2>3 DEF IInv
<1>6. CASE CoreFails(c) \/ ServerAnswers(c)
  <2>1. (Becomes(c, Ended("refused")) \/ Becomes(c, Ended("answered"))) /\ UNCHANGED <<now, cache>>
    BY <1>6 DEF CoreFails, ServerAnswers
  <2>2. CallsWell'
    BY <1>1, <2>1, EndedWell, BecomesWell
  <2>3. QED
    BY <1>1, <2>1, <2>2, CacheKept DEF IInv
<1>7. QED
  BY <1>2, <1>3, <1>4, <1>5, <1>6 DEF CoreStep

LEMMA StepKeeps == IInv /\ [Next]_vars => IInv'
<1> SUFFICES ASSUME IInv, [Next]_vars PROVE IInv'
  OBVIOUS
<1>1. now \in Nat
  BY DEF IInv
<1>2. CASE Tick
  BY <1>1, <1>2, OthersKeep DEF Tick
<1>3. CASE DeploymentApplied \/ DeploymentDeleted \/ ServiceChanges
  <2>1. UNCHANGED <<now, cache, calls>>
    BY <1>3, Zenon DEF DeploymentApplied, DeploymentDeleted, ServiceChanges, Cluster
  <2>2. QED
    BY <1>1, <2>1, OthersKeep
<1>4. CASE \E c \in Calls : GatewayStep(c) \/ CoreStep(c)
  BY <1>4, GatewayKeeps, CoreKeeps
<1>5. CASE UNCHANGED vars
  BY <1>1, <1>5, OthersKeep DEF vars
<1>6. QED
  BY <1>2, <1>3, <1>4, <1>5 DEF Next

\* The lives of cached routes and of the reads on their way, in every state.
THEOREM Inductive == Spec => []IInv
BY InitWell, StepKeeps, PTL DEF Spec

\* getRoutes of the Gateway and of the Core MCP Proxy: a route in use was read
\* within the life of its cache, however slow the read and however many of them
\* overlap, whatever becomes of the cluster.
THEOREM RoutesAreFresh == Spec => []Fresh
<1>1. IInv => Fresh
  <2> SUFFICES ASSUME IInv, NEW k \in Caches, cache[k].expires > now
               PROVE  now < cache[k].readAt + Ttl[k]
    BY DEF Fresh
  <2>1. /\ now \in Nat /\ Ttl[k] \in Nat
        /\ cache[k].expires \in Nat /\ cache[k].readAt \in Nat
        /\ cache[k].expires <= cache[k].readAt + Ttl[k]
    BY Lives DEF IInv, CacheWell
  <2>2. QED
    BY <2>1
<1>2. QED
  BY Inductive, <1>1, PTL

-----------------------------------------------------------------------------
(* Who a call is meant for.  What was read at some time is true of the       *)
(* cluster, or the owner of the id has changed since, and then the history   *)
(* dates the change no earlier than the read.                                *)

ChangedSince(st, id, at) == at + LongestTtl <= st[id]

\* Of the cluster's Deployments ds and the history st: what the Gateway's
\* routes, those of the Core MCP Proxy and the Deployments it has read say.
GatewayKnows(ds, st, routes, at) ==
  \A id \in Ids : id \in DOMAIN routes =>
     Owners(ds, id) = {Key(routes[id])} \/ ChangedSince(st, id, at)
CoreKnows(ds, st, routes, at) ==
  \A id \in Ids : id \in DOMAIN routes =>
     Key(routes[id]) \in Owners(ds, id) \/ ChangedSince(st, id, at)
ReadKnows(ds, st, seen, at) ==
  /\ seen \subseteq Descriptions
  /\ \A id \in Ids : Owners(seen, id) = Owners(ds, id) \/ ChangedSince(st, id, at)

ClusterWell ==
  /\ deployments \subseteq Descriptions
  /\ settles \in [Ids -> Nat]
  /\ \A id \in Ids : settles[id] <= now + LongestTtl

CacheKnows ==
  /\ \A k \in Caches : cache[k].readAt <= now
  /\ GatewayKnows(deployments, settles, cache["gateway"].routes, cache["gateway"].readAt)
  /\ CoreKnows(deployments, settles, cache["core"].routes, cache["core"].readAt)

\* The server that a call was given by the Gateway, and the one it has reached.
Meant(ds, st, call) ==
  Owners(ds, call.id) = {Key(call.route)} \/ call.arrived < st[call.id]
Right(st, call) == call.reached = Key(call.route) \/ call.arrived < st[call.id]

\* A call at the time t.
Knows(ds, st, t, call) ==
  /\ call.arrived \in Nat /\ call.arrived <= t /\ call.read.at <= t
  /\ call.pc \in {"asking", "token", "sent", "discovering", "forwarded"} => call.id \in Ids
  /\ call.pc \in {"asking", "discovering"} => call.arrived <= call.read.from
  /\ call.pc = "asking" /\ call.read.listed # None =>
       GatewayKnows(ds, st, call.read.listed, call.read.at)
  /\ call.pc \in {"token", "sent", "discovering"} => Meant(ds, st, call)
  /\ call.pc = "discovering" /\ call.read.deployments # None =>
       ReadKnows(ds, st, call.read.deployments, call.read.at)
  /\ call.reached # None => call.pc = "forwarded" /\ Right(st, call)

CallsKnow == \A c \in Calls : Knows(deployments, settles, now, calls[c])
OwnersKnown == ClusterWell /\ CacheKnows /\ CallsKnow

LEMMA LongestLife ==
  /\ LongestTtl \in Nat
  /\ \A k \in Caches : Ttl[k] \in Nat /\ 1 <= Ttl[k] /\ Ttl[k] <= LongestTtl
BY RoutingAssumption DEF LongestTtl, Caches

LEMMA IdsAre == \A d \in Descriptions : RouteId(d) \in Ids
BY DEF Ids

\* The Hub's list is of one Deployment for an id: its owner.
LEMMA RegistryKnows ==
  ASSUME ClusterWell, NEW at
  PROVE  GatewayKnows(deployments, settles, Registry(deployments), at)
<1> SUFFICES ASSUME NEW id \in Ids, id \in DOMAIN Registry(deployments)
             PROVE  Owners(deployments, id) = {Key(Registry(deployments)[id])}
  BY DEF GatewayKnows
<1> DEFINE mine == {d \in Listed(deployments) : RouteId(d) = id}
<1>1. /\ DistinctIds(Listed(deployments))
      /\ id \in {RouteId(d) : d \in Listed(deployments)}
      /\ Registry(deployments)[id] = LastOf(mine)
  BY DEF Registry, ListingFails
<1>2. PICK d \in Listed(deployments) : RouteId(d) = id
  BY <1>1
<1>3. mine = {d}
  BY <1>1, <1>2 DEF DistinctIds
<1>4. d.order \in Nat
  BY <1>2, RoutingAssumption DEF ClusterWell, Listed
<1>5. LastOf({d}) = d
  BY <1>4 DEF LastOf
<1>6. {e \in deployments : RouteId(e) = id /\ e.project # None} = mine
  BY <1>2 DEF Listed, RouteIdValid
<1>7. Owners(deployments, id) = {Key(d)}
  BY <1>3, <1>6 DEF Owners
<1>8. QED
  BY <1>1, <1>3, <1>5, <1>7

\* A route of the Core MCP Proxy is to an owner of its id, of those it has read.
LEMMA CoreRoutesKnow ==
  ASSUME ClusterWell, NEW ds, NEW ss, NEW at, ReadKnows(deployments, settles, ds, at),
         DistinctIds(Routable(ds, ss))
  PROVE  CoreKnows(deployments, settles, CoreRoutes(ds, ss), at)
<1> SUFFICES ASSUME NEW id \in Ids, id \in DOMAIN CoreRoutes(ds, ss)
             PROVE  Key(CoreRoutes(ds, ss)[id]) \in Owners(ds, id)
  BY DEF CoreKnows, ReadKnows
<1> DEFINE mine == {d \in Routable(ds, ss) : RouteId(d) = id}
<1>1. /\ id \in {RouteId(d) : d \in Routable(ds, ss)}
      /\ CoreRoutes(ds, ss)[id] = FirstOf(mine)
  BY DEF CoreRoutes
<1>2. PICK d \in Routable(ds, ss) : RouteId(d) = id
  BY <1>1
<1>3. mine = {d}
  BY <1>2 DEF DistinctIds
<1>4. d.order \in Nat
  BY <1>2, RoutingAssumption DEF ReadKnows, Routable
<1>5. FirstOf({d}) = d
  BY <1>4 DEF FirstOf
<1>6. Key(d) \in Owners(ds, id)
  BY <1>2 DEF Owners, Routable
<1>7. QED
  BY <1>1, <1>3, <1>5, <1>6

-----------------------------------------------------------------------------
LEMMA NothingKnown ==
  ASSUME NEW ds, NEW st, NEW at
  PROVE  GatewayKnows(ds, st, << >>, at) /\ CoreKnows(ds, st, << >>, at)
BY DEF GatewayKnows, CoreKnows

LEMMA EndedKnows ==
  ASSUME NEW ds, NEW st, NEW t \in Nat, NEW status
  PROVE  Knows(ds, st, t, Ended(status))
BY DEF Knows, Ended, NoCall, NoRead

LEMMA InitKnows == Init => OwnersKnown
<1> SUFFICES ASSUME Init PROVE OwnersKnown
  OBVIOUS
<1>1. ClusterWell
  BY RoutingAssumption, LongestLife DEF Init, ClusterWell
<1>2. CacheKnows
  BY NothingKnown DEF Init, CacheKnows, Caches
<1>3. CallsKnow
  BY DEF Init, CallsKnow, Knows, NoCall, NoRead
<1>4. QED
  BY <1>1, <1>2, <1>3 DEF OwnersKnown

\* A step of one call leaves the others as they are, and the cluster.
LEMMA BecomesKnows ==
  ASSUME IInv, OwnersKnown, NEW c \in Calls, NEW call,
         Knows(deployments, settles, now, call), Becomes(c, call),
         UNCHANGED <<cluster, now>>
  PROVE  ClusterWell' /\ CallsKnow'
<1>1. UNCHANGED <<deployments, settles, now>>
  BY DEF cluster
<1>2. \A b \in Calls : calls'[b] = IF b = c THEN call ELSE calls[b]
  BY DEF Becomes, IInv, CallsWell
<1>3. QED
  BY <1>1, <1>2 DEF OwnersKnown, ClusterWell, CallsKnow

LEMMA CachesKnow ==
  ASSUME OwnersKnown, UNCHANGED <<cluster, now, cache>>
  PROVE  CacheKnows'
<1>1. UNCHANGED <<deployments, settles, now, cache>>
  BY DEF cluster
<1>2. QED
  BY <1>1 DEF OwnersKnown, CacheKnows

\* The cluster changes, or time passes: what was known is known, or the history
\* dates the change no earlier than the read.
LEMMA KnownLonger ==
  ASSUME NEW ds, NEW st \in [Ids -> Nat], NEW t \in Nat,
         \A id \in Ids : st[id] <= t + LongestTtl,
         NEW es, NEW su \in [Ids -> Nat], NEW u \in Nat, t <= u,
         \A id \in Ids : IF Owners(es, id) = Owners(ds, id) THEN su[id] = st[id]
                         ELSE su[id] = t + LongestTtl
  PROVE  /\ \A id \in Ids : st[id] <= su[id] /\ su[id] <= u + LongestTtl
         /\ \A routes : \A at \in Nat : at <= t =>
              /\ GatewayKnows(ds, st, routes, at) => GatewayKnows(es, su, routes, at)
              /\ CoreKnows(ds, st, routes, at) => CoreKnows(es, su, routes, at)
              /\ ReadKnows(ds, st, routes, at) => ReadKnows(es, su, routes, at)
         /\ \A call : call.read.at \in Nat /\ Knows(ds, st, t, call) => Knows(es, su, u, call)
<1> DEFINE L == LongestTtl
<1>0. L \in Nat /\ 1 <= L
  BY LongestLife, RoutingAssumption DEF Caches, LongestTtl
<1> HIDE DEF L
<1>1. \A id \in Ids : /\ st[id] \in Nat /\ su[id] \in Nat
                      /\ st[id] <= su[id] /\ su[id] <= u + LongestTtl
  BY <1>0 DEF L
<1>2. \A id \in Ids : Owners(es, id) = Owners(ds, id) \/ su[id] = t + LongestTtl
  OBVIOUS
<1>3. ASSUME NEW routes, NEW at \in Nat, at <= t
      PROVE  /\ GatewayKnows(ds, st, routes, at) => GatewayKnows(es, su, routes, at)
             /\ CoreKnows(ds, st, routes, at) => CoreKnows(es, su, routes, at)
             /\ ReadKnows(ds, st, routes, at) => ReadKnows(es, su, routes, at)
  <2>1. \A id \in Ids : /\ ChangedSince(st, id, at) => ChangedSince(su, id, at)
                        /\ ChangedSince(su, id, at) \/ Owners(es, id) = Owners(ds, id)
    BY <1>0, <1>1, <1>2, <1>3 DEF ChangedSince, L
  <2>2. GatewayKnows(ds, st, routes, at) => GatewayKnows(es, su, routes, at)
    BY <2>1 DEF GatewayKnows
  <2>3. CoreKnows(ds, st, routes, at) => CoreKnows(es, su, routes, at)
    BY <2>1 DEF CoreKnows
  <2>4. ReadKnows(ds, st, routes, at) => ReadKnows(es, su, routes, at)
    BY <2>1 DEF ReadKnows
  <2>5. QED
    BY <2>2, <2>3, <2>4
<1>4. ASSUME NEW call, call.read.at \in Nat, Knows(ds, st, t, call)
      PROVE  Knows(es, su, u, call)
  <2>1. call.arrived \in Nat /\ call.arrived <= t /\ call.read.at <= t
    BY <1>4 DEF Knows
  <2>2. \A id \in Ids : call.arrived < st[id] => call.arrived < su[id]
    BY <1>1, <2>1
  <2>3. call.id \in Ids /\ Meant(ds, st, call) => Meant(es, su, call)
    <3>1. \A id \in Ids : Owners(es, id) = Owners(ds, id) \/ call.arrived < su[id]
      BY <1>0, <1>2, <2>1 DEF L
    <3>2. QED
      BY <2>2, <3>1 DEF Meant
  <2>4. call.id \in Ids /\ Right(st, call) => Right(su, call)
    BY <2>2 DEF Right
  <2>5. call.arrived <= u /\ call.read.at <= u
    BY <1>4, <2>1
  <2>6. call.pc = "asking" /\ call.read.listed # None =>
          GatewayKnows(es, su, call.read.listed, call.read.at)
    BY <1>3, <1>4, <2>1 DEF Knows
  <2>7. call.pc = "discovering" /\ call.read.deployments # None =>
          ReadKnows(es, su, call.read.deployments, call.read.at)
    BY <1>3, <1>4, <2>1 DEF Knows
  <2>8. QED
    BY <1>4, <2>1, <2>3, <2>4, <2>5, <2>6, <2>7 DEF Knows
<1>5. QED
  BY <1>1, <1>3, <1>4

\* Steps of the clock and the cluster leave calls and caches alone.
LEMMA OthersKnow ==
  ASSUME IInv, OwnersKnown, deployments' \subseteq Descriptions,
         now' \in Nat, now <= now', UNCHANGED <<cache, calls>>, settles' \in [Ids -> Nat],
         \A id \in Ids : IF Owners(deployments', id) = Owners(deployments, id)
                         THEN settles'[id] = settles[id]
                         ELSE settles'[id] = now + LongestTtl
  PROVE  OwnersKnown'
<1>1. /\ settles \in [Ids -> Nat] /\ now \in Nat
      /\ \A id \in Ids : settles[id] <= now + LongestTtl
  BY DEF IInv, OwnersKnown, ClusterWell
<1>2. /\ \A id \in Ids : settles'[id] <= now' + LongestTtl
      /\ \A routes : \A at \in Nat : at <= now =>
           /\ GatewayKnows(deployments, settles, routes, at) =>
                GatewayKnows(deployments', settles', routes, at)
           /\ CoreKnows(deployments, settles, routes, at) =>
                CoreKnows(deployments', settles', routes, at)
      /\ \A call : call.read.at \in Nat /\ Knows(deployments, settles, now, call) =>
           Knows(deployments', settles', now', call)
  <2>1. PICK ds, st, t, es, su, u :
           /\ ds = deployments /\ st = settles /\ t = now
           /\ es = deployments' /\ su = settles' /\ u = now'
    OBVIOUS
  <2>2. /\ st \in [Ids -> Nat] /\ t \in Nat /\ su \in [Ids -> Nat] /\ u \in Nat /\ t <= u
        /\ \A id \in Ids : st[id] <= t + LongestTtl
        /\ \A id \in Ids : IF Owners(es, id) = Owners(ds, id) THEN su[id] = st[id]
                           ELSE su[id] = t + LongestTtl
    BY <1>1, <2>1
  <2>3. /\ \A id \in Ids : st[id] <= su[id] /\ su[id] <= u + LongestTtl
        /\ \A routes : \A at \in Nat : at <= t =>
             /\ GatewayKnows(ds, st, routes, at) => GatewayKnows(es, su, routes, at)
             /\ CoreKnows(ds, st, routes, at) => CoreKnows(es, su, routes, at)
             /\ ReadKnows(ds, st, routes, at) => ReadKnows(es, su, routes, at)
        /\ \A call : call.read.at \in Nat /\ Knows(ds, st, t, call) => Knows(es, su, u, call)
    BY <2>2, KnownLonger, Zenon
  <2>4. QED
    BY <2>1, <2>3
<1>3. ClusterWell'
  BY <1>2 DEF ClusterWell
<1>4. CacheKnows'
  <2>1. \A k \in Caches : cache[k].readAt \in Nat /\ cache[k].readAt <= now
    BY DEF IInv, CacheWell, OwnersKnown, CacheKnows
  <2>2. \A k \in Caches : cache[k].readAt <= now'
    BY <1>1, <2>1
  <2>3. "gateway" \in Caches /\ "core" \in Caches
    BY DEF Caches
  <2>4. GatewayKnows(deployments', settles', cache["gateway"].routes, cache["gateway"].readAt)
    BY <1>2, <2>1, <2>3 DEF OwnersKnown, CacheKnows
  <2>5. CoreKnows(deployments', settles', cache["core"].routes, cache["core"].readAt)
    BY <1>2, <2>1, <2>3 DEF OwnersKnown, CacheKnows
  <2>6. QED
    BY <2>2, <2>4, <2>5 DEF CacheKnows
<1>5. CallsKnow'
  <2>1. \A c \in Calls : calls[c].read.at \in Nat
    BY DEF IInv, CallsWell, IsReading
  <2>2. QED
    BY <1>2, <2>1 DEF OwnersKnown, CallsKnow
<1>6. QED
  BY <1>3, <1>4, <1>5 DEF OwnersKnown

LEMMA ClusterKnows ==
  ASSUME IInv, OwnersKnown, NEW ds, ds \subseteq Descriptions, Cluster(ds)
  PROVE  OwnersKnown'
<1> DEFINE L == LongestTtl
<1>0. L \in Nat
  BY LongestLife
<1> HIDE DEF L
<1>1. settles \in [Ids -> Nat] /\ now \in Nat
  BY DEF IInv, OwnersKnown, ClusterWell
<1>2. deployments' = ds /\ UNCHANGED <<now, cache, calls>>
  BY DEF Cluster
<1>3. settles' = [id \in Ids |-> IF Owners(ds, id) = Owners(deployments, id)
                                 THEN settles[id] ELSE now + L]
  BY DEF Cluster, L
<1>4. settles' \in [Ids -> Nat]
  BY <1>0, <1>1, <1>3
<1>5. \A id \in Ids : IF Owners(deployments', id) = Owners(deployments, id)
                      THEN settles'[id] = settles[id]
                      ELSE settles'[id] = now + LongestTtl
  BY <1>2, <1>3 DEF L
<1>6. QED
  BY <1>1, <1>2, <1>4, <1>5, OthersKnow

-----------------------------------------------------------------------------
(* The steps of calls *)

\* With routes that were read when the call had not arrived or later, or within
\* the life of a cache that was in use when it arrived, the Gateway knows whom
\* the call is for.
LEMMA WithRouteKnows ==
  ASSUME NEW ds, NEW st \in [Ids -> Nat], NEW t \in Nat, NEW call, IsCall(call),
         call.arrived \in Nat, call.arrived <= t, call.id \in Ids, call.reached = None,
         NEW routes, NEW at \in Nat, GatewayKnows(ds, st, routes, at),
         call.arrived < at + LongestTtl
  PROVE  Knows(ds, st, t, WithRoute(call, routes))
<1> DEFINE found == [call EXCEPT !.route = routes[call.id], !.read = NoRead]
           lost == [Ended("not-found") EXCEPT !.id = call.id]
           refused == [found EXCEPT !.pc = "done", !.answer = "refused"]
           asks(x, y) == [found EXCEPT !.pc = "token", !.scopes = x, !.downstream = y]
           same(x) == /\ x.id = call.id /\ x.arrived = call.arrived /\ x.read = NoRead
                      /\ x.reached = None
<1>0. LongestTtl \in Nat
  BY LongestLife
<1>1. same(found) /\ found.route = routes[call.id] /\ IsCall(found)
  BY Fields DEF IsCall
<1> HIDE DEF found
<1>2. call.id \in DOMAIN routes => Meant(ds, st, found)
  <2>1. ASSUME call.id \in DOMAIN routes PROVE Meant(ds, st, found)
    <3>1. CASE ChangedSince(st, call.id, at)
      <4>1. st[call.id] \in Nat
        OBVIOUS
      <4>2. call.arrived < st[call.id]
        BY <1>0, <3>1, <4>1 DEF ChangedSince
      <4>3. QED
        BY <1>1, <4>2 DEF Meant
    <3>2. CASE Owners(ds, call.id) = {Key(routes[call.id])}
      BY <1>1, <3>2 DEF Meant
    <3>3. QED
      BY <2>1, <3>1, <3>2 DEF GatewayKnows
  <2>2. QED
    BY <2>1
<1>3. NoRead.at = 0
  BY DEF NoRead
<1>4. Knows(ds, st, t, lost)
  BY DEF Knows, Ended, NoCall, NoRead
<1>5. Knows(ds, st, t, refused)
  <2>1. same(refused) /\ refused.pc = "done"
    BY <1>1, Fields DEF IsCall
  <2>2. QED
    BY <1>3, <2>1 DEF Knows
<1>6. call.id \in DOMAIN routes => Knows(ds, st, t, ToCore(found))
  <2>1. /\ same(ToCore(found)) /\ ToCore(found).pc = "sent"
        /\ ToCore(found).route = found.route
    BY <1>1, Fields DEF IsCall, ToCore
  <2>2. call.id \in DOMAIN routes => Meant(ds, st, ToCore(found))
    BY <1>1, <1>2, <2>1 DEF Meant
  <2>3. QED
    BY <1>3, <2>1, <2>2 DEF Knows
<1>7. \A x, y : call.id \in DOMAIN routes => Knows(ds, st, t, asks(x, y))
  <2>1. TAKE x, y
  <2>2. /\ same(asks(x, y)) /\ asks(x, y).pc = "token"
        /\ asks(x, y).route = found.route
    BY <1>1, Fields DEF IsCall
  <2>3. call.id \in DOMAIN routes => Meant(ds, st, asks(x, y))
    BY <1>1, <1>2, <2>2 DEF Meant
  <2>4. QED
    BY <1>3, <2>2, <2>3 DEF Knows
<1>8. QED
  BY <1>4, <1>5, <1>6, <1>7 DEF WithRoute, found

\* A call that the Gateway knows whom it is for reaches it, or the owner of its
\* id has changed since what the routes are from.
LEMMA WithUpstreamKnows ==
  ASSUME NEW ds, NEW st \in [Ids -> Nat], NEW t \in Nat, NEW call, IsCall(call),
         call.arrived \in Nat, call.arrived <= t, call.id \in Ids, Meant(ds, st, call),
         NEW routes, NEW at \in Nat, CoreKnows(ds, st, routes, at),
         call.arrived < at + LongestTtl
  PROVE  Knows(ds, st, t, WithUpstream(call, routes))
<1> DEFINE there == [call EXCEPT !.pc = "forwarded", !.read = NoRead,
                                 !.reached = Key(routes[call.id])]
<1>0. LongestTtl \in Nat
  BY LongestLife
<1>1. /\ there.id = call.id /\ there.arrived = call.arrived /\ there.read = NoRead
      /\ there.pc = "forwarded" /\ there.route = call.route
      /\ there.reached = Key(routes[call.id])
  BY Fields DEF IsCall
<1> HIDE DEF there
<1>2. ASSUME call.id \in DOMAIN routes PROVE Right(st, there)
  <2>1. CASE call.arrived < st[call.id]
    BY <1>1, <2>1 DEF Right
  <2>2. CASE ChangedSince(st, call.id, at)
    <3>1. st[call.id] \in Nat
      OBVIOUS
    <3>2. call.arrived < st[call.id]
      BY <1>0, <2>2, <3>1 DEF ChangedSince
    <3>3. QED
      BY <1>1, <3>2 DEF Right
  <2>3. CASE Key(routes[call.id]) \in Owners(ds, call.id)
             /\ Owners(ds, call.id) = {Key(call.route)}
    BY <1>1, <2>3 DEF Right
  <2>4. QED
    BY <1>2, <2>1, <2>2, <2>3 DEF CoreKnows, Meant
<1>3. call.id \in DOMAIN routes => Knows(ds, st, t, there)
  BY <1>1, <1>2 DEF Knows, NoRead
<1>4. QED
  BY <1>3, EndedKnows DEF WithUpstream, there

\* What is filled in keeps the other cache as it is.
LEMMA GatewayFilled ==
  ASSUME IInv, OwnersKnown, NEW read, read.at <= now, NEW routes,
         GatewayKnows(deployments, settles, routes, read.at),
         Filled("gateway", read, routes), UNCHANGED <<cluster, now>>
  PROVE  CacheKnows'
<1>1. UNCHANGED <<deployments, settles, now>>
  BY DEF cluster
<1>2. /\ cache'["gateway"].readAt = read.at /\ cache'["gateway"].routes = routes
      /\ cache'["core"] = cache["core"]
  BY DEF IInv, CacheWell, Filled, Caches
<1>3. QED
  BY <1>1, <1>2 DEF OwnersKnown, CacheKnows, Caches

LEMMA CoreFilled ==
  ASSUME IInv, OwnersKnown, NEW read, read.at <= now, NEW routes,
         CoreKnows(deployments, settles, routes, read.at),
         Filled("core", read, routes), UNCHANGED <<cluster, now>>
  PROVE  CacheKnows'
<1>1. UNCHANGED <<deployments, settles, now>>
  BY DEF cluster
<1>2. /\ cache'["core"].readAt = read.at /\ cache'["core"].routes = routes
      /\ cache'["gateway"] = cache["gateway"]
  BY DEF IInv, CacheWell, Filled, Caches
<1>3. QED
  BY <1>1, <1>2 DEF OwnersKnown, CacheKnows, Caches

\* Routes in use have been read less than the longest life ago.
LEMMA InUse ==
  ASSUME IInv, OwnersKnown, NEW k \in Caches, cache[k].expires > now
  PROVE  cache[k].readAt \in Nat /\ now < cache[k].readAt + LongestTtl
<1>1. /\ now \in Nat /\ cache[k].expires \in Nat /\ cache[k].readAt \in Nat
      /\ cache[k].expires <= cache[k].readAt + Ttl[k]
  BY DEF IInv, CacheWell
<1>2. Ttl[k] \in Nat /\ Ttl[k] <= LongestTtl /\ LongestTtl \in Nat
  BY LongestLife
<1>3. QED
  BY <1>1, <1>2

LEMMA GatewayKeepsKnown ==
  ASSUME IInv, OwnersKnown, NEW c \in Calls, GatewayStep(c)
  PROVE  OwnersKnown'
<1> DEFINE call == calls[c]
           K(x) == Knows(deployments, settles, now, x)
<1>1. /\ IsCall(call) /\ IsReading(call, now) /\ now \in Nat
      /\ settles \in [Ids -> Nat] /\ K(call)
  BY DEF IInv, CallsWell, OwnersKnown, ClusterWell, CallsKnow
<1>2. "gateway" \in Caches /\ LongestTtl \in Nat /\ 1 <= LongestTtl
  BY LongestLife DEF Caches
<1>3. \A x : K(x) /\ Becomes(c, x) /\ UNCHANGED <<cluster, now>> /\ CacheKnows'
               => OwnersKnown'
  BY BecomesKnows DEF OwnersKnown
<1>4. ASSUME Arrives(c) PROVE OwnersKnown'
  <2>1. PICK asked \in Asked :
          LET new == [NoCall EXCEPT !.id = asked[1], !.tool = asked[2], !.arrived = now] IN
          Becomes(c, IF cache["gateway"].expires > now
                     THEN WithRoute(new, cache["gateway"].routes)
                     ELSE [new EXCEPT !.pc = "asking", !.read.from = now])
    BY <1>4 DEF Arrives
  <2> DEFINE new == [NoCall EXCEPT !.id = asked[1], !.tool = asked[2], !.arrived = now]
             waits == [new EXCEPT !.pc = "asking", !.read.from = now]
  <2>2. asked[1] \in Ids
    BY RoutingAssumption
  <2>3. UNCHANGED <<cluster, now, cache>>
    BY <1>4 DEF Arrives
  <2>4. /\ IsCall(new) /\ new.id = asked[1] /\ new.arrived = now /\ new.reached = None
        /\ new.read = NoRead
    BY Fields DEF IsCall, NoCall
  <2>5. K(waits)
    <3>1. /\ waits.id = asked[1] /\ waits.arrived = now /\ waits.reached = None
          /\ waits.pc = "asking" /\ waits.read.from = now
          /\ waits.read.at = 0 /\ waits.read.listed = None
      BY <2>4, Fields DEF IsCall, NoRead
    <3> HIDE DEF new, waits
    <3>2. QED
      BY <1>1, <2>2, <3>1 DEF Knows
  <2> HIDE DEF new
  <2>6. CASE cache["gateway"].expires > now
    <3>1. cache["gateway"].readAt \in Nat /\ now < cache["gateway"].readAt + LongestTtl
      BY <1>2, <2>6, InUse
    <3>2. K(WithRoute(new, cache["gateway"].routes))
      BY <1>1, <2>2, <2>4, <3>1, WithRouteKnows DEF OwnersKnown, CacheKnows
    <3>3. Becomes(c, WithRoute(new, cache["gateway"].routes))
      BY <2>1, <2>6 DEF new
    <3>4. QED
      BY <1>3, <2>3, <3>2, <3>3, CachesKnow
  <2>7. CASE ~(cache["gateway"].expires > now)
    <3>1. Becomes(c, waits)
      BY <2>1, <2>7 DEF new
    <3>2. QED
      BY <1>3, <2>3, <2>5, <3>1, CachesKnow
  <2>8. QED
    BY <2>6, <2>7
<1>5. ASSUME HubReads(c) PROVE OwnersKnown'
  <2>1. PICK routes \in {Registry(deployments)} \cup ReadFailure :
          Becomes(c, [call EXCEPT !.read.listed = routes, !.read.at = now])
    BY <1>5 DEF HubReads
  <2> DEFINE reads == [call EXCEPT !.read.listed = routes, !.read.at = now]
  <2>2. /\ reads.id = call.id /\ reads.arrived = call.arrived /\ reads.pc = call.pc
        /\ reads.reached = call.reached /\ reads.read.from = call.read.from
        /\ reads.read.listed = routes /\ reads.read.at = now
    BY <1>1, Fields, Zenon DEF IsCall
  <2>3. call.pc = "asking" /\ UNCHANGED <<cluster, now, cache>>
    BY <1>5 DEF HubReads
  <2>4. GatewayKnows(deployments, settles, routes, now)
    <3>1. CASE routes = Registry(deployments)
      BY <3>1, RegistryKnows DEF OwnersKnown
    <3>2. CASE routes = << >>
      BY <3>2, NothingKnown
    <3>3. QED
      BY <2>1, <3>1, <3>2 DEF ReadFailure
  <2>5. K(reads)
    <3> HIDE DEF reads
    <3>1. QED
      BY <1>1, <2>2, <2>3, <2>4 DEF Knows
  <2>6. QED
    BY <1>3, <2>1, <2>3, <2>5, CachesKnow
<1>6. ASSUME HubAnswers(c) PROVE OwnersKnown'
  <2>1. call.pc = "asking" /\ call.read.listed # None /\ UNCHANGED <<cluster, now>>
    BY <1>6 DEF HubAnswers
  <2>2. /\ GatewayKnows(deployments, settles, call.read.listed, call.read.at)
        /\ call.arrived \in Nat /\ call.arrived <= now /\ call.read.at <= now
        /\ call.id \in Ids /\ call.reached = None /\ call.arrived <= call.read.from
    BY <1>1, <2>1 DEF Knows
  <2>3. call.read.at \in Nat /\ call.read.from \in Nat /\ call.read.from <= call.read.at
    BY <1>1, <2>1 DEF IsReading
  <2>4. call.arrived < call.read.at + LongestTtl
    BY <1>2, <2>2, <2>3
  <2>5. K(WithRoute(call, call.read.listed))
    BY <1>1, <2>2, <2>3, <2>4, WithRouteKnows
  <2>6. CASE RoutesParse(call.read.listed)
    <3>1. /\ Filled("gateway", call.read, call.read.listed)
          /\ Becomes(c, WithRoute(call, call.read.listed))
      BY <1>6, <2>6 DEF HubAnswers
    <3>2. CacheKnows'
      BY <2>1, <2>2, <3>1, GatewayFilled
    <3>3. QED
      BY <1>3, <2>1, <2>5, <3>1, <3>2
  <2>7. CASE ~RoutesParse(call.read.listed)
    <3>1. Becomes(c, Ended("refused")) /\ UNCHANGED cache
      BY <1>6, <2>7 DEF HubAnswers
    <3>2. QED
      BY <1>1, <1>3, <2>1, <3>1, EndedKnows, CachesKnow
  <2>8. QED
    BY <2>6, <2>7
<1>7. ASSUME AskingFails(c) \/ TokenRefused(c) PROVE OwnersKnown'
  <2>1. Becomes(c, Ended("refused")) /\ UNCHANGED <<cluster, now, cache>>
    BY <1>7 DEF AskingFails, TokenRefused
  <2>2. QED
    BY <1>1, <1>3, <2>1, EndedKnows, CachesKnow
<1>8. ASSUME TokenIssued(c) PROVE OwnersKnown'
  <2>1. Becomes(c, ToCore(call)) /\ UNCHANGED <<cluster, now, cache>> /\ call.pc = "token"
    BY <1>8 DEF TokenIssued
  <2>2. LET x == ToCore(call) IN
          /\ x.pc = "sent" /\ x.id = call.id /\ x.arrived = call.arrived
          /\ x.read = call.read /\ x.reached = call.reached /\ x.route = call.route
    BY <1>1, Fields DEF IsCall, ToCore
  <2>3. K(ToCore(call))
    BY <1>1, <2>1, <2>2 DEF Knows, Meant
  <2>4. QED
    BY <1>3, <2>1, <2>3, CachesKnow
<1>9. QED
  BY <1>4, <1>5, <1>6, <1>7, <1>8 DEF GatewayStep

LEMMA CoreKeepsKnown ==
  ASSUME IInv, OwnersKnown, NEW c \in Calls, CoreStep(c)
  PROVE  OwnersKnown'
<1> DEFINE call == calls[c]
           K(x) == Knows(deployments, settles, now, x)
<1>1. /\ IsCall(call) /\ IsReading(call, now) /\ now \in Nat
      /\ settles \in [Ids -> Nat] /\ K(call)
  BY DEF IInv, CallsWell, OwnersKnown, ClusterWell, CallsKnow
<1>2. "core" \in Caches /\ LongestTtl \in Nat /\ 1 <= LongestTtl
  BY LongestLife DEF Caches
<1>3. \A x : K(x) /\ Becomes(c, x) /\ UNCHANGED <<cluster, now>> /\ CacheKnows'
               => OwnersKnown'
  BY BecomesKnows DEF OwnersKnown
<1>4. call.arrived \in Nat /\ call.arrived <= now /\ call.read.at <= now
  BY <1>1 DEF Knows
<1>5. call.pc \in {"sent", "discovering"} =>
        call.id \in Ids /\ Meant(deployments, settles, call) /\ call.reached = None
  BY <1>1 DEF Knows
<1>6. ASSUME CoreReceives(c) PROVE OwnersKnown'
  <2> DEFINE waits == [call EXCEPT !.pc = "discovering", !.read.from = now]
  <2>1. UNCHANGED <<cluster, now, cache>> /\ call.pc = "sent"
    BY <1>6 DEF CoreReceives
  <2>2. CASE cache["core"].expires > now
    <3>1. cache["core"].readAt \in Nat /\ now < cache["core"].readAt + LongestTtl
      BY <1>2, <2>2, InUse
    <3>2. call.arrived < cache["core"].readAt + LongestTtl
      BY <1>1, <1>2, <1>4, <3>1
    <3>3. K(WithUpstream(call, cache["core"].routes))
      BY <1>1, <1>4, <1>5, <2>1, <3>1, <3>2, WithUpstreamKnows DEF OwnersKnown, CacheKnows
    <3>4. Becomes(c, WithUpstream(call, cache["core"].routes))
      BY <1>6, <2>2 DEF CoreReceives
    <3>5. QED
      BY <1>3, <2>1, <3>3, <3>4, CachesKnow
  <2>3. CASE ~(cache["core"].expires > now)
    <3>1. Becomes(c, waits)
      BY <1>6, <2>3 DEF CoreReceives
    <3>2. /\ waits.pc = "discovering" /\ waits.id = call.id /\ waits.arrived = call.arrived
          /\ waits.route = call.route /\ waits.reached = call.reached
          /\ waits.read.from = now /\ waits.read.at = call.read.at
          /\ waits.read.deployments = call.read.deployments
      BY <1>1, Fields DEF IsCall
    <3>3. call.read.deployments = None
      BY <1>1, <2>1 DEF IsReading, NoRead
    <3>4. K(waits)
      <4> HIDE DEF waits
      <4>1. QED
        BY <1>4, <1>5, <2>1, <3>2, <3>3 DEF Knows, Meant
    <3>5. QED
      BY <1>3, <2>1, <3>1, <3>4, CachesKnow
  <2>4. QED
    BY <2>2, <2>3
<1>7. ASSUME CoreReadsDeployments(c) PROVE OwnersKnown'
  <2> DEFINE reads == [call EXCEPT !.read.deployments = deployments, !.read.at = now]
  <2>1. Becomes(c, reads) /\ UNCHANGED <<cluster, now, cache>> /\ call.pc = "discovering"
    BY <1>7 DEF CoreReadsDeployments
  <2>2. /\ reads.pc = call.pc /\ reads.id = call.id /\ reads.arrived = call.arrived
        /\ reads.route = call.route /\ reads.reached = call.reached
        /\ reads.read.from = call.read.from /\ reads.read.at = now
        /\ reads.read.deployments = deployments
    BY <1>1, Fields, Zenon DEF IsCall
  <2>3. ReadKnows(deployments, settles, deployments, now)
    BY DEF OwnersKnown, ClusterWell, ReadKnows
  <2>4. K(reads)
    <3> HIDE DEF reads
    <3>1. QED
      BY <1>1, <1>4, <1>5, <2>1, <2>2, <2>3 DEF Knows, Meant
  <2>5. QED
    BY <1>3, <2>1, <2>4, CachesKnow
<1>8. ASSUME CoreReadsServices(c) PROVE OwnersKnown'
  <2> DEFINE reads == [call EXCEPT !.read.services = services]
  <2>1. Becomes(c, reads) /\ UNCHANGED <<cluster, now, cache>> /\ call.pc = "discovering"
    BY <1>8 DEF CoreReadsServices
  <2>2. /\ reads.pc = call.pc /\ reads.id = call.id /\ reads.arrived = call.arrived
        /\ reads.route = call.route /\ reads.reached = call.reached
        /\ reads.read.from = call.read.from /\ reads.read.at = call.read.at
        /\ reads.read.deployments = call.read.deployments
    BY <1>1, Fields DEF IsCall
  <2>3. K(reads)
    <3> HIDE DEF reads
    <3>1. QED
      BY <1>1, <1>4, <1>5, <2>1, <2>2 DEF Knows, Meant
  <2>4. QED
    BY <1>3, <2>1, <2>3, CachesKnow
<1>9. ASSUME CoreDiscovered(c) PROVE OwnersKnown'
  <2> DEFINE read == call.read
             routes == CoreRoutes(read.deployments, read.services)
  <2>1. /\ call.pc = "discovering" /\ read.deployments # None
        /\ UNCHANGED <<cluster, now>>
    BY <1>9 DEF CoreDiscovered
  <2>2. ReadKnows(deployments, settles, read.deployments, read.at)
        /\ call.arrived <= read.from
    BY <1>1, <2>1 DEF Knows
  <2>3. read.at \in Nat /\ read.from \in Nat /\ read.from <= read.at
    BY <1>1, <2>1 DEF IsReading
  <2>4. call.arrived < read.at + LongestTtl
    BY <1>2, <1>4, <2>2, <2>3
  <2>5. CASE DistinctIds(Routable(read.deployments, read.services))
    <3>1. Filled("core", read, routes) /\ Becomes(c, WithUpstream(call, routes))
      BY <1>9, <2>5 DEF CoreDiscovered
    <3>2. CoreKnows(deployments, settles, routes, read.at)
      BY <2>2, <2>5, CoreRoutesKnow DEF OwnersKnown
    <3> HIDE DEF routes
    <3>3. K(WithUpstream(call, routes))
      BY <1>1, <1>4, <1>5, <2>1, <2>3, <2>4, <3>2, WithUpstreamKnows
    <3>4. CacheKnows'
      BY <1>4, <2>1, <3>1, <3>2, CoreFilled
    <3>5. QED
      BY <1>3, <2>1, <3>1, <3>3, <3>4
  <2>6. CASE ~DistinctIds(Routable(read.deployments, read.services))
    <3>1. Becomes(c, Ended("refused")) /\ UNCHANGED cache
      BY <1>9, <2>6 DEF CoreDiscovered
    <3>2. QED
      BY <1>1, <1>3, <2>1, <3>1, EndedKnows, CachesKnow
  <2>7. QED
    BY <2>5, <2>6
<1>10. ASSUME CoreFails(c) \/ ServerAnswers(c) PROVE OwnersKnown'
  <2>1. \E status : Becomes(c, Ended(status)) /\ UNCHANGED <<cluster, now, cache>>
    BY <1>10 DEF CoreFails, ServerAnswers
  <2>2. QED
    BY <1>1, <1>3, <2>1, EndedKnows, CachesKnow
<1>11. QED
  BY <1>6, <1>7, <1>8, <1>9, <1>10 DEF CoreStep

LEMMA StepKeepsKnown == IInv /\ OwnersKnown /\ [Next]_vars => OwnersKnown'
<1> SUFFICES ASSUME IInv, OwnersKnown, [Next]_vars PROVE OwnersKnown'
  OBVIOUS
<1>1. now \in Nat /\ deployments \subseteq Descriptions /\ settles \in [Ids -> Nat]
  BY DEF IInv, OwnersKnown, ClusterWell
<1>2. CASE Tick
  BY <1>1, <1>2, OthersKnow DEF Tick, cluster
<1>3. CASE DeploymentApplied
  <2>1. PICK d \in Descriptions \ deployments :
          Cluster({e \in deployments : Key(e) # Key(d)} \cup {d})
    BY <1>3 DEF DeploymentApplied
  <2>2. QED
    BY <1>1, <2>1, ClusterKnows
<1>4. CASE DeploymentDeleted
  <2>1. PICK d \in deployments : Cluster(deployments \ {d})
    BY <1>4 DEF DeploymentDeleted
  <2>2. QED
    BY <1>1, <2>1, ClusterKnows
<1>5. CASE ServiceChanges
  BY <1>1, <1>5, ClusterKnows DEF ServiceChanges
<1>6. CASE \E c \in Calls : GatewayStep(c) \/ CoreStep(c)
  BY <1>6, GatewayKeepsKnown, CoreKeepsKnown
<1>7. CASE UNCHANGED vars
  BY <1>1, <1>7, OthersKnow DEF vars
<1>8. QED
  BY <1>2, <1>3, <1>4, <1>5, <1>6, <1>7 DEF Next

\* What the caches, the reads and the calls on their way know of the owners of
\* the ids is true of the cluster, or the history says since when it is not.
THEOREM OwnersAreKnown == Spec => []OwnersKnown
<1>1. Init => OwnersKnown
  BY InitKnows
<1>2. QED
  BY <1>1, Inductive, StepKeepsKnown, PTL DEF Spec

\* accessScopeForRequest of the Gateway and the Core MCP Proxy look at the
\* cluster on their own and only an id goes from one to the other: a call still
\* reaches the server whose access was asked for, unless it arrived before both
\* caches had settled on the owner of its id.  For any number of calls, any
\* changes of the cluster and any lives of the two caches.
THEOREM CallsReachTheirServer == Spec => []SameServer
<1>1. OwnersKnown => SameServer
  BY DEF OwnersKnown, CallsKnow, Knows, Right, SameServer
<1>2. QED
  BY OwnersAreKnown, <1>1, PTL

-----------------------------------------------------------------------------
(* What the page of a server shows of a tool                               *)

\* A route of the Hub's list: a server whose settings were accepted.
GoodRoutes(routes) ==
  \A id \in DOMAIN routes : routes[id] \in Descriptions /\ Accepted(routes[id])

LEMMA ServerSettingsWell ==
  ASSUME NEW d \in Descriptions, Accepted(d)
  PROVE  /\ SettingsWell(ServerSettings(d))
         /\ ServerSettings(d) # None => SharedGroup \notin DOMAIN ServerSettings(d).tools
<1> DEFINE base == PresetEntry(Preset[RouteId(d)])
           over == Override(d)
           free(s) == s # None => SharedGroup \notin DOMAIN s.tools
<1>1. RouteId(d) \in Ids
  BY IdsAre
<1>2. SettingsFormed(Preset[RouteId(d)]) /\ SettingsFormed(d.settings)
  BY <1>1, RoutingAssumption
<1>3. free(Preset[RouteId(d)]) /\ free(d.settings)
  BY <1>1, RoutingAssumption DEF SettingsOfAll
<1>4. \A s : s # None /\ free(s) => free(Parsed(s))
  BY DEF Parsed
<1>5. SettingsWell(base) /\ free(base)
  <2>1. Preset[RouteId(d)] # None => SettingsValid(Preset[RouteId(d)])
    BY DEF Accepted, PresetEntryValid
  <2>2. QED
    BY <1>2, <1>3, <1>4, <2>1, ParsedWell DEF PresetEntry, SettingsWell
<1>6. SettingsWell(over) /\ free(over)
  <2>1. d.settings # None => SettingsValid(d.settings)
    BY DEF Accepted
  <2>2. QED
    BY <1>2, <1>3, <1>4, <2>1, ParsedWell DEF Override, SettingsWell
<1> HIDE DEF base, over
<1>7. SettingsWell(Merged(base, over))
  BY <1>5, <1>6, MergedWell
<1>8. free(Merged(base, over))
  BY <1>5, <1>6 DEF Merged
<1>9. QED
  BY <1>7, <1>8 DEF ServerSettings, base, over

\* The groups of a page: those of the tools, and the shared one where tools
\* that are not listed need nothing more.
LEMMA GroupsAre ==
  ASSUME NEW settings, settings # None, NEW scope, scope # << >>, NEW audience
  PROVE  LET groups == DOMAIN Definition(settings, scope, audience) IN
         /\ DOMAIN settings.tools \subseteq groups
         /\ groups \subseteq DOMAIN settings.tools \cup {SharedGroup}
         /\ settings.default = "none" => SharedGroup \in groups
<1> DEFINE groups == [t \in DOMAIN settings.tools |-> Group(settings.tools[t])]
           all == WithManagedAccess(groups, settings.default, scope)
<1>1. DOMAIN Definition(settings, scope, audience) = DOMAIN all
  BY DEF Definition
<1>2. DOMAIN groups = DOMAIN settings.tools
  OBVIOUS
<1> HIDE DEF groups
<1>3. DOMAIN all = DOMAIN groups \cup (IF DOMAIN groups = {} \/ settings.default = "none"
                                       THEN {SharedGroup} ELSE {})
  BY DEF WithManagedAccess
<1>4. QED
  BY <1>1, <1>2, <1>3

\* The roles of a group's signed-in rows are those of its requirements for the
\* user and those for access to the server.
LEMMA SignedInRolesAre ==
  ASSUME Service # SignedIn, NEW rows, NEW qs, NEW scope, IsSequence(scope),
         GroupHas(rows, qs, scope)
  PROVE  UserRoles(rows, scope)
           = ToSet(scope) \cup {q.role : q \in {p \in qs : p.member = SignedIn}}
<1> DEFINE asked == {q.role : q \in {p \in qs : p.member = SignedIn}}
           signed == {x \in ToSet(rows) : x.configured = SignedIn}
           named == {x \in ToSet(rows) : x.member = User /\ x.role \in ToSet(scope)}
<1>1. UserRoles(rows, scope) = {x.role : x \in signed} \cup {x.role : x \in named}
  BY DEF UserRoles, SignedInRoles
<1>2. ASSUME NEW x \in signed PROVE x.role \in ToSet(scope) \cup asked
  <2>1. CASE x \in ToSet(ManagedRows(scope))
    BY <2>1, ManagedRowIs DEF SignedIn, Gateway
  <2>2. CASE IsToolRow(x)
    <3>1. PICK q \in qs : q.member = x.configured /\ q.role = x.role
      BY <2>2 DEF GroupHas, IsToolRow
    <3>2. QED
      BY <3>1
  <2>3. CASE IsHelperRow(x)
    BY <2>3 DEF IsHelperRow
  <2>4. QED
    BY <2>1, <2>2, <2>3 DEF GroupHas
<1>3. ASSUME NEW r \in ToSet(scope)
      PROVE  r \in {x.role : x \in signed} \cup {x.role : x \in named}
  <2> DEFINE y == Row(SignedIn, r, "managed", None)
  <2>1. y \in ToSet(ManagedRows(scope))
    BY ManagedRowsAre DEF ManagedOf
  <2>2. y.configured = SignedIn /\ y.member = User /\ y.role = r
    BY RowIs DEF ResolvedMember
  <2> HIDE DEF y
  <2>3. PICK x \in ToSet(rows) : Identity(x) = Identity(y) /\ (x = y \/ Custom(x))
    BY <2>1 DEF GroupHas
  <2>4. x.member = User /\ x.role = r
    BY <2>2, <2>3 DEF Identity
  <2>5. x \in named
    BY <2>4
  <2>6. QED
    BY <2>4, <2>5
<1>4. ASSUME NEW q \in qs, q.member = SignedIn PROVE q.role \in {x.role : x \in signed}
  <2>1. PICK x \in ToSet(rows) : q.member = x.configured /\ q.role = x.role
    BY DEF GroupHas
  <2>2. QED
    BY <1>4, <2>1
<1>5. \A x \in named : x.role \in ToSet(scope)
  OBVIOUS
<1> HIDE DEF signed, named
<1>6. QED
  BY <1>1, <1>2, <1>3, <1>4, <1>5

\* The rows that are the tool's own, for exchange by the server.
LEMMA ToolRolesAre ==
  ASSUME NEW group, NEW qs, NEW scope, GroupHas(group.requirements, qs, scope)
  PROVE  SignedInRoles(RowsFrom(group, "tool"))
           = {q.role : q \in {p \in qs : p.member = SignedIn}}
<1> DEFINE rows == group.requirements
           own == {i \in DOMAIN rows : rows[i].source = "tool"}
<1>1. IsSequence(rows)
  BY DEF GroupHas
<1>2. ToSet(RowsFrom(group, "tool")) = {rows[i] : i \in own \cap DOMAIN rows}
  BY <1>1, SelectedElements DEF RowsFrom
<1>3. ToSet(RowsFrom(group, "tool")) = {x \in ToSet(rows) : x.source = "tool"}
  BY <1>2 DEF ToSet
<1> HIDE DEF rows
<1>4. \A x \in ToSet(rows) : x.source = "tool" =>
         \E q \in qs : q.member = x.configured /\ q.role = x.role
  BY DEF GroupHas, rows
<1>5. \A q \in qs : \E x \in ToSet(rows) :
         x.source = "tool" /\ q.member = x.configured /\ q.role = x.role
  BY DEF GroupHas, rows
<1>6. QED
  BY <1>3, <1>4, <1>5 DEF SignedInRoles

\* What a page says of a tool is what the Gateway asks for.
LEMMA PageSays ==
  ASSUME NEW d \in Descriptions, Accepted(d), ServerSettings(d) # None, d.scope # << >>,
         NEW tool \in Tools
  PROVE  /\ PageGroups(d, tool) = {} => AccessScope(d, tool) = {}
         /\ \A group \in PageGroups(d, tool) :
              /\ AccessScope(d, tool) # {}
              /\ AccessScope(d, tool) = UserRoles(group.requirements, d.scope)
              /\ Downstream(d, tool) = SignedInRoles(RowsFrom(group, "tool")) \ ToSet(d.scope)
<1> DEFINE s == ServerSettings(d)
           scope == d.scope
           def == Definition(s, scope, AudienceOf(d))
           groups == DOMAIN def
           signed(qs) == {q.role : q \in {p \in qs : p.member = SignedIn}}
<1>1. SettingsWell(s) /\ SharedGroup \notin DOMAIN s.tools
  BY ServerSettingsWell
<1>2. IsSequence(scope) /\ Service # SignedIn /\ tool # SharedGroup
  BY RoutingAssumption
<1>3. RouteScope(d) = ToSet(scope) /\ ToSet(scope) # {}
  <2>1. scope # << >> => Len(scope) # 0
    BY <1>2, SequenceIs
  <2>2. 1 \in 1..Len(scope)
    BY <1>2, <2>1, SequenceIs
  <2>3. QED
    BY <1>2, <2>2, SequenceIs DEF RouteScope
<1>4. PageGroups(d, tool) =
        {def[g] : g \in {x \in groups : \/ x = tool
                                        \/ /\ x = SharedGroup /\ tool \notin groups
                                           /\ s.default = "none"}}
  BY DEF PageGroups
<1>5. /\ DOMAIN s.tools \subseteq groups /\ groups \subseteq DOMAIN s.tools \cup {SharedGroup}
      /\ s.default = "none" => SharedGroup \in groups
  BY GroupsAre
<1>6. \A g \in groups : GroupHas(def[g].requirements, RequirementsOf(s, g), scope)
  BY <1>1, <1>2, DefinitionHas
<1>7. \A g \in groups :
        /\ UserRoles(def[g].requirements, scope) = ToSet(scope) \cup signed(RequirementsOf(s, g))
        /\ SignedInRoles(RowsFrom(def[g], "tool")) = signed(RequirementsOf(s, g))
  BY <1>2, <1>6, SignedInRolesAre, ToolRolesAre, Zenon
<1>8. AccessScope(d, tool) =
        IF tool \in DOMAIN s.tools THEN ToolScopes(s, scope)[tool]
        ELSE IF s.default = "none" THEN RouteScope(d) ELSE {}
  BY DEF AccessScope
<1>9. Downstream(d, tool) = AccessScope(d, tool) \ RouteScope(d)
  BY DEF Downstream
<1>10. tool \in DOMAIN s.tools =>
         ToolScopes(s, scope)[tool] = ToSet(scope) \cup signed(RequirementsOf(s, tool))
  <2>1. ASSUME tool \in DOMAIN s.tools
        PROVE  ToolScopes(s, scope)[tool] = ToSet(scope) \cup signed(RequirementsOf(s, tool))
    <3> DEFINE rs == s.tools[tool]
    <3>1. RequirementsOf(s, tool) = ToSet(rs)
      BY <2>1 DEF RequirementsOf
    <3>2. ToolScopes(s, scope)[tool] = ToSet(scope) \cup {rs[i].role : i \in SignedInRows(rs)}
      BY <2>1 DEF ToolScopes
    <3> HIDE DEF rs
    <3>3. {rs[i].role : i \in SignedInRows(rs)} = signed(ToSet(rs))
      BY DEF SignedInRows, ToSet
    <3>4. QED
      BY <3>1, <3>2, <3>3
  <2>2. QED
    BY <2>1
<1>11. SharedGroup \notin DOMAIN s.tools => signed(RequirementsOf(s, SharedGroup)) = {}
  BY DEF RequirementsOf
<1> HIDE DEF s, scope, def, groups, signed
<1>12. CASE tool \in DOMAIN s.tools
  <2>1. PageGroups(d, tool) = {def[tool]}
    BY <1>2, <1>4, <1>5, <1>12
  <2> DEFINE asked == signed(RequirementsOf(s, tool))
  <2>2. AccessScope(d, tool) = ToSet(scope) \cup asked
    BY <1>8, <1>10, <1>12
  <2>3. tool \in groups
    BY <1>5, <1>12
  <2>4. /\ UserRoles(def[tool].requirements, scope) = ToSet(scope) \cup asked
        /\ SignedInRoles(RowsFrom(def[tool], "tool")) = asked
    BY <1>7, <2>3
  <2> HIDE DEF asked
  <2>5. Downstream(d, tool) = asked \ ToSet(scope) /\ AccessScope(d, tool) # {}
    BY <1>3, <1>9, <2>2
  <2>6. QED
    BY <2>1, <2>2, <2>4, <2>5 DEF scope
<1>13. CASE tool \notin DOMAIN s.tools
  <2>1. tool \notin groups
    BY <1>2, <1>5, <1>13
  <2>2. CASE s.default = "none"
    <3>1. PageGroups(d, tool) = {def[SharedGroup]} /\ SharedGroup \in groups
      BY <1>4, <1>5, <2>1, <2>2
    <3>2. AccessScope(d, tool) = ToSet(scope) /\ Downstream(d, tool) = {}
      BY <1>3, <1>8, <1>9, <1>13, <2>2
    <3>3. UserRoles(def[SharedGroup].requirements, scope) = ToSet(scope)
          /\ SignedInRoles(RowsFrom(def[SharedGroup], "tool")) = {}
      BY <1>1, <1>7, <1>11, <3>1, Zenon
    <3>4. QED
      BY <1>3, <3>1, <3>2, <3>3 DEF scope
  <2>3. CASE s.default # "none"
    <3>1. PageGroups(d, tool) = {} /\ AccessScope(d, tool) = {}
      BY <1>4, <1>8, <1>13, <2>1, <2>3
    <3>2. QED
      BY <3>1
  <2>4. QED
    BY <2>2, <2>3
<1>14. QED
  BY <1>12, <1>13

-----------------------------------------------------------------------------
(* What a call was given.  The Hub has listed its route, and the Gateway has  *)
(* asked for what the route says of the tool, or refused the call.            *)

IsGiven(call) ==
  /\ call.pc \in {"idle", "asking"} =>
       /\ call.scopes = {} /\ call.downstream = {} /\ call.reached = None /\ call.route = None
  /\ call.read.listed # None => GoodRoutes(call.read.listed)
  /\ call.route # None /\ call.tool \in Tools =>
       /\ call.route \in Descriptions /\ Accepted(call.route)
       /\ \/ /\ AccessScope(call.route, call.tool) = {} /\ call.pc = "done"
             /\ call.scopes = {} /\ call.downstream = {} /\ call.reached = None
          \/ /\ AccessScope(call.route, call.tool) # {}
             /\ call.scopes = AccessScope(call.route, call.tool)
             /\ call.downstream = Downstream(call.route, call.tool)

RoutesAccepted ==
  /\ GoodRoutes(cache["gateway"].routes)
  /\ \A c \in Calls : IsGiven(calls[c])

LEMMA EmptyRoutes == GoodRoutes(<< >>)
BY DEF GoodRoutes

\* A listing that succeeds has looked at the settings of every server in it.
LEMMA RegistryGood ==
  ASSUME deployments \subseteq Descriptions
  PROVE  GoodRoutes(Registry(deployments))
<1>1. CASE ListingFails(deployments)
  BY <1>1, EmptyRoutes DEF Registry
<1>2. CASE ~ListingFails(deployments)
  <2> SUFFICES ASSUME NEW id \in DOMAIN Registry(deployments)
               PROVE  LET e == Registry(deployments)[id] IN e \in Descriptions /\ Accepted(e)
    BY DEF GoodRoutes
  <2> DEFINE mine == {d \in Listed(deployments) : RouteId(d) = id}
  <2>1. /\ DistinctIds(Listed(deployments))
        /\ id \in {RouteId(d) : d \in Listed(deployments)}
        /\ Registry(deployments)[id] = LastOf(mine)
    BY <1>2 DEF Registry, ListingFails
  <2>2. PICK d \in Listed(deployments) : RouteId(d) = id
    BY <2>1
  <2>3. mine = {d}
    BY <2>1, <2>2 DEF DistinctIds
  <2>4. d \in Descriptions /\ d.order \in Nat
    BY <2>2, RoutingAssumption DEF Listed
  <2>5. LastOf({d}) = d
    BY <2>4 DEF LastOf
  <2>6. Accepted(d)
    BY <1>2, <2>2 DEF ListingFails
  <2>7. QED
    BY <2>1, <2>3, <2>4, <2>5, <2>6
<1>3. QED
  BY <1>1, <1>2

LEMMA EndedGiven == ASSUME NEW status PROVE IsGiven(Ended(status))
BY DEF IsGiven, Ended, NoCall, NoRead

\* The step that decides what is asked for.
LEMMA WithRouteGiven ==
  ASSUME NEW call, IsCall(call), NEW routes, GoodRoutes(routes),
         call.scopes = {}, call.downstream = {}, call.reached = None
  PROVE  IsGiven(WithRoute(call, routes))
<1> DEFINE d == routes[call.id]
           found == [call EXCEPT !.route = d, !.read = NoRead]
           lost == [Ended("not-found") EXCEPT !.id = call.id]
           refused == [found EXCEPT !.pc = "done", !.answer = "refused"]
           asks == [found EXCEPT !.pc = "token", !.scopes = AccessScope(d, call.tool),
                                 !.downstream = Downstream(d, call.tool)]
<1>1. IsGiven(lost)
  BY DEF IsGiven, Ended, NoCall, NoRead
<1>2. NoRead.listed = None /\ {"discovery", "other"} \cap Tools = {}
  BY RoutingAssumption DEF NoRead
<1>3. /\ IsCall(found) /\ found.route = d /\ found.read = NoRead /\ found.tool = call.tool
      /\ found.scopes = {} /\ found.downstream = {} /\ found.reached = None
  BY Fields DEF IsCall
<1>4. WithRoute(call, routes) =
        IF call.id \notin DOMAIN routes THEN lost
        ELSE IF IsPublic(call) THEN ToCore(found)
        ELSE IF AccessScope(d, call.tool) = {} THEN refused ELSE asks
  BY DEF WithRoute
<1> HIDE DEF found, lost, d
<1>5. CASE call.id \notin DOMAIN routes
  BY <1>1, <1>4, <1>5
<1>6. CASE call.id \in DOMAIN routes
  <2>1. d \in Descriptions /\ Accepted(d)
    BY <1>6 DEF GoodRoutes, d
  <2>2. CASE IsPublic(call)
    <3> DEFINE x == ToCore(found)
    <3>1. x.pc = "sent" /\ x.read = NoRead /\ x.tool = call.tool
      BY <1>3, Fields DEF IsCall, ToCore
    <3>2. x.tool \notin Tools
      BY <1>2, <2>2, <3>1 DEF IsPublic
    <3> HIDE DEF x
    <3>3. IsGiven(x)
      BY <1>2, <3>1, <3>2 DEF IsGiven
    <3>4. QED
      BY <1>4, <1>6, <2>2, <3>3 DEF x
  <2>3. CASE ~IsPublic(call) /\ AccessScope(d, call.tool) = {}
    <3>1. /\ refused.pc = "done" /\ refused.read = NoRead /\ refused.tool = call.tool
          /\ refused.route = d /\ refused.scopes = {} /\ refused.downstream = {}
          /\ refused.reached = None
      BY <1>3, Fields DEF IsCall
    <3> HIDE DEF refused
    <3>2. IsGiven(refused)
      BY <1>2, <2>1, <2>3, <3>1 DEF IsGiven
    <3>3. QED
      BY <1>4, <1>6, <2>3, <3>2
  <2>4. CASE ~IsPublic(call) /\ AccessScope(d, call.tool) # {}
    <3>1. /\ asks.pc = "token" /\ asks.read = NoRead /\ asks.tool = call.tool
          /\ asks.route = d /\ asks.scopes = AccessScope(d, call.tool)
          /\ asks.downstream = Downstream(d, call.tool)
      BY <1>3, Fields DEF IsCall
    <3> HIDE DEF asks
    <3>2. IsGiven(asks)
      BY <1>2, <2>1, <2>4, <3>1 DEF IsGiven
    <3>3. QED
      BY <1>4, <1>6, <2>4, <3>2
  <2>5. QED
    BY <2>2, <2>3, <2>4
<1>7. QED
  BY <1>5, <1>6

LEMMA BecomesGiven ==
  ASSUME IInv, RoutesAccepted, NEW c \in Calls, NEW call, IsGiven(call), Becomes(c, call),
         GoodRoutes(cache'["gateway"].routes)
  PROVE  RoutesAccepted'
<1>1. \A b \in Calls : calls'[b] = IF b = c THEN call ELSE calls[b]
  BY DEF Becomes, IInv, CallsWell
<1>2. QED
  BY <1>1 DEF RoutesAccepted

LEMMA GatewayKeepsGiven ==
  ASSUME IInv, OwnersKnown, RoutesAccepted, NEW c \in Calls, GatewayStep(c)
  PROVE  RoutesAccepted'
<1> DEFINE call == calls[c]
<1>1. IsCall(call) /\ IsGiven(call) /\ GoodRoutes(cache["gateway"].routes)
  BY DEF IInv, CallsWell, RoutesAccepted
<1>2. \A x : IsGiven(x) /\ Becomes(c, x) /\ UNCHANGED cache => RoutesAccepted'
  BY <1>1, BecomesGiven
<1>3. ASSUME Arrives(c) PROVE RoutesAccepted'
  <2>1. PICK asked \in Asked :
          LET new == [NoCall EXCEPT !.id = asked[1], !.tool = asked[2], !.arrived = now] IN
          Becomes(c, IF cache["gateway"].expires > now
                     THEN WithRoute(new, cache["gateway"].routes)
                     ELSE [new EXCEPT !.pc = "asking", !.read.from = now])
    BY <1>3 DEF Arrives
  <2> DEFINE new == [NoCall EXCEPT !.id = asked[1], !.tool = asked[2], !.arrived = now]
             waits == [new EXCEPT !.pc = "asking", !.read.from = now]
  <2>2. /\ IsCall(new) /\ new.scopes = {} /\ new.downstream = {} /\ new.reached = None
        /\ new.route = None /\ new.read = NoRead
    BY Fields DEF IsCall, NoCall
  <2>3. IsGiven(waits)
    <3>1. /\ waits.scopes = {} /\ waits.downstream = {} /\ waits.reached = None
          /\ waits.route = None /\ waits.read.listed = None
      BY <2>2, Fields DEF IsCall, NoRead
    <3> HIDE DEF waits
    <3>2. QED
      BY <3>1 DEF IsGiven
  <2>4. IsGiven(WithRoute(new, cache["gateway"].routes))
    BY <1>1, <2>2, WithRouteGiven, Zenon
  <2>5. UNCHANGED cache
    BY <1>3 DEF Arrives
  <2>6. Becomes(c, WithRoute(new, cache["gateway"].routes)) \/ Becomes(c, waits)
    BY <2>1
  <2> HIDE DEF new, waits
  <2>7. QED
    BY <1>2, <2>3, <2>4, <2>5, <2>6
<1>4. ASSUME HubReads(c) PROVE RoutesAccepted'
  <2>1. PICK routes \in {Registry(deployments)} \cup ReadFailure :
          Becomes(c, [call EXCEPT !.read.listed = routes, !.read.at = now])
    BY <1>4 DEF HubReads
  <2> DEFINE reads == [call EXCEPT !.read.listed = routes, !.read.at = now]
  <2>2. call.pc = "asking" /\ UNCHANGED cache
    BY <1>4 DEF HubReads
  <2>3. GoodRoutes(routes)
    <3>1. deployments \subseteq Descriptions
      BY DEF OwnersKnown, ClusterWell
    <3>2. routes = Registry(deployments) \/ routes = << >>
      BY <2>1 DEF ReadFailure
    <3>3. QED
      BY <3>1, <3>2, RegistryGood, EmptyRoutes
  <2>4. /\ reads.pc = call.pc /\ reads.scopes = call.scopes /\ reads.route = call.route
        /\ reads.downstream = call.downstream /\ reads.reached = call.reached
        /\ reads.read.listed = routes
    BY <1>1, Fields, Zenon DEF IsCall
  <2> HIDE DEF reads
  <2>5. IsGiven(reads)
    BY <1>1, <2>2, <2>3, <2>4 DEF IsGiven
  <2>6. QED
    BY <1>2, <2>1, <2>2, <2>5 DEF reads
<1>5. ASSUME HubAnswers(c) PROVE RoutesAccepted'
  <2> DEFINE routes == call.read.listed
  <2>1. call.pc = "asking" /\ routes # None
    BY <1>5 DEF HubAnswers
  <2>2. /\ GoodRoutes(routes) /\ call.scopes = {} /\ call.downstream = {}
        /\ call.reached = None
    BY <1>1, <2>1 DEF IsGiven
  <2>3. IsGiven(WithRoute(call, routes))
    BY <1>1, <2>2, WithRouteGiven
  <2>4. CASE RoutesParse(routes)
    <3>1. Filled("gateway", call.read, routes) /\ Becomes(c, WithRoute(call, routes))
      BY <1>5, <2>4 DEF HubAnswers
    <3>2. cache'["gateway"].routes = routes
      <4>1. "gateway" \in DOMAIN cache
        BY DEF IInv, CacheWell, Caches
      <4>2. QED
        BY <3>1, <4>1 DEF Filled
    <3> HIDE DEF routes
    <3>3. QED
      BY <2>2, <2>3, <3>1, <3>2, BecomesGiven
  <2>5. CASE ~RoutesParse(routes)
    <3>1. Becomes(c, Ended("refused")) /\ UNCHANGED cache
      BY <1>5, <2>5 DEF HubAnswers
    <3>2. QED
      BY <1>2, <3>1, EndedGiven
  <2>6. QED
    BY <2>4, <2>5
<1>6. ASSUME AskingFails(c) \/ TokenRefused(c) PROVE RoutesAccepted'
  <2>1. Becomes(c, Ended("refused")) /\ UNCHANGED cache
    BY <1>6 DEF AskingFails, TokenRefused
  <2>2. QED
    BY <1>2, <2>1, EndedGiven
<1>7. ASSUME TokenIssued(c) PROVE RoutesAccepted'
  <2> DEFINE x == ToCore(call)
  <2>1. Becomes(c, x) /\ UNCHANGED cache /\ call.pc = "token"
    BY <1>7 DEF TokenIssued
  <2>2. /\ x.pc = "sent" /\ x.read = call.read /\ x.route = call.route /\ x.tool = call.tool
        /\ x.scopes = call.scopes /\ x.downstream = call.downstream
    BY <1>1, Fields DEF IsCall, ToCore
  <2> HIDE DEF x
  <2>3. IsGiven(x)
    BY <1>1, <2>1, <2>2 DEF IsGiven
  <2>4. QED
    BY <1>2, <2>1, <2>3
<1>8. QED
  BY <1>3, <1>4, <1>5, <1>6, <1>7 DEF GatewayStep

\* A call that has been sent keeps what it was given.
LEMMA GivenKept ==
  ASSUME NEW call, IsGiven(call), call.pc \in {"sent", "discovering", "forwarded"}, NEW x,
         x.pc \in {"discovering", "forwarded"}, x.route = call.route, x.tool = call.tool,
         x.scopes = call.scopes, x.downstream = call.downstream,
         x.read.listed = call.read.listed \/ x.read = NoRead
  PROVE  IsGiven(x)
<1>1. NoRead.listed = None
  BY DEF NoRead
<1>2. QED
  BY <1>1 DEF IsGiven

LEMMA CoreKeepsGiven ==
  ASSUME IInv, RoutesAccepted, NEW c \in Calls, CoreStep(c)
  PROVE  RoutesAccepted'
<1> DEFINE call == calls[c]
<1>1. IsCall(call) /\ IsGiven(call) /\ GoodRoutes(cache["gateway"].routes)
  BY DEF IInv, CallsWell, RoutesAccepted
<1>2. \A x : IsGiven(x) /\ Becomes(c, x) /\ cache'["gateway"] = cache["gateway"]
               => RoutesAccepted'
  BY <1>1, BecomesGiven
<1>3. ASSUME NEW routes, call.pc \in {"sent", "discovering"}
      PROVE  IsGiven(WithUpstream(call, routes))
  <2> DEFINE there == [call EXCEPT !.pc = "forwarded", !.read = NoRead,
                                   !.reached = Key(routes[call.id])]
  <2>1. /\ there.pc = "forwarded" /\ there.read = NoRead /\ there.route = call.route
        /\ there.tool = call.tool /\ there.scopes = call.scopes
        /\ there.downstream = call.downstream
    BY <1>1, Fields DEF IsCall
  <2>2. WithUpstream(call, routes) = Ended("refused") \/ WithUpstream(call, routes) = there
    BY DEF WithUpstream
  <2> HIDE DEF there
  <2>3. IsGiven(there)
    BY <1>1, <1>3, <2>1, GivenKept
  <2>4. QED
    BY <2>2, <2>3, EndedGiven
<1>4. ASSUME CoreReceives(c) PROVE RoutesAccepted'
  <2> DEFINE waits == [call EXCEPT !.pc = "discovering", !.read.from = now]
  <2>1. call.pc = "sent" /\ UNCHANGED cache
    BY <1>4 DEF CoreReceives
  <2>2. Becomes(c, WithUpstream(call, cache["core"].routes)) \/ Becomes(c, waits)
    BY <1>4 DEF CoreReceives
  <2>3. /\ waits.pc = "discovering" /\ waits.route = call.route /\ waits.tool = call.tool
        /\ waits.scopes = call.scopes /\ waits.downstream = call.downstream
        /\ waits.read.listed = call.read.listed
    BY <1>1, Fields DEF IsCall
  <2> HIDE DEF waits
  <2>4. IsGiven(waits)
    BY <1>1, <2>1, <2>3, GivenKept
  <2>5. QED
    BY <1>2, <1>3, <2>1, <2>2, <2>4
<1>5. ASSUME CoreReadsDeployments(c) PROVE RoutesAccepted'
  <2> DEFINE reads == [call EXCEPT !.read.deployments = deployments, !.read.at = now]
  <2>1. call.pc = "discovering" /\ UNCHANGED cache /\ Becomes(c, reads)
    BY <1>5 DEF CoreReadsDeployments
  <2>2. /\ reads.pc = call.pc /\ reads.route = call.route /\ reads.tool = call.tool
        /\ reads.scopes = call.scopes /\ reads.downstream = call.downstream
        /\ reads.read.listed = call.read.listed
    BY <1>1, Fields, Zenon DEF IsCall
  <2> HIDE DEF reads
  <2>3. IsGiven(reads)
    BY <1>1, <2>1, <2>2, GivenKept
  <2>4. QED
    BY <1>2, <2>1, <2>3
<1>6. ASSUME CoreReadsServices(c) PROVE RoutesAccepted'
  <2> DEFINE reads == [call EXCEPT !.read.services = services]
  <2>1. call.pc = "discovering" /\ UNCHANGED cache /\ Becomes(c, reads)
    BY <1>6 DEF CoreReadsServices
  <2>2. /\ reads.pc = call.pc /\ reads.route = call.route /\ reads.tool = call.tool
        /\ reads.scopes = call.scopes /\ reads.downstream = call.downstream
        /\ reads.read.listed = call.read.listed
    BY <1>1, Fields DEF IsCall
  <2> HIDE DEF reads
  <2>3. IsGiven(reads)
    BY <1>1, <2>1, <2>2, GivenKept
  <2>4. QED
    BY <1>2, <2>1, <2>3
<1>7. ASSUME CoreDiscovered(c) PROVE RoutesAccepted'
  <2> DEFINE routes == CoreRoutes(call.read.deployments, call.read.services)
  <2>1. call.pc = "discovering"
    BY <1>7 DEF CoreDiscovered
  <2>2. \/ Filled("core", call.read, routes) /\ Becomes(c, WithUpstream(call, routes))
        \/ Becomes(c, Ended("refused")) /\ UNCHANGED cache
    BY <1>7 DEF CoreDiscovered
  <2> HIDE DEF routes
  <2>3. Filled("core", call.read, routes) => cache'["gateway"] = cache["gateway"]
    <3>1. "gateway" \in DOMAIN cache
      BY DEF IInv, CacheWell, Caches
    <3>2. QED
      BY <3>1 DEF Filled
  <2>4. QED
    BY <1>2, <1>3, <2>1, <2>2, <2>3, EndedGiven
<1>8. ASSUME CoreFails(c) \/ ServerAnswers(c) PROVE RoutesAccepted'
  <2>1. \E status : Becomes(c, Ended(status)) /\ UNCHANGED cache
    BY <1>8 DEF CoreFails, ServerAnswers
  <2>2. QED
    BY <1>2, <2>1, EndedGiven
<1>9. QED
  BY <1>4, <1>5, <1>6, <1>7, <1>8 DEF CoreStep

LEMMA StepKeepsGiven == IInv /\ OwnersKnown /\ RoutesAccepted /\ [Next]_vars => RoutesAccepted'
<1> SUFFICES ASSUME IInv, OwnersKnown, RoutesAccepted, [Next]_vars PROVE RoutesAccepted'
  OBVIOUS
<1>1. UNCHANGED <<cache, calls>> => RoutesAccepted'
  BY DEF RoutesAccepted
<1>2. CASE Tick \/ UNCHANGED vars
  BY <1>1, <1>2 DEF Tick, vars
<1>3. CASE DeploymentApplied \/ DeploymentDeleted \/ ServiceChanges
  BY <1>1, <1>3, Zenon DEF DeploymentApplied, DeploymentDeleted, ServiceChanges, Cluster
<1>4. CASE \E c \in Calls : GatewayStep(c) \/ CoreStep(c)
  BY <1>4, GatewayKeepsGiven, CoreKeepsGiven
<1>5. QED
  BY <1>2, <1>3, <1>4 DEF Next

\* What a call was given, and the routes that it may be given later, come from
\* settings that the Hub has accepted.
THEOREM RoutesAreAccepted == Spec => []RoutesAccepted
<1>1. Init => RoutesAccepted
  BY EmptyRoutes DEF Init, RoutesAccepted, Caches, IsGiven, NoCall, NoRead
<1>2. QED
  BY <1>1, Inductive, OwnersAreKnown, StepKeepsGiven, PTL DEF Spec

\* accessScopeForRequest and downstreamScopeForRequest of the Gateway ask for
\* the roles that the permission page of the server names, although the page and
\* the Hub's list make them from the settings in different ways: for any
\* settings, tools and roles, any cluster and any number of calls.
THEOREM GatewayAsksWhatPageShows == Spec => []AsksWhatPageShows
<1>1. RoutesAccepted => AsksWhatPageShows
  <2> SUFFICES ASSUME RoutesAccepted, NEW c \in Calls, calls[c].route # None,
                      calls[c].tool \in Tools, ServerSettings(calls[c].route) # None,
                      calls[c].route.scope # << >>
               PROVE  LET groups == Pages[calls[c].route][calls[c].tool] IN
                      /\ groups = {} => calls[c].scopes = {} /\ calls[c].reached = None
                      /\ \A group \in groups :
                           /\ calls[c].scopes
                                = UserRoles(group.requirements, calls[c].route.scope)
                           /\ calls[c].downstream
                                = SignedInRoles(RowsFrom(group, "tool"))
                                    \ ToSet(calls[c].route.scope)
    BY DEF AsksWhatPageShows
  <2> DEFINE d == calls[c].route
             tool == calls[c].tool
  <2>1. /\ d \in Descriptions /\ Accepted(d)
        /\ \/ AccessScope(d, tool) = {} /\ calls[c].scopes = {} /\ calls[c].reached = None
           \/ /\ AccessScope(d, tool) # {} /\ calls[c].scopes = AccessScope(d, tool)
              /\ calls[c].downstream = Downstream(d, tool)
    BY Zenon DEF RoutesAccepted, IsGiven
  <2>2. Pages[d][tool] = PageGroups(d, tool)
    BY <2>1 DEF Pages
  <2>3. /\ PageGroups(d, tool) = {} => AccessScope(d, tool) = {}
        /\ \A group \in PageGroups(d, tool) :
              /\ AccessScope(d, tool) # {}
              /\ AccessScope(d, tool) = UserRoles(group.requirements, d.scope)
              /\ Downstream(d, tool) = SignedInRoles(RowsFrom(group, "tool")) \ ToSet(d.scope)
    BY <2>1, PageSays
  <2>4. QED
    BY <2>1, <2>2, <2>3
<1>2. QED
  BY RoutesAreAccepted, <1>1, PTL

=============================================================================
