------------------------------- MODULE Scopes -------------------------------
(***************************************************************************)
(* How the MCP Gateway compares Athenz scopes                              *)
(* (components/mcp-gateway/src/services/athenz.ts).  A scope names a role  *)
(* of a domain ("api:role.reader"); in an access token ZTS shortens the    *)
(* scopes of the token's own audience to the role ("reader").  The Gateway *)
(* compares sorted lists of such strings.                                  *)
(***************************************************************************)
EXTENDS Naturals, FiniteSets, SequencesExt

CONSTANTS
  Order,     \* every scope string that occurs, in string order
  NoDomain   \* the domain of a shortened scope

Full(d, r) == [domain |-> d, role |-> r]
Short(r) == [domain |-> NoDomain, role |-> r]

ASSUME ScopesAssumption ==
  /\ Order \in Seq(Range(Order))
  /\ \A s \in Range(Order) : s = Full(s.domain, s.role)

\* scopeValues: the code makes a sorted list of a set of scopes.
Before(a, b) == \E i, j \in DOMAIN Order : i < j /\ Order[i] = a /\ Order[j] = b

\* equivalentScope: equal, or one of them is the other's bare role name.
EquivalentScope(a, b) ==
  \/ a = b
  \/ a.domain # NoDomain /\ b = Short(a.role)
  \/ b.domain # NoDomain /\ a = Short(b.role)

\* scopesCover: each requested scope in turn takes the first granted scope that
\* is equivalent to it and that none before it has taken.
ScopesCover(granted, requested) ==
  \E taken \in [requested -> granted] :
    /\ \A s, t \in requested : taken[s] = taken[t] => s = t
    /\ \A s \in requested :
         /\ EquivalentScope(taken[s], s)
         /\ \A g \in granted : EquivalentScope(g, s) /\ Before(g, taken[s]) =>
              \E t \in requested : Before(t, s) /\ taken[t] = g

\* scopesExactlyMatch
ScopesExactlyMatch(a, b) == Cardinality(a) = Cardinality(b) /\ ScopesCover(a, b)

\* How ZTS writes a set of full scopes in an access token for an audience, and
\* what such a token therefore grants.
Shortened(audience, S) ==
  {IF s.domain = audience THEN Short(s.role) ELSE s : s \in S}
Denoted(audience, S) ==
  {IF s.domain = NoDomain THEN Full(audience, s.role) ELSE s : s \in S}

=============================================================================
