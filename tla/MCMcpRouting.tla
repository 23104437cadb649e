----------------------------- MODULE MCMcpRouting -----------------------------
(* McpRouting for TLC: servers of which two may have the same id. *)
EXTENDS McpRouting

Reader == Role("crm", "reader", "direct")
Writer == Role("crm", "writer", "direct")
Access(n) == << Role("mcp", n, "direct") >>
Settings(default, tools) == [default |-> default, tools |-> tools]
Requires(r) == Tool(<< Requirement(SignedIn, r, TRUE, None) >>)
Deployment(ns, name, id, scope, settings, order) ==
    [namespace |-> ns, name |-> name, project |-> ns, id |-> id, scope |-> scope,
     audience |-> None, settings |-> settings, url |-> None, order |-> order]

\* docs in two forms, and a server of the same id that is reached by a url.
Docs == Deployment("a", "docs", None, Access("docs"), Settings(None, ("read" :> Requires(Reader))), 1)
DocsOpen == [Docs EXCEPT !.settings = Settings("none", << >>)]
Other == [Deployment("b", "search", "docs", Access("search"), None, 2) EXCEPT !.url = "http://search"]
Unscoped == [Deployment("b", "api", None, << >>, Settings(None, ("read" :> Tool(<< >>))), 3)
               EXCEPT !.url = "http://api"]
OtherBad == [Other EXCEPT !.audience = BadAudience]
MCDescriptions == {Docs, DocsOpen, Other, OtherBad}
MCServices == {[namespace |-> "a", name |-> "web", selects |-> "docs"]}
MCStarts == {{Docs}}
MCUnscoped == {{Docs, Unscoped}}
MCAll == MCDescriptions \cup {Unscoped}
\* The preset document has settings of read for docs: one form replaces them.
MCPreset == [id \in {"docs", "api"} |->
    IF id = "docs" THEN Settings(None, ("read" :> Requires(Writer))) ELSE None]
MCFallback == Role("mcp", "gateway", "direct")
MCTtl == [k \in {"gateway", "core"} |-> 1]
MCAsked == {<<"docs", "read">>, <<"docs", "write">>, <<"docs", "discovery">>}
Symmetry == Permutations(Calls)

=============================================================================
