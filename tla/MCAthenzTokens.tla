--------------------------- MODULE MCAthenzTokens ---------------------------
(***************************************************************************)
(* Small instances of AthenzTokens: one server of the project core whose   *)
(* tools need roles of core and of another domain.                         *)
(***************************************************************************)
EXTENDS AthenzTokens, TLC

\* Role names that differ between the domains, in string order: accessor,
\* api:role.reader, core:role.accessor, reader.
Distinct == << Short("accessor"), Full("api", "reader"),
               Full("core", "accessor"), Short("reader") >>

DistinctRoutes ==
  { [audience |-> "core", accessScope |-> {Full("core", "accessor")},
     toolScopes |-> [t \in {"read"} |->
                       {Full("core", "accessor"), Full("api", "reader")}]
                   @@ [t \in {"list"} |-> {Full("api", "reader")}],
     open |-> FALSE] }

Symmetric == Permutations(Sessions) \cup Permutations(Requests)

=============================================================================
