------------------------ MODULE MCPermissionReadiness ------------------------
(* PermissionReadiness for TLC: settings of each form. *)
EXTENDS PermissionReadiness

Reader == Role("crm", "reader", "direct")
Own == Role("mcp", "docs", "direct")
MCScope == << Own >>
Settings(default, tools) == [default |-> default, tools |-> tools]
Direct(r, hs) == Tool(<< Requirement(SignedIn, r, TRUE, hs) >>)
Customized == << Helper(Gateway, HelperRole(Reader, "jag"), << Policy("ALLOW", "zts.jag_exchange", <<"crm", "any">>) >>) >>
Stored(s) == [preset |-> None, stored |-> s]
MCStarts ==
    { Stored(Settings(None, ("read" :> Direct(Reader, None)))),
      Stored(Settings("none", ("read" :> Direct(Reader, Customized)))),
      Stored(Settings("none", << >>)),
      Stored(Settings(None, ("read" :> Direct(Own, None)))),
      Stored(Settings(None, ("" :> Direct(Reader, None)))) }
MCPolicyNames == {<<"crm", "a">>, <<"crm", "b">>, <<"mcp", "a">>}

=============================================================================
