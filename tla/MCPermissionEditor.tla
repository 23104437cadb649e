-------------------------- MODULE MCPermissionEditor --------------------------
(* PermissionEditor for TLC: settings of each form that a Deployment may have. *)
EXTENDS PermissionEditor

Reader(d) == Role(d, "reader", "direct")
Direct(r, hs) == Requirement(SignedIn, r, TRUE, hs)
Settings(rs) == [default |-> None, tools |-> ("read" :> Tool(rs))]
Own == << Helper(Gateway, HelperRole(Reader("api"), "jag"),
                 << Policy("ALLOW", "zts.jag_exchange", <<"api", "reader">>) >>),
          Helper("other.service", HelperRole(Reader("api"), "target"), << >>),
          Helper(Gateway, HelperRole(Reader("crm"), "target"), None) >>
MCStored ==
    { None,
      Settings(<< >>),
      Settings(<< Direct(Reader("api"), None) >>),
      Settings(<< Direct(Reader("api"), << >>), Requirement("svc.batch", Reader("crm"), None, None) >>),
      Settings(<< Direct(Reader("crm"), None), Requirement("svc.batch", Reader("crm"), None, None) >>),
      Settings(<< Direct(Reader("api"), Own) >>),
      [default |-> "none", tools |-> << >>],
      [default |-> None,
       tools |-> ("read" :> [requirements |-> << Requirement(SignedIn, Reader("crm"), None, None) >>,
                             include |-> TRUE, helpers |-> None])] }
MCStarts ==
    {[preset |-> None, stored |-> s] : s \in MCStored}
    \cup {[preset |-> Settings(<< Requirement(SignedIn, Reader("crm"), FALSE, None) >>),
           stored |-> None]}
MCTyped == Helper("other.service", HelperRole(Reader("api"), "jag"),
                  << Policy("ALLOW", "zts.jag_exchange", <<"api", "reader">>) >>)
MCVolatile == {Reader("api")}
MCScope == << Role("mcp", "docs", "direct") >>

=============================================================================
