--------------------------- MODULE MCHubWorkflow ---------------------------
(* Form templates, applications and requests on a small instance.          *)
EXTENDS HubWorkflow, TLC

Field(label, required, options) ==
    [label |-> label, required |-> required, options |-> options]
MCSeed == {<<Field("x", TRUE, << >>), Field("x", TRUE, <<"x">>)>>}
Symmetry == Permutations(Tabs)
=============================================================================
