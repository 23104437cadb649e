SPECIFICATION Spec
CONSTANTS
    None = None
    Service = "mcp.docs"
    User = "user.alice"
    Descriptions <- MCAll
    ServiceSet <- MCServices
    Starts <- MCUnscoped
    Preset <- MCPreset
    Fallback <- MCFallback
    Tools = {"read", "write"}
    Calls = {c1, c2}
    Asked <- MCAsked
    ReadsFail = FALSE
    Ttl <- MCTtl
    MaxNow = 2
    MaxChanges = 0
SYMMETRY Symmetry
CHECK_DEADLOCK FALSE
INVARIANTS StandardAccessApplies
