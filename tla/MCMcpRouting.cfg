SPECIFICATION Spec
CONSTANTS
    None = None
    Service = "mcp.docs"
    User = "user.alice"
    Descriptions <- MCDescriptions
    ServiceSet <- MCServices
    Starts <- MCStarts
    Preset <- MCPreset
    Fallback <- MCFallback
    Tools = {"read", "write"}
    Calls = {c1, c2}
    Asked <- MCAsked
    ReadsFail = TRUE
    Ttl <- MCTtl
    MaxNow = 2
    MaxChanges = 2
SYMMETRY Symmetry
CHECK_DEADLOCK FALSE
INVARIANTS Fresh SameServer AsksWhatPageShows
