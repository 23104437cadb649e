SPECIFICATION PageSpec
CONSTANTS
    None = None
    Service = "mcp.docs"
    User = "user.alice"
    PageStarts <- MCStarts
    Scope <- MCScope
    Audience = "mcp"
    Tools = {"read", "write"}
    PolicyNames <- MCPolicyNames
    MaxEvents = 2
    MaxLoads = 2
CHECK_DEADLOCK FALSE
INVARIANTS StatusesWereTrue ApprovedWasVerified NothingHidden
