SPECIFICATION EditorSpec
CONSTANTS
    None = None
    Service = "mcp.docs"
    User = "user.alice"
    Tools = {"read", "write"}
    Edited = "read"
    EditorStarts <- MCStarts
    Audiences = {"api", "crm"}
    RoleNames = {"reader", "writer"}
    EditorScope <- MCScope
    EditorAudience = "mcp"
    TypedHelper <- MCTyped
    MaxHelpers = 1
    MaxRows = 2
    MaxEdits = 2
    MaxLookups = 2
    MaxSaves = 1
    Volatile <- MCVolatile
    MaxRoleChanges = 1
CHECK_DEADLOCK FALSE
INVARIANTS ShownIsRequired UnchangedIsNeutral RoleFromList
PROPERTIES RoleLostOnlyIfGone
