\* One shell creates workspaces, up to the limit and further.
CONSTANTS
    w1 = w1
    w2 = w2
    rd = rd
    Sessions = {w1}
    Chars <- MCChars
    FsOrder <- MCFsOrder
    Users <- MCUsers
    UserOf <- MCUserOf
    ToolsOf <- MCToolsOf
    MemberOf <- MCMemberOf
    WsNames <- MCNames
    Patterns <- MCPatterns
    FsArgs = {"", "f1"}
    GroupArgs = {"", "k"}
    Sites <- MCSites
    Seeded <- MCSeeded
    MaxTools = 2
    MaxRunning = 1
    MaxOutages = 0
SPECIFICATION SiteSpec
INVARIANTS
    UserLimit
CHECK_DEADLOCK FALSE
