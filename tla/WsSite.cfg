\* The search over filesystems, access control and identities.
CONSTANTS
    w1 = w1
    w2 = w2
    rd = rd
    Sessions = {w1, w2, rd}
    Chars <- MCChars
    FsOrder <- MCFsOrder
    Users <- MCUsers
    UserOf <- MCUserOf
    ToolsOf <- MCToolsOf
    MemberOf <- MCMemberOf
    WsNames <- MCNames
    Patterns <- MCPatterns
    FsArgs = {"", "f1"}
    GroupArgs = {"", "k"}
    Sites <- MCSites
    Seeded <- MCSeeded
    MaxTools = 3
    MaxRunning = 2
    MaxOutages = 1
SPECIFICATION SiteSpec
INVARIANTS
    SiteSafe
    SiteTypeOK
    AccessRule
    Preferred
    ConfigMerged
    GlobExact
    OverrunBounded
    NoShadow
    ReleaseExact
    FindExact
    ListExact
    LinksExact
    Paired
    Owned
CHECK_DEADLOCK FALSE
