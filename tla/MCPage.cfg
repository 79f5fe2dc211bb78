SPECIFICATION PageSpec
CONSTANTS
    vault = vault
    other = other
    dir = dir
    note = note
    dotfile = dotfile
    vendor = vendor
    Letter = {1, 2, 3, 4}
    Slash = 0
    Limit = 2
    IndexSize = 3
    MaxQuery = 3
    Lower <- MCLower
    Width <- MCWidth
    Names <- MCNames
    Dirs <- MCDirs
    Part <- MCPart
    DotDot = DotDot
    Hidden <- MCHidden
    Ignored <- MCIgnored
    Markdown <- MCMarkdown
    RootPath <- MCRoot
    FollowSymlinks = FALSE
    Worlds <- MCWorlds
    Asked <- MCAsked
    MaxDepth = 3
    Query = {q1, q2}
    NoQuery = NoQuery
    Search = {s1, s2}
    MaxHits = 2
    Listing = {a1, a2}
    Edit = {e1, e2}
    MaxEdits = 2
    Session = {t1, t2}
    NoSession = NoSession
    Call = {c1, c2}
INVARIANT FindsEmbedded
INVARIANT OneAnswer
INVARIANT TiersKept
INVARIANT Confined
INVARIANT OfferedTaken
INVARIANT TreeMatchesIndex
INVARIANT QueriesTypeOK
INVARIANT HitsOfQuery
INVARIANT ActiveIsHit
INVARIANT TreeFresh
INVARIANT WebTypeOK
INVARIANT SignedOutStays
INVARIANT AuthedHolds
PROPERTY Narrows
PROPERTY SearchingEnds
PROPERTY LoadingEnds
PROPERTY WaitingEnds
