SPECIFICATION LookupsSpec
CONSTANTS
    vault = vault
    other = other
    dir = dir
    note = note
    dotfile = dotfile
    vendor = vendor
    Letter = {1, 2, 3, 4}
    Slash = 0
    Limit = 2
    IndexSize = 3
    MaxQuery = 1
    Lower <- MCLower
    Width <- MCWidth
    Names <- MCNames
    Dirs <- MCDirs
    Part <- MCPart
    DotDot = DotDot
    Hidden <- MCHidden
    Ignored <- MCIgnored
    Markdown <- MCMarkdown
    RootPath <- MCRoot
    FollowSymlinks = FALSE
    Worlds <- MCWorlds
    Asked <- MCAsked
    MaxDepth = 3
INVARIANT RootUsable
