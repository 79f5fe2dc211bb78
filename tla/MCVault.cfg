SPECIFICATION VaultSpec
CONSTANTS
    note = note
    memo = memo
    dir = dir
    box = box
    dot = dot
    o1 = o1
    Req = {r1, r2}
    Builder = {boot, again}
    Boot = boot
    MaxFiles = 2
    MaxCrashes = 1
    Name <- MCName
    Markdown <- MCMarkdown
    Original <- MCOriginal
    Skipped <- MCSkipped
    Torn = Torn
    NoData = NoData
    Paths <- MCPaths
    Trees <- MCTrees
SYMMETRY Symmetry
INVARIANT VaultTypeOK
INVARIANT IndexAgrees
INVARIANT WholeFiles
INVARIANT TempsAccounted
PROPERTY CallsAreAtomic
