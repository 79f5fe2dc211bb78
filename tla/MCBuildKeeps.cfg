SPECIFICATION VaultSpec
CONSTANTS
    note = note
    memo = memo
    dir = dir
    box = box
    dot = dot
    o1 = o1
    Req = {r1}
    Builder = {boot, again}
    Boot = boot
    MaxFiles = 9
    MaxCrashes = 1
    Name <- MCName
    Markdown <- MCMarkdown
    Original <- MCOriginal
    Skipped <- MCSkipped
    Torn = Torn
    NoData = NoData
    Paths <- MCPaths
    Trees <- MCTrees
PROPERTY BuildKeepsAdded
