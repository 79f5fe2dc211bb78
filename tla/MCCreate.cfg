SPECIFICATION Spec
CONSTANTS
    note = note
    dir = dir
    box = box
    o1 = o1
    Req = {r1, r2}
    Name <- MCName
    Markdown <- MCMarkdown
    Original <- MCOriginal
    Torn = Torn
    NoData = NoData
    Paths <- MCPaths
    Trees <- MCTrees
INVARIANT CreateIsExclusive
