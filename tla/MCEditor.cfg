SPECIFICATION EditorSpec
CONSTANTS
    Path = {p1, p2}
    Content = {d1, d2}
    Template = d1
    Absent = Absent
    Call = {c1, c2}
SYMMETRY Symmetry
INVARIANT EditorTypeOK
INVARIANT BaselineAgrees
PROPERTY EditsKept
