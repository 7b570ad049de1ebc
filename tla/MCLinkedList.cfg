SPECIFICATION Spec
SYMMETRY ItemSymmetry
CONSTANTS
    NULL = NULL
    Items = {i1, i2, i3, i4}
    i1 = i1
    i2 = i2
    i3 = i3
    i4 = i4
    ListIds = {l1, l2}
    l1 = l1
    l2 = l2
    Values = {0, 1, 2}
INVARIANT RingsIntact
PROPERTY ListsAreSequences
