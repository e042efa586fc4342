SPECIFICATION Spec
CONSTANTS
    MaxSize = 3
    Savers = {s1, s2}
    Nil = Nil
INVARIANT RowIsCompactState
