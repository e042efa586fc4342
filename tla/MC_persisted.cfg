SPECIFICATION Spec
CONSTANTS
    MaxSize = 7
    Savers = {s1, s2}
    Nil = Nil
INVARIANTS TypeOK RowRestorable  CutColumnRefused
PROPERTY RangeStaysCorrect
