SPECIFICATION Spec
CONSTANTS
    MaxSize = 7
    MaxGap = 1
    Readers = {r1}
    Nil = Nil
INVARIANTS TypeOK CacheCorrect RootsCorrect AnswersCorrect
