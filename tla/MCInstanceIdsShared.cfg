CONSTANTS
    Threads = {t1}
    Block = 2
    Word = 4
    MaxId = 9
    NoId = NoId
SPECIFICATION Spec
INVARIANT NextIsFree
