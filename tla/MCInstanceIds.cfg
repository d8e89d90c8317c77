CONSTANTS
    Threads = {t1, t2}
    Block = 2
    Word = 4
    MaxId = 6
    NoId = NoId
SPECIFICATION Spec
INVARIANTS TypeOK    FreedIsReusable
SYMMETRY Symmetry
