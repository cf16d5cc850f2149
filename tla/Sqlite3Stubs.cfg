SPECIFICATION Spec
CONSTANTS
    d1 = d1
    s1 = s1
    s2 = s2
    f = f
    NoDb = NoDb
    Dbs <- OneDb
    Stmts <- TwoStmts
    Names <- OneName
    Arities <- NullaryAndUnary
    MaxLinks = 3
SYMMETRY HandleSymmetry
CHECK_DEADLOCK FALSE
INVARIANTS
    TypeOK
    NoDanglingWrap
    NoDanglingConnection
    CollectedIsClosed
    CollectedIsFreed
    NullaryCellsAlive
