SPECIFICATION Spec
CONSTANTS
    Older = r1
    Runners = {r1, r2, r3, r4}
    Versions <- ThreeVersions
    Plans <- Builds
    Stmts <- TwoEach
    None = None
SYMMETRY Symmetry
INVARIANTS BookkeepingTells StartsMigrated
PROPERTIES StatementsInOrder
CHECK_DEADLOCK FALSE
