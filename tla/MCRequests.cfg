SPECIFICATION BothSpec
CONSTANTS
    Requests = {r1, r2}
    Subs <- TwoSubs
    Roles = {default, other}
    Default = default
    None = None
SYMMETRY Symmetry
INVARIANTS OneResponse AnswerTells
PROPERTIES ActsWithPermission
CHECK_DEADLOCK FALSE
