SPECIFICATION ServerSpec
CONSTANTS
    Requests = {r1, r2}
    Batch = batch
    Conns = 1
SYMMETRY Symmetry
INVARIANT DrainsBeforeReturn
CHECK_DEADLOCK FALSE
