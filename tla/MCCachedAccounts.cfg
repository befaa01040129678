SPECIFICATION FairSpec
CONSTANTS
    Keys = {k1,k2}
    Shards <- OneShard
    ShardOf <- Collide
    Readers = {p1}
    Writers = {w1, w2}
    MaxWrites = 1
INVARIANTS ReadFresh
PROPERTIES UncoordinatedVisible
CHECK_DEADLOCK FALSE
