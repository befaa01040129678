SPECIFICATION OpenSpec
CONSTANTS
    Older = r1
    Runners = {r1, r2, r3}
    Versions <- ThreeVersions
    Plans <- Builds
    Suffixes <- Names
    None = None
SYMMETRY Symmetry
INVARIANTS VersionTells StartsMigrated StorageJudged
CHECK_DEADLOCK FALSE
