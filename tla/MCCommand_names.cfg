SPECIFICATION Spec
CONSTANTS
    Uses <- OneUse
    Contracts <- LikeNames
    MaxRepeats = 2
    MayFail = TRUE
    OutputMayFail = TRUE
    Signature <- Signatures
    CreateAt <- MCCreateAt
    StateAt <- MCStateAt
    Addresses = {"pool", "first", "second", "caller", "deployer"}
    Slots = {0, 1, 2, 3, 4, 5, 6, 7, 8}
    WordSize = 16
    Bytecode <- MCBytecode
    Deployer = "deployer"
    Caller = "caller"
    Contract = "pool"
    Run <- MCRun
    Create <- MCCreate
    EmptyWorld <- MCEmptyWorld
    Ether = 1
INVARIANTS
    UniqueNames
