SPECIFICATION Spec
CONSTANTS
    Contracts <- MCContracts
    MaxRepeats = 3
    MayFail = TRUE
    ZeroCall <- MCZeroCall
    Addresses = {"pool", "caller", "deployer"}
    Slots = {0, 1, 2, 3, 4, 7}
    WordSize = 8
    Bytecode <- MCBytecode
    Deployer = "deployer"
    Caller = "caller"
    Contract = "pool"
    Run <- MCRun
    Create <- MCCreate
    EmptyWorld <- MCEmptyWorld
    Ether = 1
CHECK_DEADLOCK FALSE
INVARIANTS
    TypeOK
    NoEffectPruned
    OwnEvidence
    WorstFirst
    OnlyGrowthCompounds
    OutputsAgree
    FirstPassKept
