SPECIFICATION Spec
CONSTANTS
    NumJobs = 7
    Name <- BranchName
    Requested = 1
    Procs = 4
    Faults = {}
    Writer <- BranchWriter
    Reader <- BranchReader
    Variants <- MCVariants
    MaxRepeats = 3
    Addresses = {"pool", "caller", "deployer"}
    Slots = {0, 1, 2}
    WordSize = 16
    Bytecode <- MCBytecode
    Deployer = "deployer"
    Caller = "caller"
    Contract = "pool"
    Run <- MCRun
    Create <- MCCreate
    EmptyWorld <- MCEmptyWorld
    Ether = 1
INVARIANTS
    ImpactsReplay
    NothingMissed
PROPERTIES
    PoolKept
