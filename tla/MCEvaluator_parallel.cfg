SPECIFICATION Spec
CONSTANTS
    NumJobs = 2
    Name <- ParallelName
    Requested = 2
    Procs = 4
    Faults = {"deploy"}
    Writer <- ParallelWriter
    Reader <- ParallelReader
    Variants <- MCVariants
    MaxRepeats = 3
    Addresses = {"pool", "caller", "deployer"}
    Slots = {0, 1, 2}
    WordSize = 16
    Bytecode <- MCBytecode
    Deployer = "deployer"
    Caller = "caller"
    Contract = "pool"
    Run <- MCRun
    Create <- MCCreate
    EmptyWorld <- MCEmptyWorld
    Ether = 1
INVARIANTS
    TypeOK
    SameBaseline
PROPERTIES
    PoolKept
