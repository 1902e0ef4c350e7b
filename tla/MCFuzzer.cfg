SPECIFICATION Spec
CONSTANTS
    NumJobs = 3
    Name <- MCName
    Requested = 2
    Procs = 4
    Faults = {"deploy"}
    Addresses = {"pool", "helper", "caller", "deployer"}
    Slots = {0, 1, 2}
    WordSize = 8
    Inputs <- MCInputs
    Variants <- MCVariants
    Bytecode <- MCBytecode
    Deployer = "deployer"
    Caller = "caller"
    Contract = "pool"
    Run <- MCRun
    Create <- MCCreate
    EmptyWorld <- MCEmptyWorld
    Ether = 1
INVARIANTS
    TypeOK
    SameBaseline
    ChangesAreRecorded
    FootprintsByHand
PROPERTIES
    PoolKept
