SPECIFICATION Spec
CONSTANTS
    NumJobs = 1
    Name <- OneName
    Requested = 1
    Procs = 4
    Faults = {}
    Writer <- BumpingWriter
    Reader <- SwapReader
    Variants <- MCVariants
    MaxRepeats = 3
    Addresses = {"pool", "caller", "deployer"}
    Slots = {0, 1, 2}
    WordSize = 16
    Bytecode <- MCBytecode
    Deployer = "deployer"
    Caller = "caller"
    Contract = "pool"
    Run <- MCRun
    Create <- MCCreate
    EmptyWorld <- MCEmptyWorld
    Ether = 1
INVARIANTS
    LargestChange
