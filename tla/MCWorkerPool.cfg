SPECIFICATION Spec
CONSTANTS
    NumJobs = 3
    Name <- MCName
    Result <- MCResult
    Nothing = "nothing"
    Requested = 5
    Procs = 4
    Faults = {"probeNew", "probeDeploy", "new", "deploy"}
INVARIANTS
    TypeOK
    NoSendOnClosed
    EachJobInOnePlace
    AllOrNothing
    Deterministic
PROPERTIES
    Termination
    PromiseKept
