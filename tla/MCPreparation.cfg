SPECIFICATION Spec
CONSTANTS
    Types <- MCTypes
    Abis <- MCAbis
    Deployer = "deployer"
    Caller = "caller"
    RequestedRounds = {0, 1, 5}
    MachineMayFail = TRUE
CHECK_DEADLOCK FALSE
INVARIANTS
    TypeOK
    FirstThatDeploys
    NonZeroDeploys
    EveryMethodOnce
    KeysMeet
    FuzzCoversZero
