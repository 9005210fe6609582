SPECIFICATION Spec
CONSTANTS
    Nodes = {n1, n2}
    TokenNames = {"erc20"}
    CircuitNames = {"joinsplit"}
    Deployments = {d1, d2}
    Stranger = stranger
    MaxRegistrations = 2
    MaxRestarts = 1
INVARIANTS
    InstanceIsFromTheChain
    DeployedCircuitsAreComplete
CHECK_DEADLOCK FALSE
