SPECIFICATION DeploymentSpec
CONSTANTS
    Networks = {"mainnet", "sepolia"}
    MaxMishaps = 3
    MaxOrders = 2
    MaxFaults = 2
    MaxReadFaults = 3
INVARIANT DeploymentIsSound
PROPERTY DeploymentEnds
CHECK_DEADLOCK FALSE
