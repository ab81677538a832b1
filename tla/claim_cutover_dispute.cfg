SPECIFICATION CutoverSpec
CONSTANTS
    Networks = {"mainnet"}
    MaxMishaps = 0
    MaxOrders = 1
    MaxFaults = 0
    MaxReadFaults = 0
INVARIANT NewOrdersDisputable
CHECK_DEADLOCK FALSE
