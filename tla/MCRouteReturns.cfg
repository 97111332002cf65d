SPECIFICATION Spec
CONSTANTS
    Models = {"m1", "m2"}
    Configs <- MCConfigs
    Environments <- MCEnvironments
    Requests = {}
    Loads <- MCLoads
CHECK_DEADLOCK FALSE
PROPERTIES
    NoRouteReturns
