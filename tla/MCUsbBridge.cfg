SPECIFICATION BridgeSpec

    
    
PROPERTIES
    RequestsAnswered
CONSTANTS
    recovery = recovery
    restoreos = restoreos
    c1 = c1
    Products <- MCProducts
    RestoreOS = restoreos
    Unplugged = Unplugged
    NoProduct = NoProduct
    Idle = Idle
    Clients <- MCOneClient
    Worker = Worker
    Nobody = Nobody
    MaxRetry = 0
    MaxChanges = 1
    Faulty = FALSE
    Operations = {"GET_STATE", "CONTROL", "RESET", "CREATE_ENDPOINT"}
CHECK_DEADLOCK FALSE
