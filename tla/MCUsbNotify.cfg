SPECIFICATION NotifySpec

    
PROPERTIES
    ServicesNeverGoBack
    EventuallyMatched
    EventuallyRemoved
CONSTANTS
    recovery = recovery
    restoreos = restoreos
    restore = restore
    Products <- MCProducts
    RestoreOS = restoreos
    NoProduct = NoProduct
    Waiting = Waiting
    Queues <- MCOneQueue
    Registrations <- MCOnOneQueue
    MaxGeneration = 3
    MaxFailures = 1
CHECK_DEADLOCK FALSE
