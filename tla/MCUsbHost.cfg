SPECIFICATION HostSpec
CONSTANTS
    dfu = dfu
    recovery = recovery
    restoreos = restoreos
    Products <- MCProducts
    RestoreOS = restoreos
    Unplugged = Unplugged
    NoProduct = NoProduct
    Idle = Idle
    MaxRetry = 2
    MaxChanges = 3
    Faulty = TRUE
INVARIANTS
    
    PublishedIsPresent
PROPERTIES
    DeviceIsPublished
CHECK_DEADLOCK FALSE
