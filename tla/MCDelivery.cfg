SPECIFICATION DeliverySpec
CONSTANTS
    r1 = r1  r2 = r2  r3 = r3
    None = None
    Runs = {r1, r2, r3}
    Silent = {r3}
    Deaf = {r1}
    Limit = 2
    MaxCrashes = 1
    Ticker = Ticker
    Sessions = {1}
    MaxLines = 2
PROPERTIES FailuresAreTold HttpTurnsAreTrue 
CHECK_DEADLOCK FALSE
