SPECIFICATION FairSpec
CONSTANTS
    Tokens = {t1, t2}
    RetryCodes = {unavailable}
    Workers = {w1}
    Reconciler = Reconciler
    None = None
    MayStall = FALSE
    MaxFaults = 1
PROPERTY DeliveryIsDecided
