SPECIFICATION FairSpec
CONSTANTS
    Recipients = {r1}
    Credentials = {r1}
    Workers = {w1, w2}
    Reconciler = Reconciler
    None = None
    MayStall = FALSE
    MaxFaults = 1
INVARIANTS TypeOK NoSecondSend SucceededMeansDelivered
PROPERTY EveryRecipientSettles
CHECK_DEADLOCK FALSE
