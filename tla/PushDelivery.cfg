SPECIFICATION Spec
CONSTANTS
    Tokens = {t1}
    RetryCodes = {unavailable}
    Workers = {w1, w2}
    Reconciler = Reconciler
    None = None
    MayStall = TRUE
    MaxFaults = 1
INVARIANTS TypeOK SentMeansAccepted KnownSentIsNotResent
PROPERTY OutcomesAreFinal
SYMMETRY Symmetry
