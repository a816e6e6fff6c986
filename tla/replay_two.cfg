SPECIFICATION Spec
CONSTANTS
    h1 = h1
    h2 = h2
    mail = mail
    p1 = p1
    p2 = p2
    Handles = {h1, h2}
    Targets = {mail}
    Payloads = {p1, p2}
    NoPayload = NoPayload
    Kinds = {"gated", "unmarked", "plain"}
    FnMayRaise = TRUE
    MayRetry = TRUE
    MaxEffects = 3
INVARIANTS
    LedgerTruth
    LedgerComplete
\* Once every step is completed and MaxEffects calls are made a host may rest.
CHECK_DEADLOCK FALSE
