SPECIFICATION Spec
CONSTANTS
    h1 = h1
    mail = mail
    p1 = p1
    p2 = p2
    Handles = {h1}
    Targets = {mail}
    Payloads = {p1, p2}
    NoPayload = NoPayload
    Kinds = {"gated", "plain"}
    FnMayRaise = FALSE
    MayRetry = TRUE
    MaxEffects = 3
INVARIANTS
    RecordsAgree
\* Once every step is completed and MaxEffects calls are made a host may rest.
CHECK_DEADLOCK FALSE
