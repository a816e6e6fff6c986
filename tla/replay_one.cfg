SPECIFICATION Spec
CONSTANTS
    h1 = h1
    crm = crm
    mail = mail
    p1 = p1
    p2 = p2
    Handles = {h1}
    Targets = {crm, mail}
    Payloads = {p1, p2}
    NoPayload = NoPayload
    Kinds = {"gated"}
    FnMayRaise = TRUE
    MayRetry = TRUE
    MaxEffects = 4
INVARIANTS
    TypeOK
    RecordsAgree
PROPERTIES
    CompletedNotRedone
\* Once every step is completed and MaxEffects calls are made a host may rest.
CHECK_DEADLOCK FALSE
