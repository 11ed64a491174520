CONSTANTS
    Contacts = {1, 3}
    Owner <- MCOwner
    Aor <- MCAor
    Target <- MCTarget
    MaxBindings = 2
    Faults = {"send", "owner", "flow", "iap", "early"}
SPECIFICATION FairSpec
INVARIANTS
    TypeOK
    RegistrarIsShared
    PendingIsAnswered
    RegisteredIsKept
    NoDeadOwner
    OneEnd
    CSeqGrows
PROPERTIES
    PendingEnds
