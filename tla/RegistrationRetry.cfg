CONSTANTS
    Contacts = {1, 2}
    Owner <- MCOwner
    Aor <- MCAor
    Target <- MCTarget
    MaxBindings = 2
    Faults = {}
SPECIFICATION Spec
INVARIANT
    RetryIsAnswered
