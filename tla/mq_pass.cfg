\* The serial task's mailbox with one event code: wake-ups and bounds.
CONSTANTS
    t1 = t1
    t2 = t2
    Stale = Stale
    NoWake = NoWake
    Clients <- MCClientsOne
    Owner = t1
    Codes <- MCCodesOne
    MaxSends = 17
SPECIFICATION Spec
INVARIANT TypeOK
INVARIANT NoLostWakeup
\* The producers are bounded; the task then waits for events forever.
CHECK_DEADLOCK FALSE
