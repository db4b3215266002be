\* Two event codes and more than 16 sends: is delivery FIFO?
CONSTANTS
    t1 = t1
    t2 = t2
    Stale = Stale
    NoWake = NoWake
    Clients <- MCClientsOne
    Owner = t1
    Codes <- MCCodesTwo
    MaxSends = 18
SPECIFICATION Spec
CONSTRAINT MCKeepsUp
PROPERTY MailboxFifo
CHECK_DEADLOCK FALSE
