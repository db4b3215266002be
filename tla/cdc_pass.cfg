\* Two ports sharing the mailbox; a line with a wrong checksum and a short
\* line without parameters; at most one byte received during a reset.
CONSTANTS
    Stale = Stale
    Codes <- MCCodes
    Ports <- MCPortsTwo
    Lines <- MCLinesCrc
    MaxLines = 2
    RecvEvent <- MCRecvEvent
    MaxRxInReset = 1
    MonitorEvent <- MCMonitorEvent
    Monitors <- MCMonitorsBoot
    MaxTicks = 0
SPECIFICATION Spec
INVARIANT TypeOK
INVARIANT DispatchMatchesLine
PROPERTY FrozenWhilePending
\* The gheads stop after MaxLines lines; the task then waits forever.
CHECK_DEADLOCK FALSE
