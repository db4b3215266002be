\* A five-parameter line, then a line without parameters; no byte arrives during a reset.
CONSTANTS
    Stale = Stale
    Codes <- MCCodes
    Ports <- MCPortsOne
    Lines <- MCLinesFive
    MaxLines = 2
    RecvEvent <- MCRecvEvent
    MaxRxInReset = 0
    MonitorEvent <- MCMonitorEvent
    Monitors <- MCMonitorsBoot
    MaxTicks = 2
SPECIFICATION Spec
INVARIANT DispatchMatchesLine
CHECK_DEADLOCK FALSE
