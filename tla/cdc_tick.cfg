\* One port with port_ptr's monitor timer firing for ever: the mailbox passes
\* its 16th message, msg_n is overwritten, and stale events are read.
CONSTANTS
    Stale = Stale
    Codes <- MCCodes
    Ports <- MCPortsOne
    Lines <- MCLinesShort
    MaxLines = 2
    RecvEvent <- MCRecvEvent
    MaxRxInReset = 0
    MonitorEvent <- MCMonitorEvent
    Monitors <- MCMonitorsBoot
    MaxTicks <- MCTicksForever
SPECIFICATION Spec
INVARIANT DispatchMatchesLine
 
\* The gheads stop after MaxLines lines; the timer still fires.
CHECK_DEADLOCK FALSE
