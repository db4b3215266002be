\* One port and port_ptr's monitor timer firing for ever: is every completed
\* record eventually handled?
CONSTANTS
    Stale = Stale
    Codes <- MCCodes
    Ports <- MCPortsOne
    Lines <- MCLinesVer
    MaxLines = 2
    RecvEvent <- MCRecvEvent
    MaxRxInReset = 0
    MonitorEvent <- MCMonitorEvent
    Monitors <- MCMonitorsBoot
    MaxTicks <- MCTicksForever
SPECIFICATION Spec
PROPERTY CompletedEventuallyHandled
CHECK_DEADLOCK FALSE
