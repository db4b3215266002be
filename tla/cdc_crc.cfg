\* A trailer that is not the checksum but equals it modulo 256.
CONSTANTS
    Stale = Stale
    Codes <- MCCodes
    Ports <- MCPortsOne
    Lines <- MCLinesWrap
    MaxLines = 1
    RecvEvent <- MCRecvEvent
    MaxRxInReset = 0
    MonitorEvent <- MCMonitorEvent
    Monitors <- MCMonitorsBoot
    MaxTicks = 2
SPECIFICATION Spec
INVARIANT CrcRespected
CHECK_DEADLOCK FALSE
