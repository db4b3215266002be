\* Host commands replying through mprintf; the stale digits of myitoa.
CONSTANTS
    Ports = {0, 1}
    PortPtr = 0
    HostBytes <- MCHostBytes
    HostVals <- MCHostVals
    TransData <- MCTransData
    MaxCalls = 2
SPECIFICATION Spec
INVARIANT RepliesRendered
\* The host stops after MaxCalls commands.
CHECK_DEADLOCK FALSE
