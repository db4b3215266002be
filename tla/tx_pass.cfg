\* One port, no received bytes: the task and the TXRDY interrupt alone.
CONSTANTS
    MAX_SEND_LEN = 4
    Chunks <- MCChunks
    MaxChunks = 3
    MaxRx = 0
SPECIFICATION Spec
INVARIANT TypeOK
PROPERTY FifoSafe
\* The producers stop after MaxChunks calls; the port then stays idle.
CHECK_DEADLOCK FALSE
