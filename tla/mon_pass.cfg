\* A ghead may be wired to either port; port_ptr is monitored from boot and the
\* host may start the other port's monitor, whose baud cycling then steps the
\* same cur_baud, and may send a 'B' command.  One plug or unplug event.
CONSTANTS
    Ports = {0, 1}
    PortPtr = 0
    GheadPorts = {0, 1}
    GheadBauds <- MCGheadBauds
    GH_BUAD_RATE_DEFINED = TRUE
    MaxPlugs = 1
    MaxHostCmds = 2
SPECIFICATION Spec
INVARIANT TypeOK
PROPERTY AbsenceReported
PROPERTY GheadFound
