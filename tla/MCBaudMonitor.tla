---------------------------- MODULE MCBaudMonitor ----------------------------
EXTENDS BaudMonitor

\* The bauds of the monitor's cycle.
MCGheadBauds == {19200, 115200, 230400}

=============================================================================
