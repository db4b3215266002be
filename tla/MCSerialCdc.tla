---------------------------- MODULE MCSerialCdc ----------------------------
(* Model-checking instance of SerialCdc.  Lines are byte sequences; the    *)
(* comment after each gives its text.  Event codes stand for the           *)
(* msg_event_t enumerators SERIAL_RECV_CHN1/2_EVENT and                     *)
(* SERIAL_MONITOR_CHN1/2_EVENT (msg_event_t.h is not in the repository).    *)
EXTENDS SerialCdc

LTemp    == <<77, 53, 48, 48, 48, 32, 83, 50, 53, 13>>                \* M5000 S25\r
LBadCrc  == <<77, 53, 48, 48, 48, 32, 83, 50, 53, 42, 54, 49, 13>>    \* M5000 S25*61\r
LVer     == <<77, 49, 49, 53, 13>>                                    \* M115\r
LFive    == <<77, 53, 48, 48, 48, 32, 65, 49, 32, 66, 50, 32, 67, 51,
              32, 68, 52, 32, 69, 53, 13>>                            \* M5000 A1 B2 C3 D4 E5\r
LWrapCrc == <<77, 53, 48, 48, 48, 32, 83, 50, 53, 42, 51, 49, 54, 13>> \* M5000 S25*316\r

MCPortsOne == {0}
MCPortsTwo == {0, 1}
MCCodes    == {1, 2, 3, 4}
MCRecvEvent == [p \in {0, 1} |-> p + 1]
MCMonitorEvent == [p \in {0, 1} |-> p + 3]
\* port_ptr = SERIAL1_PTR: only its monitor timer is started at boot.
MCMonitorsBoot == {0}
\* No bound on the monitor timer's firings.
MCTicksForever == -1

MCLinesFive   == {LFive, LVer}
MCLinesWrap   == {LWrapCrc}
MCLinesShort  == {LTemp, LVer}
MCLinesVer    == {LVer}
\* A line whose checksum is wrong, and a line without parameters.
MCLinesCrc    == {LBadCrc, LVer}
=============================================================================
