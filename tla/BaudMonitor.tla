----------------------------- MODULE BaudMonitor -----------------------------
(***************************************************************************)
(* The ghead liveness monitor and baud cycling of serial_cdc.c.            *)
(*                                                                         *)
(* A monitor is a Klipper timer (monitor_ghead1/2) that every second sends *)
(* a SERIAL_MONITOR event to msg_box; the serial task then runs            *)
(* monitor_ch_fuc for that port.  init_serial_cdc starts only port_ptr's   *)
(* monitor; the host command ghead_start_monitor_ghead starts another one. *)
(* Both timers have the same period, so once started they fire in a fixed *)
(* round-robin order: the sequence mons.  A timer event and its handling   *)
(* are one step (Tick); the mailbox delivers events in order.              *)
(*                                                                         *)
(* While the ghead is present, a tick counts wait_count up and declares it *)
(* absent at GHEAD_TIMEOUT_COUNT; every valid command from the ghead       *)
(* (cmd_handle -> refresh_ghead_in_status) resets the count and declares   *)
(* it present.  While absent, every fourth tick steps the one cur_baud     *)
(* shared by all ports through 19200 -> 115200 -> 230400 and reinitialises *)
(* the port at it with serial_init_t.  The host command 'B' also writes    *)
(* cur_baud and reinitialises port_ptr.                                    *)
(*                                                                         *)
(* Environment: a ghead listens at a fixed baud gb[p]; its lines are only  *)
(* received as valid commands when the port runs at that baud.  The ghead  *)
(* may be unplugged and plugged again.                                     *)
(***************************************************************************)
EXTENDS Integers, SequencesExt

CONSTANTS
    Ports,                 \* {0, 1}: SERIAL1_PTR, SERIAL2_PTR
    PortPtr,               \* port_ptr, the port monitored from boot
    GheadPorts,            \* the ports a ghead is wired to
    GheadBauds,            \* the bauds a ghead may listen at
    GH_BUAD_RATE_DEFINED,  \* whether CONFIG_GH_BUAD_RATE is defined
    MaxPlugs,              \* bound on plug and unplug events
    MaxHostCmds            \* bound on host commands

ASSUME /\ PortPtr \in Ports /\ GheadPorts \subseteq Ports
       /\ GH_BUAD_RATE_DEFINED \in BOOLEAN

VARIABLES
    inn,       \* ghead_p[p].is_ghead_in
    wait,      \* ghead_p[p].wait_count
    wcount,    \* wcount[p]
    cur_baud,  \* cur_baud
    pb,        \* the baud port p was last initialised at (UART_BRGR)
    mons,      \* the started monitor timers, in firing order
    turn,      \* the index in mons of the timer that fires next
    plugged,   \* environment: whether a ghead is attached to p
    gb,        \* environment: the baud the ghead on p listens at
    plugs,     \* bound counter: plug and unplug events so far
    hostCmds   \* bound counter: host commands so far

vars == <<inn, wait, wcount, cur_baud, pb, mons, turn, plugged, gb, plugs,
          hostCmds>>

GHEAD_TIMEOUT_COUNT == 5
DEFAULT_BAUD_RATE == 115200

\* set_normal_cmd 'B': the value selects one of six bauds.
BaudTable == <<9600, 19200, 38400, 57600, 115200, 230400>>
Bauds == {BaudTable[i] : i \in 1 .. 6}

\* The baud serial_init_t really programs: without CONFIG_GH_BUAD_RATE it
\* ignores its argument.
SerialInitBaud(b) == IF GH_BUAD_RATE_DEFINED THEN b ELSE DEFAULT_BAUD_RATE

\* A mutant of CycleNext that leaves 19200 out of the cycle.
CycleNextSkip(b) == IF b = 115200 THEN 230400 ELSE 115200

\* monitor_ch_fuc's switch(cur_baud).
CycleNext(b) ==
    CASE b = 19200  -> 115200
      [] b = 115200 -> 230400
      [] OTHER      -> 19200      \* 230400 and default

Monitored(p) == p \in ToSet(mons)

\* serial_init: serial_init_t(SERIAL1_PTR, 115200), (SERIAL2_PTR, 230400).
Init ==
    /\ inn      = [p \in Ports |-> FALSE]
    /\ wait     = [p \in Ports |-> 0]
    /\ wcount   = [p \in Ports |-> 0]
    /\ cur_baud = 115200
    /\ pb       = [p \in Ports |-> SerialInitBaud(IF p = 0 THEN 115200
                                                           ELSE 230400)]
    /\ mons     = <<PortPtr>>
    /\ turn     = 1
    /\ plugged  \in [Ports -> BOOLEAN]
    /\ \A p \in Ports \ GheadPorts : ~plugged[p]
    /\ gb       \in [Ports -> GheadBauds]
    /\ plugs    = 0
    /\ hostCmds = 0

-----------------------------------------------------------------------------
(* monitor_ch_fuc(p), its two branches.                                    *)

\* A mutant of MonitorPresent that forgets wait_count++.
MonitorPresentNoCount(p) ==
    /\ inn[p]
    /\ wcount' = [wcount EXCEPT ![p] = 0]
    /\ UNCHANGED <<inn, wait, cur_baud, pb>>

MonitorPresent(p) ==
    /\ inn[p]
    /\ wcount' = [wcount EXCEPT ![p] = 0]
    /\ IF wait[p] + 1 >= GHEAD_TIMEOUT_COUNT
          THEN /\ wait' = [wait EXCEPT ![p] = 0]
               /\ inn'  = [inn EXCEPT ![p] = FALSE]  \* report_ghead_in_s
          ELSE /\ wait' = [wait EXCEPT ![p] = @ + 1]
               /\ UNCHANGED inn
    /\ UNCHANGED <<cur_baud, pb>>

\* A mutant of CycleDue that is off by one.
CycleDueLate(p) == wcount[p] + 1 > 4

\* wcount[p]++ reaches the cycling threshold.
CycleDue(p) == wcount[p] + 1 > 3

MonitorAbsent(p) ==
    /\ ~inn[p]
    /\ IF CycleDue(p)
          THEN /\ wcount'   = [wcount EXCEPT ![p] = 0]
               /\ cur_baud' = CycleNext(cur_baud)
               /\ pb' = [pb EXCEPT ![p] = SerialInitBaud(CycleNext(cur_baud))]
          ELSE /\ wcount' = [wcount EXCEPT ![p] = @ + 1]
               /\ UNCHANGED <<cur_baud, pb>>
    /\ UNCHANGED <<inn, wait>>

\* The next timer fires (monitor_ghead1/2 -> send_msg -> serial_cdc_run_task
\* -> monitor_ch_fuc) and is rescheduled one period later.
Tick ==
    LET p == mons[turn] IN
    /\ turn' = (turn % Len(mons)) + 1
    /\ MonitorPresent(p) \/ MonitorAbsent(p)
    /\ UNCHANGED <<mons, plugged, gb, plugs, hostCmds>>

\* cmd_handle classified a command from the ghead on p, which is only
\* received intact when p runs at the ghead's baud.
RefreshGheadInStatus(p) ==
    /\ plugged[p]
    /\ pb[p] = gb[p]
    /\ wait' = [wait EXCEPT ![p] = 0]
    /\ IF ~inn[p]
          THEN /\ inn'    = [inn EXCEPT ![p] = TRUE]  \* report_ghead_in_s
               /\ wcount' = [wcount EXCEPT ![p] = 0]
          ELSE UNCHANGED <<inn, wcount>>
    /\ UNCHANGED <<cur_baud, pb, mons, turn, plugged, gb, plugs, hostCmds>>

\* set_normal_cmd, case 'B': val 0..5 selects a baud, any other value keeps
\* cur_baud; then serial_init_t(port_ptr, cur_baud).
SetBaudCmd(val) ==
    /\ hostCmds < MaxHostCmds
    /\ hostCmds' = hostCmds + 1
    /\ cur_baud' = IF val + 1 \in DOMAIN BaudTable THEN BaudTable[val + 1]
                                                ELSE cur_baud
    /\ pb' = [pb EXCEPT ![PortPtr] = SerialInitBaud(cur_baud')]
    /\ UNCHANGED <<inn, wait, wcount, mons, turn, plugged, gb, plugs>>

\* start_monitor_ghead_cmd(ptr) for a port whose timer is not running: the
\* timer joins the round at the phase its first wake time gives it.
StartMonitorCmd(p) ==
    /\ hostCmds < MaxHostCmds
    /\ ~Monitored(p)
    /\ hostCmds' = hostCmds + 1
    /\ \E i \in 1 .. Len(mons) + 1 :
          /\ mons' = InsertAt(mons, i, p)
          /\ turn' = IF i <= turn THEN turn + 1 ELSE turn
    /\ UNCHANGED <<inn, wait, wcount, cur_baud, pb, plugged, gb, plugs>>

\* The ghead on p is unplugged or plugged in again.
TogglePlug(p) ==
    /\ p \in GheadPorts
    /\ plugs < MaxPlugs
    /\ plugs' = plugs + 1
    /\ plugged' = [plugged EXCEPT ![p] = ~@]
    /\ UNCHANGED <<inn, wait, wcount, cur_baud, pb, mons, turn, gb, hostCmds>>

Next ==
    \/ Tick
    \/ \E p \in Ports : RefreshGheadInStatus(p)
    \/ \E val \in 0 .. 6 : SetBaudCmd(val)
    \/ \E p \in Ports : StartMonitorCmd(p)
    \/ \E p \in Ports : TogglePlug(p)

(* The timers fire every second (WF on Tick).  A ghead talks continually:  *)
(* whenever its port keeps reaching its baud, one of its commands gets     *)
(* through (SF, since baud cycling may move the port away again).  Host    *)
(* commands and plugging are the environment's choice: no fairness.       *)
Spec == /\ Init /\ [][Next]_vars
        /\ WF_vars(Tick)
        /\ \A p \in Ports : SF_vars(RefreshGheadInStatus(p))

-----------------------------------------------------------------------------
TypeOK ==
    /\ inn \in [Ports -> BOOLEAN]
    /\ wait \in [Ports -> 0 .. GHEAD_TIMEOUT_COUNT - 1]
    /\ wcount \in [Ports -> 0 .. 3]
    /\ cur_baud \in Bauds
    /\ pb \in [Ports -> Bauds]
    /\ turn \in 1 .. Len(mons)

\* monitor_ch_fuc: a ghead that stops talking on a monitored port is
\* eventually reported absent (is_ghead_in cleared, report_ghead_in_s).
AbsenceReported ==
    \A p \in GheadPorts :
        (Monitored(p) /\ inn[p] /\ ~plugged[p]) ~> (~inn[p] \/ plugged[p])

\* Baud cycling in monitor_ch_fuc: a plugged ghead on a monitored port is
\* eventually found, whatever baud it listens at, although the cycle runs
\* on one cur_baud that the other port's monitor and the host also step.
GheadFound ==
    \A p \in GheadPorts :
        (Monitored(p) /\ plugged[p] /\ ~inn[p]) ~> (inn[p] \/ ~plugged[p])

=============================================================================
