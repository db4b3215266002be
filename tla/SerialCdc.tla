------------------------------ MODULE SerialCdc ------------------------------
(***************************************************************************)
(* The ghead link of serial_cdc.c: per port, the UART receive interrupt    *)
(* feeds each byte to cmd_rec (uart_interrupt_callback -> rec_dat ->       *)
(* gcode_recv_dat -> recv_dat -> cmd_rec); a completed line sends the      *)
(* port's RECV event to the mailbox msg_box; the cooperative task          *)
(* serial_cdc_run_task reads one event per wake-up and runs cmd_handle,    *)
(* which checks, classifies and dispatches the record and then clears it   *)
(* with cmd_reset_rec.  The interrupt may run between any two statements   *)
(* of the task: read_msg is split at its store of mlen (as in MsgQueue),   *)
(* and cmd_reset_rec at each of its statements.  Up to the reset, cmd_     *)
(* handle only reads a record the interrupt leaves alone while it is       *)
(* complete (property FrozenWhilePending), so that part is one step.       *)
(*                                                                         *)
(* The gheads are the environment: each sends whole lines, taken from      *)
(* Lines, one byte per interrupt.  The started monitor timers are the      *)
(* mailbox's other producers: monitor_ghead1/2 send a MONITOR event every  *)
(* second, forever.  The task handles such an event with monitor_ch_fuc,   *)
(* which touches neither a record nor the mailbox (BaudMonitor models it). *)
(***************************************************************************)
EXTENDS MsgQueueOps, CmdRec

CONSTANTS
    Ports,          \* the ports in use, a subset of {0, 1}
    Lines,          \* the lines a ghead may send, each ending in a terminator
    MaxLines,       \* bound on the lines sent per port
    RecvEvent,      \* RecvEvent[p]: SERIAL_RECV_CHN1/2_EVENT
    MaxRxInReset,   \* bound on the bytes received on a port while the task
                    \* is inside cmd_reset_rec for that port
    MonitorEvent,   \* MonitorEvent[p]: SERIAL_MONITOR_CHN1/2_EVENT
    Monitors,       \* the ports whose monitor timer runs (port_ptr's from boot)
    MaxTicks        \* bound on monitor timer firings; -1: none (the timer
                    \* reschedules itself forever)

ASSUME /\ Ports \subseteq {0, 1} /\ Monitors \subseteq Ports
       /\ \A p \in Ports : {RecvEvent[p], MonitorEvent[p]} \subseteq Codes

VARIABLES
    rec,          \* rec_cmd[p]
    mbox,         \* *msg_box
    woken,        \* serial_task_wake
    tpc,          \* the task: "idle", "read" (inside read_msg), "reset"
    tport,        \* the port whose record the task is resetting
    rst,          \* the next statement of cmd_reset_rec
    tmp,          \* the mlen value read_msg has loaded
    res,          \* the event read_msg returns
    wire,         \* wire[p]: bytes of the line still to arrive on port p
    sentLines,    \* sentLines[p]: lines sent so far on port p
    rxInReset,    \* bytes received on tport during the current reset
    since,        \* history: bytes received on p since its last terminator
    pendingLine,  \* history: the bytes of the line that completed rec[p]
    lastDispatch, \* history: the last dispatched command, or NoDispatch
    ticked,       \* ticked[m]: m's timer fired since the task last ran
    ticks         \* monitor timer firings so far, counted only under MaxTicks

vars == <<rec, mbox, woken, tpc, tport, rst, tmp, res, wire, sentLines,
          rxInReset, since, pendingLine, lastDispatch, ticked, ticks>>

NoDispatch == [port |-> -1, line |-> <<>>, name |-> <<>>, params |-> {}]

Init ==
    /\ rec          = [p \in Ports |-> ZeroRec]
    /\ mbox         = ZeroBox("serial")   \* created by init_serial_cdc
    /\ woken        = FALSE
    /\ tpc          = "idle"
    /\ tport        = CHOOSE p \in Ports : TRUE
    /\ rst          = 0
    /\ tmp          = 0
    /\ res          = 0
    /\ wire         = [p \in Ports |-> <<>>]
    /\ sentLines    = [p \in Ports |-> 0]
    /\ rxInReset    = 0
    /\ since        = [p \in Ports |-> <<>>]
    /\ pendingLine  = [p \in Ports |-> <<>>]
    /\ lastDispatch = NoDispatch
    /\ ticked       = [m \in Monitors |-> FALSE]
    /\ ticks        = 0

\* The ghead on port p starts sending a line.
GheadSend(p) ==
    /\ wire[p] = <<>>
    /\ sentLines[p] < MaxLines
    /\ \E l \in Lines : wire' = [wire EXCEPT ![p] = l]
    /\ sentLines' = [sentLines EXCEPT ![p] = @ + 1]
    /\ UNCHANGED <<rec, mbox, woken, tpc, tport, rst, tmp, res, rxInReset,
                   since, pendingLine, lastDispatch, ticked, ticks>>

(***************************************************************************)
(* The UART receive interrupt of port p: cmd_rec on the next byte; when    *)
(* complete_rec runs, send_msg(msg_box, RecvEvent[p]), whose wake_task is  *)
(* wake_serialtask.                                                        *)
(***************************************************************************)
InResetOf(p) == tpc = "reset" /\ tport = p

RxByte(p) ==
    /\ wire[p] # <<>>
    /\ InResetOf(p) => rxInReset < MaxRxInReset
    /\ LET dat  == Head(wire[p])
           line == Append(since[p], dat)
       IN  \E o \in CmdRecStep(rec[p], dat) :
             /\ rec'   = [rec EXCEPT ![p] = o.rec]
             /\ IF o.done
                THEN /\ mbox'  = SendMsg(mbox, RecvEvent[p])
                     /\ woken' = (woken \/ SendAccepted(mbox))
                     /\ pendingLine' = [pendingLine EXCEPT ![p] = line]
                ELSE UNCHANGED <<mbox, woken, pendingLine>>
             /\ since' = [since EXCEPT ![p] = IF dat \in Terminator THEN <<>> ELSE line]
    /\ wire' = [wire EXCEPT ![p] = Tail(@)]
    /\ rxInReset' = IF InResetOf(p) THEN rxInReset + 1 ELSE rxInReset
    /\ UNCHANGED <<tpc, tport, rst, tmp, res, sentLines, lastDispatch, ticked, ticks>>

(***************************************************************************)
(* The timer interrupt of a started monitor m (monitor_ghead1/2):          *)
(* send_msg(msg_box, MonitorEvent[m]), then SF_RESCHEDULE one second       *)
(* later.  A second is far longer than the task takes to run, so the timer *)
(* fires again only after the task has run (TaskRead clears ticked).       *)
(***************************************************************************)
MonitorTick(m) ==
    /\ ~ticked[m]
    /\ MaxTicks < 0 \/ ticks < MaxTicks
    /\ ticked' = [ticked EXCEPT ![m] = TRUE]
    /\ ticks'  = IF MaxTicks < 0 THEN ticks ELSE ticks + 1
    /\ mbox'   = SendMsg(mbox, MonitorEvent[m])
    /\ woken'  = (woken \/ SendAccepted(mbox))
    /\ UNCHANGED <<rec, tpc, tport, rst, tmp, res, wire, sentLines, rxInReset,
                   since, pendingLine, lastDispatch>>

(***************************************************************************)
(* serial_cdc_run_task: sched_check_wake, then read_msg up to its store of *)
(* the decremented mlen (MSG_ERROR on an empty mailbox ends the run).      *)
(***************************************************************************)
TaskRead ==
    /\ tpc = "idle"
    /\ woken
    /\ woken' = FALSE
    /\ ticked' = [m \in Monitors |-> FALSE]
    /\ UNCHANGED ticks
    /\ IF Readable(mbox)
       THEN \E o \in ReadMsgBegin(mbox) :
              /\ mbox' = o.q
              /\ tmp'  = o.tmp
              /\ res'  = o.res
              /\ tpc'  = "read"
       ELSE UNCHANGED <<mbox, tmp, res, tpc>>
    /\ UNCHANGED <<rec, tport, rst, wire, sentLines, rxInReset, since,
                   pendingLine, lastDispatch>>

(***************************************************************************)
(* The rest of read_msg, the switch on the event, and cmd_handle(p) up to  *)
(* cmd_reset_rec: with the record complete, the CRC check; when it passes  *)
(* and cmd_ans_new names a command, the dispatch; then busy is cleared.    *)
(* An event whose record is not complete does nothing.                     *)
(***************************************************************************)
TaskHandle ==
    /\ tpc = "read"
    /\ mbox'  = ReadMsgEnd(mbox, tmp)
    /\ woken' = (woken \/ ReadRewakes(tmp))
    /\ IF \E p \in Ports : res = RecvEvent[p] /\ rec[p].cmd_rec_complete_flag
       THEN LET p == CHOOSE q \in Ports : res = RecvEvent[q]
            IN  \E ok \in CrcCheck(rec[p]) :
                  /\ lastDispatch' =
                        IF ok /\ CmdAnsNew(rec[p]) # "ERROR_CMD"
                        THEN [port |-> p, line |-> pendingLine[p],
                              name |-> Str(rec[p].cmd), params |-> ParamsOf(rec[p])]
                        ELSE lastDispatch
                  /\ rec'   = [rec EXCEPT ![p].cmd_handle_busy = FALSE]
                  /\ tpc'   = "reset"
                  /\ tport' = p
                  /\ rst'   = 1
                  /\ rxInReset' = 0
       ELSE /\ tpc' = "idle"
            /\ UNCHANGED <<rec, tport, rst, rxInReset, lastDispatch>>
    /\ UNCHANGED <<tmp, res, wire, sentLines, since, pendingLine, ticked, ticks>>

\* One statement of cmd_reset_rec(tport).
TaskReset ==
    /\ tpc = "reset"
    /\ rec' = [rec EXCEPT ![tport] = ResetStore(@, rst)]
    /\ rst' = IF rst = RESET_STEPS THEN 0 ELSE rst + 1
    /\ tpc' = IF rst = RESET_STEPS THEN "idle" ELSE "reset"
    /\ UNCHANGED <<mbox, woken, tport, tmp, res, wire, sentLines, rxInReset,
                   since, pendingLine, lastDispatch, ticked, ticks>>

Next ==
    \/ \E p \in Ports : GheadSend(p) \/ RxByte(p)
    \/ \E m \in Monitors : MonitorTick(m)
    \/ TaskRead
    \/ TaskHandle
    \/ TaskReset

\* Klipper's scheduler runs a woken task; a task runs to its end; a started
\* monitor timer reschedules itself every second.
Spec == Init /\ [][Next]_vars
             /\ WF_vars(TaskRead) /\ WF_vars(TaskHandle) /\ WF_vars(TaskReset)
             /\ \A m \in Monitors : WF_vars(MonitorTick(m))

-----------------------------------------------------------------------------
(***************************************************************************)
(* The spec's reading of a line (spec 4.4, 6): the name is the first       *)
(* space-separated token before any `*` or terminator, each further token  *)
(* is a parameter (tag letter, value), the k-th in slot k; the trailer     *)
(* after `*` is the decimal XOR of the bytes before it.                    *)
(***************************************************************************)
RECURSIVE SplitSp(_, _)
SplitSp(s, tok) ==
    IF s = <<>> THEN <<tok>>
    ELSE IF Head(s) = SP THEN <<tok>> \o SplitSp(Tail(s), <<>>)
    ELSE SplitSp(Tail(s), Append(tok, Head(s)))

SpecBody(line) ==
    LET k == SelectInSeq(line, LAMBDA b : b = STAR \/ b \in Terminator)
    IN  IF k = 0 THEN line ELSE SubSeq(line, 1, k - 1)

SpecTokens(line) == SplitSp(SpecBody(line), <<>>)

SpecName(line) == SpecTokens(line)[1]

SpecParams(line) ==
    LET t == SpecTokens(line)
    IN  { <<j - 2, Head(t[j]), Tail(t[j])>> : j \in {j \in 2 .. Len(t) : t[j] # <<>>} }

SpecCrcOk(line) ==
    LET k     == SelectInSeq(line, LAMBDA b : b = STAR)
        trail == SubSeq(line, k + 1, Len(line))
    IN  k = 0 \/ AtoiDigits(trail, 0) = FoldLeft(Xor8, 0, SubSeq(line, 1, k - 1))

-----------------------------------------------------------------------------
TypeOK ==
    /\ \A p \in Ports :
         /\ rec[p].cmd_ptr \in 0 .. 15
         /\ rec[p].cmd_rec_step \in Byte /\ rec[p].cmd_val_ptr \in Byte
         /\ rec[p].cmd_rec_ptr \in Byte /\ rec[p].crc_ptr \in Byte
         /\ rec[p].is_crc \in Byte
         /\ rec[p].cmd_rec_complete_flag \in BOOLEAN
         /\ rec[p].cmd_handle_busy \in BOOLEAN
         /\ \A k \in 0 .. MAX_CMD_N - 1 :
              rec[p].cmd_val[k].val_type \in Byte /\ rec[p].cmd_val[k].val_ptr \in Byte
    /\ mbox.mem \in [0 .. LAST_DATA -> Byte \cup {Stale}]
    /\ woken \in BOOLEAN
    /\ tpc \in {"idle", "read", "reset"}
    /\ tport \in Ports
    /\ rst \in 0 .. RESET_STEPS
    /\ tmp \in Byte /\ res \in Byte
    /\ sentLines \in [Ports -> 0 .. MaxLines]
    /\ rxInReset \in 0 .. MaxRxInReset
    /\ ticked \in [Monitors -> BOOLEAN]

(***************************************************************************)
(* A pending record is frozen: while rec_cmd[p] is complete and waits for  *)
(* the task, a byte received on p (cmd_rec in the UART interrupt) leaves   *)
(* the record unchanged.  This is what makes cmd_handle's unsynchronised   *)
(* reads of the record safe.                                               *)
(***************************************************************************)
FrozenWhilePending ==
    [][\A p \in Ports :
         (rec[p].cmd_rec_complete_flag /\ wire[p] # <<>> /\ wire'[p] = Tail(wire[p]))
            => rec'[p] = rec[p]]_vars

(***************************************************************************)
(* A dispatched command is the line that completed it: cmd_handle          *)
(* dispatches the name and exactly the parameters (slot, tag, value) that  *)
(* the spec's reading of that line gives.                                  *)
(***************************************************************************)
DispatchMatchesLine ==
    lastDispatch # NoDispatch =>
        /\ lastDispatch.name = SpecName(lastDispatch.line)
        /\ lastDispatch.params = SpecParams(lastDispatch.line)

(***************************************************************************)
(* A line whose CRC trailer does not match its bytes is never dispatched   *)
(* (cmd_handle's is_crc / crc_cal / atoi check).                           *)
(***************************************************************************)
CrcRespected == lastDispatch # NoDispatch => SpecCrcOk(lastDispatch.line)

(***************************************************************************)
(* A completed record is eventually handled: the port's RECV event reaches *)
(* the task, which clears the record, so the port accepts its next line.   *)
(***************************************************************************)
CompletedEventuallyHandled ==
    \A p \in Ports : rec[p].cmd_rec_complete_flag ~> ~rec[p].cmd_rec_complete_flag

=============================================================================
