------------------------------- MODULE UartTx -------------------------------
(***************************************************************************)
(* The transmit path of one port of atsam/serial.c: the ring sendbuff[]    *)
(* of uart_para[ptr] with its put/pop indices and send_len, send_status,   *)
(* and the UART's transmit holding register (THR), shift register and the *)
(* TXRDY interrupt enable.                                                 *)
(*                                                                         *)
(* Producers are tasks (mprintf and the command handlers call              *)
(* serialN_send_dat -> send_dat_in_queue); they are cooperative, so one    *)
(* chunk is in flight at a time.  The task side is split at every load and *)
(* store of a field the interrupt also writes.  uart_interrupt_callback    *)
(* runs whole; it is taken when a byte has been received (RXRDY) or when   *)
(* TXRDY is enabled and THR is empty, and it calls try_send whenever the   *)
(* TXRDY status bit is set, whichever of the two raised it.  The ports'    *)
(* rings are independent, so one port is modelled.                        *)
(***************************************************************************)
EXTENDS CTypes, Sequences

CONSTANTS
    MAX_SEND_LEN,  \* the ring size (512 in the code; a small value for TLC)
    Chunks,        \* the chunks the producers send
    MaxChunks,     \* bound on the calls of send_dat_in_queue
    MaxRx          \* bound on the received bytes that raise the interrupt

ASSUME /\ MAX_SEND_LEN \in Nat \ {0}
       /\ Chunks \subseteq Seq(Byte)
       /\ MaxChunks \in Nat /\ MaxRx \in Nat

EMPTY  == -1           \* an empty THR or shift register
U16(x) == x % 65536    \* uint16_t arithmetic of send_len and the indices

VARIABLES
    u,        \* uart_para[ptr] and the port's transmitter registers
    wire,     \* bytes shifted out on TX
    tpc,      \* the producer task's position in send_dat_in_queue/try_send
    dat,      \* try_send's local `dat`
    tmp,      \* a value the task has loaded and not yet stored back
    calls,    \* calls of send_dat_in_queue so far
    rxs       \* received bytes so far

vars == <<u, wire, tpc, dat, tmp, calls, rxs>>

\* uart_para is zero-initialised; init_uart_para clears the indices and
\* sets send_status to UART_SEND_IDLE.
\* init_uart_para: the ring empty and the port idle (uart_para is static,
\* so the buffer is zero); the UART itself is not touched yet.
InitUartPara ==
    [buf |-> [i \in 0 .. MAX_SEND_LEN - 1 |-> 0], put |-> 0, pop |-> 0,
     len |-> 0, status |-> "IDLE", txie |-> FALSE, thr |-> EMPTY, sh |-> EMPTY]

\* serial_init_t: RSTTX drops the holding and shift registers, UART_IDR masks
\* every interrupt and UART_IER unmasks RXRDY only; the ring and send_status
\* are left as they were.
SerialInitT(v) == [v EXCEPT !.txie = FALSE, !.thr = EMPTY, !.sh = EMPTY]

\* serial_init: init_uart_para, then serial_init_t for the port.
Init ==
    /\ u = SerialInitT(InitUartPara)
    /\ wire  = <<>>
    /\ tpc   = "idle"
    /\ dat   = 0
    /\ tmp   = 0
    /\ calls = 0
    /\ rxs   = 0

\* The chunk length as send_dat_in_queue's uint8_t parameter sees it.
ChunkLen(c) == Len(c) % 256

\* The ring after the critical section of send_dat_in_queue stores c.
PushChunk(v, c) ==
    LET n == ChunkLen(c)
    IN  [v EXCEPT !.buf = [i \in DOMAIN @ |->
                              LET k == (i - v.put) % MAX_SEND_LEN
                              IN  IF k < n THEN c[k + 1] ELSE @[i]],
                  !.put = U16((v.put + n) % MAX_SEND_LEN),
                  !.len = U16(v.len + n)]

\* Mutant: pop_dat_from_queue without its emptiness test.
HasDataAlways(v) == TRUE

\* pop_dat_from_queue finds a byte when send_len > 0.
HasData(v) == v.len > 0

\* Mutant: try_send is entered whatever send_status says.
SendIdleAlways(v) == TRUE

\* send_dat_in_queue calls try_send only when send_status is UART_SEND_IDLE.
SendIdle(v) == v.status = "IDLE"

\* try_send as the interrupt runs it: pop a byte into THR and, if the port
\* was idle, enable TXRDY and mark it busy; with an empty ring, disable
\* TXRDY and mark the port idle.
TrySend(v) ==
    IF HasData(v)
    THEN LET v1 == [v EXCEPT !.thr = v.buf[v.pop],
                             !.pop = U16((v.pop + 1) % MAX_SEND_LEN),
                             !.len = U16(v.len - 1)]
         IN  IF v1.status = "IDLE" THEN [v1 EXCEPT !.txie = TRUE, !.status = "BUSY"]
                                   ELSE v1
    ELSE [v EXCEPT !.txie = FALSE, !.status = "IDLE"]

-----------------------------------------------------------------------------
(***************************************************************************)
(* send_dat_in_queue(ptr, c): the capacity test, then the bytes are stored *)
(* with interrupts disabled.  The test reads send_len before the critical  *)
(* section, but the interrupt only lowers send_len, so it is taken as one  *)
(* step with the stores.  A refused chunk returns false.                   *)
(***************************************************************************)
Push(c) ==
    /\ tpc = "idle"
    /\ calls < MaxChunks
    /\ calls' = calls + 1
    /\ IF u.len + ChunkLen(c) < MAX_SEND_LEN
       THEN u' = PushChunk(u, c) /\ tpc' = "check"
       ELSE UNCHANGED <<u, tpc>>
    /\ UNCHANGED <<wire, dat, tmp, rxs>>

\* After the critical section: try_send if send_status is idle.
CheckStatus ==
    /\ tpc = "check"
    /\ tpc' = IF SendIdle(u) THEN "pop_len" ELSE "idle"
    /\ UNCHANGED <<u, wire, dat, tmp, calls, rxs>>

(***************************************************************************)
(* try_send and pop_dat_from_queue in task context, one load or store per  *)
(* step, with interrupts enabled.                                          *)
(***************************************************************************)
TaskStep(from, to, v) ==
    /\ tpc = from /\ tpc' = to /\ u' = v
    /\ UNCHANGED <<wire, dat, tmp, calls, rxs>>

PopLen ==
    /\ tpc = "pop_len"
    /\ tpc' = IF HasData(u) THEN "pop_dat" ELSE "idr"
    /\ UNCHANGED <<u, wire, dat, tmp, calls, rxs>>

PopDat ==
    /\ tpc = "pop_dat" /\ tpc' = "ptr_ld"
    /\ dat' = u.buf[u.pop]
    /\ UNCHANGED <<u, wire, tmp, calls, rxs>>

PtrLoad ==
    /\ tpc = "ptr_ld" /\ tpc' = "ptr_st"
    /\ tmp' = u.pop
    /\ UNCHANGED <<u, wire, dat, calls, rxs>>

PtrStore ==
    /\ TaskStep("ptr_st", "len_ld", [u EXCEPT !.pop = U16((tmp + 1) % MAX_SEND_LEN)])

LenLoad ==
    /\ tpc = "len_ld" /\ tpc' = "len_st"
    /\ tmp' = u.len
    /\ UNCHANGED <<u, wire, dat, calls, rxs>>

LenStore == TaskStep("len_st", "thr", [u EXCEPT !.len = U16(tmp - 1)])

\* UART_THR = dat: the holding register takes the byte it is written.
WriteThr == TaskStep("thr", "chk", [u EXCEPT !.thr = dat])

ChkStatus ==
    /\ tpc = "chk"
    /\ tpc' = IF u.status = "IDLE" THEN "ier" ELSE "idle"
    /\ UNCHANGED <<u, wire, dat, tmp, calls, rxs>>

EnableTx == TaskStep("ier", "busy", [u EXCEPT !.txie = TRUE])
SetBusy == TaskStep("busy", "idle", [u EXCEPT !.status = "BUSY"])
DisableTx == TaskStep("idr", "set_idle", [u EXCEPT !.txie = FALSE])
SetIdle == TaskStep("set_idle", "idle", [u EXCEPT !.status = "IDLE"])

-----------------------------------------------------------------------------
(***************************************************************************)
(* uart_interrupt_callback: taken for a received byte (rx) or for TXRDY    *)
(* enabled with THR empty.  The received byte goes to the parser (rec_dat, *)
(* modelled in SerialCdc); then try_send runs if THR is empty.             *)
(***************************************************************************)
Irq(rx) ==
    /\ rx => rxs < MaxRx
    /\ rx \/ (u.txie /\ u.thr = EMPTY)
    /\ rxs' = IF rx THEN rxs + 1 ELSE rxs
    /\ u'   = IF u.thr = EMPTY THEN TrySend(u) ELSE u
    /\ UNCHANGED <<wire, tpc, dat, tmp, calls>>

\* The transmitter moves THR into the idle shift register ...
Load ==
    /\ u.thr # EMPTY /\ u.sh = EMPTY
    /\ u' = [u EXCEPT !.sh = u.thr, !.thr = EMPTY]
    /\ UNCHANGED <<wire, tpc, dat, tmp, calls, rxs>>

\* ... and shifts the byte out.
Shift ==
    /\ u.sh # EMPTY
    /\ wire' = Append(wire, u.sh)
    /\ u' = [u EXCEPT !.sh = EMPTY]
    /\ UNCHANGED <<tpc, dat, tmp, calls, rxs>>

TaskNext ==
    \/ CheckStatus \/ PopLen \/ PopDat \/ PtrLoad \/ PtrStore \/ LenLoad
    \/ LenStore \/ WriteThr \/ ChkStatus \/ EnableTx \/ SetBusy
    \/ DisableTx \/ SetIdle

Next ==
    \/ \E c \in Chunks : Push(c)
    \/ TaskNext
    \/ \E rx \in BOOLEAN : Irq(rx)
    \/ Load
    \/ Shift

(***************************************************************************)
(* A running task finishes (the scheduler does not abandon it), an enabled *)
(* TXRDY interrupt is taken, and the transmitter keeps shifting.  Received *)
(* bytes come from the ghead and need no fairness.                         *)
(***************************************************************************)
Spec == Init /\ [][Next]_vars /\ WF_vars(TaskNext) /\ WF_vars(Irq(FALSE))
             /\ WF_vars(Load) /\ WF_vars(Shift)

-----------------------------------------------------------------------------
TypeOK ==
    /\ u.buf \in [0 .. MAX_SEND_LEN - 1 -> Byte]
    /\ u.put \in 0 .. MAX_SEND_LEN - 1 /\ u.pop \in 0 .. MAX_SEND_LEN - 1
    /\ u.len \in 0 .. MAX_SEND_LEN - 1
    /\ u.status \in {"IDLE", "BUSY"} /\ u.txie \in BOOLEAN
    /\ u.thr \in Byte \cup {EMPTY} /\ u.sh \in Byte \cup {EMPTY}
    /\ wire \in Seq(Byte)
    /\ dat \in Byte
    /\ calls \in 0 .. MaxChunks /\ rxs \in 0 .. MaxRx

(***************************************************************************)
(* Refinement mapping: the bytes accepted and not yet on the wire are, in  *)
(* transmission order, the shift register, THR, the byte the task has     *)
(* popped and not yet written to THR, and the ring from pop to put.        *)
(***************************************************************************)
Reg(x) == IF x = EMPTY THEN <<>> ELSE <<x>>

Held == IF tpc \in {"len_ld", "len_st", "thr"} THEN <<dat>> ELSE <<>>

Ring == [k \in 1 .. (u.put - u.pop) % MAX_SEND_LEN |->
            u.buf[(u.pop + k - 1) % MAX_SEND_LEN]]

Fifo == INSTANCE ByteFifo WITH q <- Reg(u.sh) \o Reg(u.thr) \o Held \o Ring,
                               out <- wire

(***************************************************************************)
(* The port transmits the accepted chunks' bytes in order, without losing *)
(* or repeating one (ByteFifo's safety part).                              *)
(***************************************************************************)
FifoSafe == Fifo!Safe

(***************************************************************************)
(* ... and every accepted byte is eventually transmitted: send_dat_in_     *)
(* queue and the TXRDY interrupt never leave bytes in the ring with the    *)
(* transmitter stopped.                                                    *)
(***************************************************************************)
FifoLive == Fifo!Spec

=============================================================================
