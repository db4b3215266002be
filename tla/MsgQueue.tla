------------------------------ MODULE MsgQueue ------------------------------
(***************************************************************************)
(* The mailbox pool of msg_queue.c as serial_cdc.c uses it.  Clients are   *)
(* tasks that create and free a mailbox (free_msg_box is part of the API,  *)
(* though the serial task never calls it).  Owner is serial_cdc's task,    *)
(* which created `msg_box` with wake_serialtask and is its only reader.    *)
(* Interrupt handlers (complete_rec in the UART IRQ, monitor_ghead1/2 in   *)
(* the timer IRQ) send to `msg_box`; each send runs to completion, and may *)
(* land between any two steps of the task.  The task's read_msg is split   *)
(* at the store of the decremented mlen, the one point where an interrupt  *)
(* changes what it computes.  Cooperative tasks do not preempt one         *)
(* another, so create and free only run while the serial task is not      *)
(* inside read_msg.                                                        *)
(***************************************************************************)
EXTENDS MsgQueueOps, Sequences

CONSTANTS
    Clients,     \* tasks that own a mailbox
    Owner,       \* the serial task (serial_cdc.c: msg_box, wake_serialtask)
    NoWake,      \* the NULL wake_task of a never-created struct
    MaxSends     \* bound on the interrupt sends of a behaviour

ASSUME Owner \in Clients /\ MaxSends \in Nat

VARIABLES
    pool,      \* msg_q_list[]
    handle,    \* handle[c]: slot index returned to client c, or NULL
    woken,     \* woken[c]: sched_wake_task flag of client c's task
    pc,        \* serial task: "idle" or "reading" (inside read_msg)
    tmp,       \* the mlen value read_msg has loaded
    res,       \* the byte read_msg returns
    pending,   \* history: codes accepted into msg_box and not yet read
    sent       \* number of interrupt sends so far

vars == <<pool, handle, woken, pc, tmp, res, pending, sent>>

Box == handle[Owner]

Init ==
    /\ pool    = [i \in 0 .. MAX_MSG_BOX_N - 1 |-> ZeroBox(NoWake)]
    /\ handle  = [c \in Clients |-> NULL]
    /\ woken   = [c \in Clients |-> FALSE]
    /\ pc      = "idle"
    /\ tmp     = 0
    /\ res     = 0
    /\ pending = <<>>
    /\ sent    = 0

\* wake_task(): the callback stored in the struct wakes its task.
Wake(w) == IF w \in Clients THEN [woken EXCEPT ![w] = TRUE] ELSE woken

(***************************************************************************)
(* create_msg_box(wake) by client c (serial_cdc.c: init_serial_cdc).  A    *)
(* mailbox the serial task creates anew starts empty.                      *)
(***************************************************************************)
Create(c) ==
    /\ pc = "idle"
    /\ handle[c] = NULL
    /\ LET r == CreateMsgBox(pool, c)
       IN  /\ pool'   = r.pool
           /\ handle' = [handle EXCEPT ![c] = r.handle]
    /\ pending' = IF c = Owner THEN <<>> ELSE pending
    /\ UNCHANGED <<woken, pc, tmp, res, sent>>

\* free_msg_box(h) by client c, which drops its handle.
Free(c) ==
    /\ pc = "idle"
    /\ handle[c] # NULL
    /\ pool'   = FreeMsgBox(pool, handle[c])
    /\ handle' = [handle EXCEPT ![c] = NULL]
    /\ UNCHANGED <<woken, pc, tmp, res, pending, sent>>

(***************************************************************************)
(* send_msg(msg_box, m) from an interrupt.  Before init_serial_cdc has     *)
(* created the mailbox, msg_box is NULL and the event is dropped.         *)
(***************************************************************************)
Send(m) ==
    /\ sent < MaxSends
    /\ sent' = sent + 1
    /\ IF Box # NULL /\ SendAccepted(pool[Box])
       THEN /\ pool'    = [pool EXCEPT ![Box] = SendMsg(@, m)]
            /\ woken'   = Wake(pool[Box].wake)
            /\ pending' = Append(pending, m)
       ELSE UNCHANGED <<pool, woken, pending>>
    /\ UNCHANGED <<handle, pc, tmp, res>>

(***************************************************************************)
(* serial_cdc_run_task: sched_check_wake clears the flag, then read_msg    *)
(* runs up to its store of mlen - 1.  With mlen = 0 it returns MSG_ERROR.  *)
(***************************************************************************)
ReadBegin ==
    /\ pc = "idle"
    /\ woken[Owner]
    /\ Box # NULL
    /\ IF Readable(pool[Box])
       THEN \E o \in ReadMsgBegin(pool[Box]) :
              /\ pool'    = [pool EXCEPT ![Box] = o.q]
              /\ res'     = o.res
              /\ tmp'     = o.tmp
              /\ pc'      = "reading"
              /\ pending' = IF pending = <<>> THEN <<>> ELSE Tail(pending)
       ELSE UNCHANGED <<pool, res, tmp, pc, pending>>
    /\ woken' = [woken EXCEPT ![Owner] = FALSE]
    /\ UNCHANGED <<handle, sent>>

\* The rest of read_msg: store tmp - 1 into mlen, wake again if non-zero.
ReadEnd ==
    /\ pc = "reading"
    /\ pool'  = [pool EXCEPT ![Box] = ReadMsgEnd(@, tmp)]
    /\ woken' = IF ReadRewakes(tmp) THEN Wake(pool[Box].wake) ELSE woken
    /\ pc'    = "idle"
    /\ UNCHANGED <<handle, tmp, res, pending, sent>>

Next ==
    \/ \E c \in Clients : Create(c) \/ Free(c)
    \/ \E m \in Codes : Send(m)
    \/ ReadBegin
    \/ ReadEnd

\* The task is scheduled whenever it is woken, and finishes a read it began.
Spec == Init /\ [][Next]_vars /\ WF_vars(ReadBegin) /\ WF_vars(ReadEnd)

-----------------------------------------------------------------------------
TypeOK ==
    /\ \A i \in 0 .. MAX_MSG_BOX_N - 1 :
         /\ \A j \in 0 .. LAST_DATA : pool[i].mem[j] \in Byte \cup {Stale}
         /\ pool[i].wake \in Clients \cup {NoWake}
         /\ pool[i].wild \in BOOLEAN
    /\ handle  \in [Clients -> (0 .. MAX_MSG_BOX_N - 1) \cup {NULL}]
    /\ woken   \in [Clients -> BOOLEAN]
    /\ pc      \in {"idle", "reading"}
    /\ tmp     \in Byte
    /\ res     \in Byte
    /\ pending \in Seq(Codes)
    /\ sent    \in 0 .. MaxSends

(***************************************************************************)
(* No lost wake-up: while the serial task is outside read_msg and its      *)
(* mailbox holds messages, its wake flag is set, so sched_check_wake will  *)
(* run it.  Relies on send_msg waking after every accepted message and on  *)
(* read_msg re-waking itself when mlen stays non-zero.                     *)
(***************************************************************************)
NoLostWakeup ==
    (pc = "idle" /\ Box # NULL /\ Mlen(pool[Box]) > 0) => woken[Owner]

(***************************************************************************)
(* FIFO delivery: each read_msg that returns a message returns the oldest  *)
(* accepted message not yet read (spec: mailbox is a FIFO of capacity 16). *)
(***************************************************************************)
ReadIsOldest ==
    (pc = "idle" /\ pc' = "reading") => (pending # <<>> /\ res' = Head(pending))

MailboxFifo == [][ReadIsOldest]_vars

(***************************************************************************)
(* create_msg_box hands each client its own mailbox: two clients holding a *)
(* handle never share a struct.                                            *)
(***************************************************************************)
DistinctMailboxes ==
    \A c, d \in Clients :
        (c # d /\ handle[c] # NULL /\ handle[d] # NULL) => handle[c] # handle[d]

=============================================================================
