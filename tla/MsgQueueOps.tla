---------------------------- MODULE MsgQueueOps ----------------------------
(***************************************************************************)
(* Operators on the mailbox struct of msg_queue.c, as the firmware lays it *)
(* out in memory.  A mailbox is the record                                 *)
(*                                                                         *)
(*   [mem  : the struct's first 24 bytes,                                  *)
(*    wake : the wake_task callback,                                       *)
(*    wild : a store or load went to the wake_task pointer or beyond]      *)
(*                                                                         *)
(* Bytes 0..15 are msg_box[], 16 is msg_n, 17 msg_get_ptr, 18              *)
(* msg_put_ptr, 19 mlen, 20 is_used, 21..23 padding (msg_queue.h:19-29).   *)
(* The fields are read and written through the same memory as the box,    *)
(* because the code's indices are not bounded by the box size: msg_n is    *)
(* never assigned, so `(ptr + 1) % msg_n` divides by zero.                 *)
(*                                                                         *)
(* A box slot whose message has been read is marked Stale: it still holds  *)
(* the code last sent into it, but the model forgets which, and a later    *)
(* read of it yields any message code.  A slot never written keeps its 0.  *)
(***************************************************************************)
EXTENDS CTypes

CONSTANTS
    Stale,        \* marker of a box slot whose message was already read
    Codes         \* the message codes the producers send (msg_event_t)

ASSUME Codes \subseteq 1 .. 255

MSG_BOX_SIZE  == 16   \* msg_queue.h:14
MAX_MSG_BOX_N == 5    \* msg_queue.c:3
MSG_ERROR     == -1   \* msg_queue.h:17

\* Byte offsets of the fields of _msg_queue that follow msg_box[].
OFF_MSG_N   == 16
OFF_GET     == 17
OFF_PUT     == 18
OFF_MLEN    == 19
OFF_IS_USED == 20
LAST_DATA   == 23     \* bytes 24..27 hold the wake_task pointer


MsgN(q)   == q.mem[OFF_MSG_N]
GetPtr(q) == q.mem[OFF_GET]
PutPtr(q) == q.mem[OFF_PUT]
Mlen(q)   == q.mem[OFF_MLEN]
IsUsed(q) == q.mem[OFF_IS_USED]

(***************************************************************************)
(* `a % n` on unsigned char operands promoted to int.  With n = 0 the      *)
(* Cortex-M4 SDIV yields 0 (the divide-by-zero trap is off after reset)    *)
(* and the remainder a - (a / n) * n is a.  The result is stored back in   *)
(* an unsigned char.                                                       *)
(***************************************************************************)
CRem(a, n) == (IF n = 0 THEN a ELSE a % n) % 256

\* A byte store into the struct; a store past byte 23 hits wake_task.
Poke(q, i, v) ==
    IF i <= LAST_DATA THEN [q EXCEPT !.mem[i] = v]
                      ELSE [q EXCEPT !.wild = TRUE]

\* The values a byte load from the struct can return (a load past byte 23
\* reads the wake_task pointer, which the model does not track).
Peek(q, i) ==
    IF i > LAST_DATA \/ q.mem[i] = Stale THEN Codes ELSE {q.mem[i]}

\* A zero-initialised struct (msg_q_list is a static array = {0}).
ZeroBox(w) == [mem |-> [i \in 0 .. LAST_DATA |-> 0], wake |-> w, wild |-> FALSE]

(***************************************************************************)
(* send_msg(msg_box, msg) for a non-NULL handle: store the byte at the put *)
(* index, advance the index modulo msg_n, count it, all read back through  *)
(* memory in the code's order.  A full mailbox is left unchanged.          *)
(***************************************************************************)
SendAccepted(q) == Mlen(q) < MSG_BOX_SIZE

SendMsg(q, msg) ==
    IF SendAccepted(q)
    THEN LET q1 == Poke(q, PutPtr(q), msg)
             q2 == Poke(q1, OFF_PUT, CRem(PutPtr(q1) + 1, MsgN(q1)))
         IN  Poke(q2, OFF_MLEN, (Mlen(q2) + 1) % 256)
    ELSE q

\* Mutant: read_msg without its emptiness test.
ReadableAlways(q) == TRUE

\* Mutant: read_msg's emptiness test off by one.
ReadableOffByOne(q) == Mlen(q) > 1

\* read_msg reads only when mlen > 0.
Readable(q) == Mlen(q) > 0

(***************************************************************************)
(* read_msg(msg_box), up to and excluding the store of the decremented     *)
(* mlen: the task has loaded mlen (tmp), loaded the message and advanced   *)
(* the get index.  An interrupt may run before ReadMsgEnd stores tmp - 1.  *)
(* ReadMsgBegin is the set of possible outcomes [q, res, tmp].             *)
(***************************************************************************)
ReadMsgBegin(q) ==
    LET g  == GetPtr(q)
        q1 == CASE g < MSG_BOX_SIZE /\ q.mem[g] # 0 -> [q EXCEPT !.mem[g] = Stale]
                [] g > LAST_DATA                 -> [q EXCEPT !.wild = TRUE]
                [] OTHER                         -> q
    IN  { [q   |-> Poke(q1, OFF_GET, CRem(g + 1, MsgN(q1))),
           res |-> r,
           tmp |-> Mlen(q)] : r \in Peek(q, g) }

ReadMsgEnd(q, tmp) == Poke(q, OFF_MLEN, tmp - 1)

\* Mutant: re-wake only when two or more messages remain.
ReadRewakesOffByOne(tmp) == tmp - 1 > 1

\* read_msg wakes the consumer again when messages remain after the read.
ReadRewakes(tmp) == tmp - 1 > 0

(***************************************************************************)
(* The pool msg_q_list[].  lookup_msg_q_list returns the first slot whose  *)
(* is_used is false; create_msg_box zeroes the three indices and stores    *)
(* the callback, but sets neither is_used nor msg_n.                       *)
(***************************************************************************)
NULL == -1

LookupMsgQList(pool) ==
    IF \E i \in 0 .. MAX_MSG_BOX_N - 1 : IsUsed(pool[i]) = 0
    THEN CHOOSE i \in 0 .. MAX_MSG_BOX_N - 1 :
             /\ IsUsed(pool[i]) = 0
             /\ \A j \in 0 .. i - 1 : IsUsed(pool[j]) # 0
    ELSE NULL

CreateMsgBox(pool, w) ==
    LET i == LookupMsgQList(pool)
    IN  IF i = NULL THEN [pool |-> pool, handle |-> NULL]
        ELSE [pool   |-> [pool EXCEPT ![i].mem[OFF_GET] = 0,
                                      ![i].mem[OFF_PUT] = 0,
                                      ![i].mem[OFF_MLEN] = 0,
                                      ![i].wake = w],
              handle |-> i]

FreeMsgBox(pool, h) ==
    IF h = NULL THEN pool ELSE [pool EXCEPT ![h].mem[OFF_IS_USED] = 0]
=============================================================================
