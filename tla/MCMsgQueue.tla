----------------------------- MODULE MCMsgQueue -----------------------------
(* Model-checking instance of MsgQueue: the serial task alone, or with one  *)
(* other client of the pool.  Event codes are small non-zero bytes, as the  *)
(* msg_event_t enumerators RECV_CHN1/2 and MONITOR_CHN1/2 are.              *)
EXTENDS MsgQueue

CONSTANTS t1, t2

MCClientsOne == {t1}
MCClientsTwo == {t1, t2}
MCCodesOne   == {1}
MCCodesTwo   == {1, 2}

\* State constraint: behaviours in which the serial task keeps the backlog
\* of unread messages at most MCBacklog (any violation found is still real).
MCBacklog == 2
MCKeepsUp == Len(pending) <= MCBacklog
=============================================================================
