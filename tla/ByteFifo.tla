------------------------------ MODULE ByteFifo ------------------------------
(***************************************************************************)
(* What the transmit half of a UART port promises its producers: a chunk   *)
(* that send_dat_in_queue accepts is queued whole, and the bytes go out on *)
(* the wire in the order they were accepted, none lost and none repeated.  *)
(* A refused chunk changes nothing.                                        *)
(***************************************************************************)
EXTENDS Sequences

CONSTANTS Chunks   \* the chunks producers hand to the port

VARIABLES
    q,     \* bytes accepted and not yet on the wire
    out    \* bytes put on the wire so far

Init == q = <<>> /\ out = <<>>

Accept == \E c \in Chunks : q' = q \o c /\ UNCHANGED out

Emit ==
    /\ q # <<>>
    /\ out' = Append(out, Head(q))
    /\ q'   = Tail(q)

Next == Accept \/ Emit

\* Ordering only: nothing says that a byte ever leaves.
Safe == Init /\ [][Next]_<<q, out>>

\* And every accepted byte is eventually transmitted.
Spec == Safe /\ WF_<<q, out>>(Emit)

=============================================================================
