------------------------------- MODULE CTypes -------------------------------
(* The C integer type the firmware's state is made of.                     *)
EXTENDS Integers

\* unsigned char / uint8_t
Byte == 0 .. 255
=============================================================================
