------------------------------ MODULE MCMprintf ------------------------------
(* Model-checking instance of Mprintf.  Host arguments: small values, a    *)
(* three-digit %c, and 0xFFFFFFFF (held as -1, see Mprintf).  Buffers for  *)
(* trans_len_data: empty, with a NUL inside, and the longest a 64-byte     *)
(* Klipper frame carries after the command's other fields.                 *)
EXTENDS Mprintf

MCHostBytes == {0, 1, 100}
MCHostVals  == {0, 1, -1}   \* -1: 0xFFFFFFFF
MCTransData == {<<>>, <<LIT, NUL, LIT>>, Text(53)}
=============================================================================
