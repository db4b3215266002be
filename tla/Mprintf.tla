------------------------------- MODULE Mprintf -------------------------------
(***************************************************************************)
(* The formatted-output helper of stdio_t.c (mprintf, myitoa, strcat_t,    *)
(* putchar_t) and the host commands of serial_cdc.c that reply to a ghead  *)
(* through it.                                                             *)
(*                                                                         *)
(* mprintf renders into the static send_buff, number by number through     *)
(* the static str[50], and hands the result to the port's send_len_dat.    *)
(* Bytes are integers.  The literal text of a format is abstracted to LIT  *)
(* bytes of the right length (the comment beside each format gives its     *)
(* text): only '%', the conversion letters and NUL steer the helper.       *)
(* send_buff is modelled by the bytes before its first NUL: mprintf clears *)
(* 255 of its bytes on entry and only ever writes at that NUL.             *)
(***************************************************************************)
EXTENDS Integers, SequencesExt, CTypes

CONSTANTS
    Ports,       \* {SERIAL1_PTR, SERIAL2_PTR}
    PortPtr,     \* port_ptr (CONFIG_ATSAM_PRO3_DOUBLE_GHEAD_PORT_0/1)
    HostBytes,   \* values the host sends for a %c command argument
    HostVals,    \* values the host sends for a %u argument, as int32 (below)
    TransData,   \* buffers the host sends for trans_len_data's %*s
    MaxCalls     \* bound on host commands

\* A uint32_t value u is held as the int32 with the same bits (u - 2^32 for
\* u >= 2^31), the value myitoa's int parameter reads.
INT_MIN == -2147483647 - 1

\* A Klipper frame is at most 64 bytes, so a %*s buffer is shorter than gbuff.
ASSUME /\ PortPtr \in Ports /\ HostBytes \subseteq Byte
       /\ HostVals \subseteq INT_MIN .. 2147483647
       /\ \A d \in TransData : Len(d) < 64 /\ \A i \in DOMAIN d : d[i] \in Byte

VARIABLES
    send_buff,  \* the bytes of send_buff before its first NUL
    str,        \* str[50], as a sequence: str[i] is str[i + 1]
    wire,       \* per port, the replies handed to send_len_dat
    calls       \* bound counter: host commands so far

vars == <<send_buff, str, wire, calls>>

NUL == 0   PCT == 37   DASH == 45   LIT == 88
CD == 100  CX == 120   CS == 115    CC == 99
SERIAL1_PTR == 0
MAX_STR_LEN == 128
NULL == -1

Text(n) == [i \in 1 .. n |-> LIT]
Conv(c) == <<PCT, c>>

\* The C string at a buffer: its bytes before the first NUL.
CStr(s) == LET z == SelectInSeq(s, LAMBDA b : b = NUL)
           IN  IF z = 0 THEN s ELSE SubSeq(s, 1, z - 1)

-----------------------------------------------------------------------------
(* myitoa(n, str, radix)                                                   *)

\* C division and remainder truncate toward zero.
CDiv(a, b) == IF a >= 0 THEN a \div b ELSE (a + b - 1) \div b
CMod(a, b) == a - CDiv(a, b) * b

\* n = 0 - n: INT_MIN stays INT_MIN on the two's complement target.
Negate32(n) == IF n = INT_MIN THEN n ELSE -n

\* remain > 9 ? remain - 10 + 'A' : remain + '0'
DigitChar(r) == IF r > 9 THEN r - 10 + 65 ELSE r + 48

\* The do/while loop: the digits, least significant first.
RECURSIVE DigitsOf(_, _)
DigitsOf(n, radix) ==
    <<DigitChar(CMod(n, radix))>> \o
        (IF CDiv(n, radix) = 0 THEN <<>> ELSE DigitsOf(CDiv(n, radix), radix))

\* The bytes myitoa stores from str[0]: the reversed digits and a NUL; for
\* a negative n the digits are shifted right over that NUL, behind a '-',
\* and the byte after them is left as it was.
MyItoa(n, s, radix) ==
    LET d == Reverse(DigitsOf(IF n < 0 THEN Negate32(n) ELSE n, radix))
        w == IF n < 0 THEN <<DASH>> \o d ELSE d \o <<NUL>>
    IN  [i \in 1 .. Len(s) |-> IF i <= Len(w) THEN w[i] ELSE s[i]]

-----------------------------------------------------------------------------
(* find_str_end, copy_str, strcat_t, putchar_t on send_buff                *)

\* find_str_end(send_buff): the NUL among the first 128 bytes, or NULL.
FindStrEnd(sb) == IF Len(sb) < MAX_STR_LEN THEN Len(sb) ELSE NULL

\* copy_str: at most MAX_STR_LEN bytes of src, its NUL included.
CopyStr(sb, src) == sb \o SubSeq(src, 1, Min({Len(src), MAX_STR_LEN}))

\* strcat_t: nothing is appended once the end is not found.
StrcatT(sb, src) == IF FindStrEnd(sb) # NULL THEN CopyStr(sb, src) ELSE sb

\* putchar_t: *find_str_end(send_buff) = c.  When the end is not found the
\* byte is stored at address 0, the flash of the atsam build, which ignores
\* a plain store: send_buff is unchanged.
PutcharT(sb, c) ==
    IF FindStrEnd(sb) # NULL /\ c # NUL THEN Append(sb, c) ELSE sb

-----------------------------------------------------------------------------
(* mprintf(ptr, fmt, ...)                                                  *)

\* fmt[pos], reading the format's NUL at its end.
FmtAt(fmt, pos) == IF pos < Len(fmt) THEN fmt[pos + 1] ELSE NUL

\* case 'd' / 'x': myitoa(n, str, radix) then strcat_t(send_buff, str).
Number(o, n, radix) ==
    LET s == MyItoa(n, o.str, radix)
    IN  [sb |-> StrcatT(o.sb, CStr(s)), str |-> s]

\* The while (pos < 128) loop; args are the arguments va_arg still reads.
\* No call site formats a double, so case 'f' is left out.
RECURSIVE Scan(_, _, _, _)
Scan(fmt, pos, args, o) ==
    LET c  == FmtAt(fmt, pos)
        ch == FmtAt(fmt, pos + 1)
    IN  IF pos >= MAX_STR_LEN \/ c = NUL THEN o
        ELSE IF c # PCT THEN Scan(fmt, pos + 1, args, [o EXCEPT !.sb = PutcharT(@, c)])
        ELSE CASE ch = NUL -> o
               [] ch = CD  -> Scan(fmt, pos + 2, Tail(args),
                                   Number(o, Head(args), 10))
               [] ch = CX  -> Scan(fmt, pos + 2, Tail(args),
                                   Number(o, Head(args), 16))
               [] ch = CC  -> Scan(fmt, pos + 2, Tail(args),
                                   [o EXCEPT !.sb = PutcharT(@, Head(args) % 256)])
               [] ch = CS  -> Scan(fmt, pos + 2, Tail(args),
                                   [o EXCEPT !.sb = StrcatT(@, CStr(Head(args)))])
               [] OTHER    -> Scan(fmt, pos + 2, args,
                                   [o EXCEPT !.sb = PutcharT(@, PCT)])

\* The whole of mprintf: clear send_buff and str[0..29]; a format without
\* '%' is sent as it is; otherwise the rendered send_buff is sent.
\* Returns the new send_buff and str, whether anything was sent, and what.
MprintfT(fmt, args, st) ==
    LET st0 == [i \in 1 .. Len(st) |-> IF i <= 30 THEN NUL ELSE st[i]]
        len == Len(fmt) % 256
        o   == Scan(fmt, 0, args, [sb |-> <<>>, str |-> st0])
    IN  IF len = 0 \/ len > 128
           THEN [sb |-> <<>>, str |-> st0, sent |-> FALSE]
        ELSE IF \A i \in 1 .. len : fmt[i] # PCT
           THEN [sb |-> <<>>, str |-> st0, sent |-> TRUE, out |-> fmt]
        ELSE [sb |-> o.sb, str |-> o.str, sent |-> TRUE, out |-> o.sb]

\* One mprintf call in the state s, the reply appended to port ptr's wire.
Emit(s, c) ==
    LET r == MprintfT(c.fmt, c.args, s.str)
    IN  [sb   |-> r.sb, str |-> r.str,
         wire |-> IF r.sent
                  THEN [s.wire EXCEPT ![c.ptr] =
                           Append(@, [fmt |-> c.fmt, args |-> c.args, out |-> r.out])]
                  ELSE s.wire]

Call(ptr, fmt, args) == [ptr |-> ptr, fmt |-> fmt, args |-> args]

\* A handler's mprintf calls, in order, and the command counted.
Run(cs) ==
    LET s == FoldLeft(Emit, [sb |-> send_buff, str |-> str, wire |-> wire], cs)
    IN  /\ calls < MaxCalls
        /\ calls' = calls + 1
        /\ send_buff' = s.sb /\ str' = s.str /\ wire' = s.wire

-----------------------------------------------------------------------------
(* The formats of the replies (serial_cdc.c).                              *)

F_HH    == Text(7) \o Conv(CD) \o Text(2) \o Conv(CD) \o Text(2)  \* M5100 H%d H%d\r\n
F_W1940 == Text(15)                                             \* M5100 S0 W1940\n
F_W1191 == Text(15)                                             \* M5100 S0 W1191\n
F_H0A0  == Text(12)                                             \* M5100 H0 A0\n
F_H1A0  == Text(12)                                             \* M5100 H1 A0\n
F_TD    == Text(10) \o Conv(CD) \o Text(1)                      \* M5100 T0 D%d\n
F_TD0   == Text(12)                                             \* M5100 T0 D0\n
F_TD1   == Text(12)                                             \* M5100 T0 D1\n
F_A     == Text(7) \o Conv(CD) \o Text(2) \o Conv(CX) \o Text(2) \o Conv(CD)
             \o Text(1)                                         \* M5106 H%d A%x S%d\n
F_CV    == Text(9)                                              \* M5100 CV\n
F_LH    == Text(7) \o Conv(CD) \o Text(2) \o Conv(CD) \o Text(2) \o Conv(CS)
             \o Text(1)                                         \* M5107 H%d A%d H%s\n
F_LD    == F_LH                                                 \* M5107 H%d A%d D%s\n

\* set_normal_cmd's mode letters.
MH == 72  MS == 83  MT == 84  MA == 65  MCV == 67 + 86  MD == 68

-----------------------------------------------------------------------------
(* The host commands that reply through mprintf.                           *)

Init ==
    /\ send_buff = <<>>
    /\ str       = [i \in 1 .. 50 |-> NUL]
    /\ wire      = [p \in Ports |-> <<>>]
    /\ calls     = 0

\* set_heater_switch(ptr=%c h_s=%u): sta is narrowed to uint8_t.
SetHeaterSwitch(ptr, hs) ==
    LET sta == hs % 256
    IN  /\ ptr <= 1 /\ sta <= 1
        /\ Run(<<Call(PortPtr, F_HH, <<ptr, sta>>)>>)

\* set_normal_cmd(mode=%c ptr=%c h_s=%u), the cases that reply to a ghead.
\* Case 'T' also answers the host (repond_fuc); 'B', 'L', 'R'+'H' and the
\* others change no state of this module.
SetNormalCmd(mode, ptr, val) ==
    Run(CASE mode = MH  -> <<Call(PortPtr, F_HH, <<ptr, val>>)>>
          [] mode = MS  -> <<Call(PortPtr, IF val = 0 THEN F_W1940 ELSE F_W1191, <<>>)>>
          [] mode = MS + MT -> <<Call(PortPtr, F_H0A0, <<>>), Call(PortPtr, F_H1A0, <<>>)>>
          [] mode = MT  -> <<Call(SERIAL1_PTR, F_TD, <<val>>),
                            Call(PortPtr, IF val = 0 THEN F_TD0 ELSE F_TD1, <<val>>)>>
          [] mode = MA  -> <<Call(PortPtr, F_A, <<ptr, (val \div 256) % 256, val % 256>>)>>
          [] mode = MCV -> <<Call(PortPtr, F_CV, <<>>)>>)

\* trans_len_data(ptr=%c mode=%c addr=%c buff=%*s): gbuff[64] is cleared,
\* the buffer copied into it, and gbuff sent as %s.
TransLenData(ptr, mode, addr, data) ==
    LET gbuff == [i \in 1 .. 64 |-> IF i <= Len(data) THEN data[i] ELSE NUL]
        args  == <<ptr, addr, gbuff>>
    IN  Run(CASE mode = MH -> <<Call(PortPtr, F_LH, args), Call(SERIAL1_PTR, F_LH, args)>>
              [] mode = MD -> <<Call(SERIAL1_PTR, F_LD, args), Call(PortPtr, F_LH, args)>>
              [] OTHER     -> <<>>)

Next ==
    \/ \E ptr \in HostBytes, hs \in HostVals : SetHeaterSwitch(ptr, hs)
    \/ \E mode \in {MH, MS, MS + MT, MT, MA, MCV}, ptr \in HostBytes, val \in HostVals :
          SetNormalCmd(mode, ptr, val)
    \/ \E ptr, addr \in HostBytes, mode \in {MH, MD, MA}, data \in TransData :
          TransLenData(ptr, mode, addr, data)

Spec == Init /\ [][Next]_vars

-----------------------------------------------------------------------------
(***************************************************************************)
(* The spec's formatted-output helper "writes the rendered bytes": %d the  *)
(* argument as a signed decimal, %x as unsigned hexadecimal (in the upper  *)
(* case myitoa uses), %s the C string, %c the character.                   *)
(***************************************************************************)
RECURSIVE PlainDigits(_, _)
PlainDigits(n, radix) ==
    IF n < radix THEN <<DigitChar(n)>>
    ELSE PlainDigits(n \div radix, radix) \o <<DigitChar(n % radix)>>

RECURSIVE Render(_, _)
Render(fmt, args) ==
    IF fmt = <<>> THEN <<>>
    ELSE IF Head(fmt) # PCT THEN <<Head(fmt)>> \o Render(Tail(fmt), args)
    ELSE LET c    == fmt[2]
             rest == Render(SubSeq(fmt, 3, Len(fmt)), Tail(args))
             v    == Head(args)
         IN  CASE c = CD -> (IF v = INT_MIN THEN <<DASH, 50>> \o PlainDigits(147483648, 10)
                             ELSE IF v < 0 THEN <<DASH>> \o PlainDigits(-v, 10)
                             ELSE PlainDigits(v, 10)) \o rest
               [] c = CX -> PlainDigits(v, 16) \o rest   \* uint8_t arguments
               [] c = CS -> CStr(Head(args)) \o rest
               [] c = CC -> <<Head(args) % 256>> \o rest

\* mprintf: every reply handed to send_len_dat is the rendering of the
\* format and arguments of its call (myitoa, strcat_t, putchar_t).
RepliesRendered ==
    \A p \in Ports : \A i \in 1 .. Len(wire[p]) :
        wire[p][i].out = Render(wire[p][i].fmt, wire[p][i].args)

=============================================================================
