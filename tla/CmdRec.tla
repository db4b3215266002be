------------------------------- MODULE CmdRec -------------------------------
(***************************************************************************)
(* Operators on one command record rec_cmd[p] of serial_cdc.c: the         *)
(* byte-at-a-time parser cmd_rec, complete_rec, and the statements of      *)
(* cmd_reset_rec.                                                          *)
(*                                                                         *)
(* Byte arrays (cmd, each slot's val, cmd_rec_buff, crc_buff) are          *)
(* sequences with their trailing zero bytes trimmed, so that two equal     *)
(* arrays are one value; At reads a byte, Put writes one.  cmd_rec_buff    *)
(* holds only the bytes below cmd_rec_ptr: every read of it is below that  *)
(* index, and every byte below it was written since the index last was 0.  *)
(*                                                                         *)
(* The record is packed (all fields are uint8_t): cmd_val[i] starts at     *)
(* byte 34 + 67 * i, so the out-of-range slot cmd_val[5] puts its val_type *)
(* on cmd_rec_step and its val_ptr on cmd_rec_buff[62]; cmd_rec_buff[64..] *)
(* is crc_buff, then is_crc (72) and crc_ptr (73); crc_buff[8] is is_crc   *)
(* and crc_buff[9] is crc_ptr.  A store further out lands in the next      *)
(* record or past the array, and sets `wild`.                              *)
(***************************************************************************)
EXTENDS CTypes, Sequences, SequencesExt

LOCAL INSTANCE Bitwise

MAX_CMD_LEN  == 14   \* serial_cdc.c:129
MAX_VAL_LEN  == 65
MAX_CMD_N    == 5
MAX_CRC_SIZE == 8
REC_BUFF_LEN == 64   \* cmd_rec_buff[64]

\* ASCII codes of the bytes the parser tests.
NUL == 0   LF == 10   CR == 13   SP == 32   STAR == 42   DASH == 45
D0 == 48   D9 == 57   CA == 65   CM == 77   CS == 83   CZ == 90   TILDE == 126

Terminator == {CR, LF, NUL}


RECURSIVE Trim(_)
Trim(s) == IF s # <<>> /\ Last(s) = 0 THEN Trim(Front(s)) ELSE s

At(s, i) == IF i < Len(s) THEN s[i + 1] ELSE 0

Put(s, i, b) ==
    Trim(IF i < Len(s) THEN [s EXCEPT ![i + 1] = b]
         ELSE s \o [j \in 1 .. i - Len(s) |-> 0] \o <<b>>)

\* memset(s, 0, n)
Zero(s, n) == Trim([j \in 1 .. Len(s) |-> IF j <= n THEN 0 ELSE s[j]])

\* The C string held by a byte array: the bytes before the first NUL.
Str(s) == LET k == SelectInSeq(s, LAMBDA b : b = 0)
          IN  IF k = 0 THEN s ELSE SubSeq(s, 1, k - 1)

EmptySlot == [val_type |-> 0, val |-> <<>>, val_ptr |-> 0]

\* The zero-initialised record (static _rec_cmd rec_cmd[2] = {0}).
ZeroRec ==
    [cmd |-> <<>>, cmd_ptr |-> 0, cmd_val_ptr |-> 0,
     cmd_val |-> [i \in 0 .. MAX_CMD_N - 1 |-> EmptySlot],
     cmd_rec_step |-> 0, cmd_rec_complete_flag |-> FALSE,
     cmd_handle_busy |-> FALSE, cmd_rec_ptr |-> 0, cmd_rec_buff |-> <<>>,
     crc_buff |-> <<>>, is_crc |-> 0, crc_ptr |-> 0, wild |-> FALSE]

(***************************************************************************)
(* Stores through the record's memory.                                     *)
(***************************************************************************)
SetRecBuff(r, i, b) ==
    IF i < REC_BUFF_LEN THEN [r EXCEPT !.cmd_rec_buff = Put(@, i, b)]
    ELSE IF i < REC_BUFF_LEN + 8 THEN [r EXCEPT !.crc_buff = Put(@, i - REC_BUFF_LEN, b)]
    ELSE IF i = REC_BUFF_LEN + 8 THEN [r EXCEPT !.is_crc = b]
    ELSE IF i = REC_BUFF_LEN + 9 THEN [r EXCEPT !.crc_ptr = b]
    ELSE [r EXCEPT !.wild = TRUE]

SetRecPtr(r, n) ==
    [r EXCEPT !.cmd_rec_ptr  = n,
              !.cmd_rec_buff = SubSeq(@, 1, IF n < Len(@) THEN n ELSE Len(@))]

\* cmd_rec_buff[cmd_rec_ptr++] = b
AppendRecBuff(r, b) ==
    SetRecPtr(SetRecBuff(r, r.cmd_rec_ptr, b), (r.cmd_rec_ptr + 1) % 256)

\* cmd_val[k].val_type = b and cmd_val[k].val_ptr = b, for k up to 5.
SetValType(r, k, b) ==
    IF k < MAX_CMD_N THEN [r EXCEPT !.cmd_val[k].val_type = b]
                     ELSE [r EXCEPT !.cmd_rec_step = b]

SetValPtr(r, k, b) ==
    IF k < MAX_CMD_N THEN [r EXCEPT !.cmd_val[k].val_ptr = b]
                     ELSE SetRecBuff(r, REC_BUFF_LEN - 2, b)

\* cmd_val[k].val[cmd_val[k].val_ptr++] = b  (k < 5 on every path that gets here)
AppendVal(r, k, b) ==
    [r EXCEPT !.cmd_val[k].val     = Put(@, r.cmd_val[k].val_ptr, b),
              !.cmd_val[k].val_ptr = (@ + 1) % 256]

(***************************************************************************)
(* crc_buff[crc_ptr++] = b.  At crc_ptr = 9 the store lands on crc_ptr     *)
(* itself, unsequenced with its increment: either write may win.           *)
(***************************************************************************)
AppendCrc(r) == [r EXCEPT !.crc_ptr = (@ + 1) % 256]

StoreCrc(r, b) ==
    LET i == r.crc_ptr
    IN  IF i < MAX_CRC_SIZE THEN {AppendCrc([r EXCEPT !.crc_buff = Put(@, i, b)])}
          ELSE IF i = MAX_CRC_SIZE THEN {AppendCrc([r EXCEPT !.is_crc = b])}
          ELSE IF i = MAX_CRC_SIZE + 1 THEN {[r EXCEPT !.crc_ptr = b], AppendCrc(r)}
          ELSE {AppendCrc([r EXCEPT !.wild = TRUE])}

(***************************************************************************)
(* cmd_reset_rec, one statement at a time: ResetStore(r, k) is the record  *)
(* after statement k (1 .. RESET_STEPS) of the function body.  Statements  *)
(* 9 .. 12 are the iterations of the loop over slots 0 .. 3; slot 4 is     *)
(* never cleared.                                                          *)
(***************************************************************************)
RESET_STEPS == 12

\* Mutant: the slot loop of cmd_reset_rec starts at slot 1 (i = 1).
ResetSlotFrom1(k) == k - 8

\* The slot cleared by statement k >= 9: the loop runs i = 0 .. 3.
ResetSlot(k) == k - 9

ResetStore(r, k) ==
    CASE k = 1 -> [r EXCEPT !.cmd_rec_complete_flag = FALSE]
      [] k = 2 -> [r EXCEPT !.cmd_rec_step = 0]
      [] k = 3 -> [r EXCEPT !.is_crc = 0]
      [] k = 4 -> [r EXCEPT !.crc_ptr = 0]
      [] k = 5 -> SetRecPtr(r, 0)
      [] k = 6 -> [r EXCEPT !.cmd = Zero(@, MAX_CMD_LEN)]
      [] k = 7 -> [r EXCEPT !.crc_buff = Zero(@, MAX_CRC_SIZE)]
      [] k = 8 -> [r EXCEPT !.cmd_val_ptr = 0]
      [] OTHER -> [r EXCEPT !.cmd_val[ResetSlot(k)] =
                       [val_type |-> 0, val |-> Zero(@.val, MAX_VAL_LEN), val_ptr |-> 0]]

\* The whole of cmd_reset_rec, as the interrupt runs it.
RECURSIVE ResetFrom(_, _)
ResetFrom(r, k) == IF k > RESET_STEPS THEN r ELSE ResetFrom(ResetStore(r, k), k + 1)

CmdResetRec(r) == ResetFrom(r, 1)

\* complete_rec, without the send_msg the caller performs.
CompleteRec(r) ==
    [r EXCEPT !.cmd_rec_complete_flag = TRUE, !.cmd_rec_step = 0,
              !.cmd_handle_busy = TRUE]

(***************************************************************************)
(* cmd_rec(ptr, dat), one case of its switch per operator.  Each returns   *)
(* the set of possible outcomes [rec, done]; done means complete_rec ran   *)
(* and the caller sends the port's RECV event.                             *)
(***************************************************************************)
Go(r)   == {[rec |-> r, done |-> FALSE]}
Done(r) == {[rec |-> CompleteRec(r), done |-> TRUE]}

\* Mutant: case 0 without its test of the complete flag.
RecIdleIgnoresPending(r, dat) ==
    IF dat = CM
    THEN Go(AppendRecBuff(SetRecPtr([r EXCEPT !.cmd = Put(@, 0, dat), !.cmd_ptr = 1,
                                              !.cmd_rec_step = 1], 0), dat))
    ELSE Go(r)

RecIdle(r, dat) ==
    IF ~r.cmd_rec_complete_flag /\ dat = CM
    THEN Go(AppendRecBuff(SetRecPtr([r EXCEPT !.cmd = Put(@, 0, dat), !.cmd_ptr = 1,
                                              !.cmd_rec_step = 1], 0), dat))
    ELSE Go(r)

RecName(r, dat) ==
    IF r.cmd_ptr >= MAX_CMD_LEN THEN Go(CmdResetRec(r))
    ELSE IF dat \notin Terminator \cup {SP} /\ dat <= CZ THEN
            Go(AppendRecBuff([r EXCEPT !.cmd = Put(@, r.cmd_ptr, dat),
                                       !.cmd_ptr = (@ + 1) % 16], dat))
    ELSE IF dat = SP THEN
            Go(AppendRecBuff(SetValPtr([r EXCEPT !.cmd = Put(@, r.cmd_ptr, NUL),
                                                 !.cmd_ptr = (@ + 1) % 16,
                                                 !.cmd_rec_step = 2,
                                                 !.cmd_val_ptr = 0], 0, 0), dat))
    ELSE IF dat \in Terminator THEN Done(r)
    ELSE Go(CmdResetRec(r))

RecTag(r, dat) ==
    IF dat >= CA /\ dat <= CZ THEN
            Go(AppendRecBuff(SetValType([r EXCEPT !.cmd_rec_step = 3],
                                        r.cmd_val_ptr, dat), dat))
    ELSE IF dat \in Terminator THEN Done(r)
    ELSE Go(CmdResetRec(r))

RecValue(r, dat) ==
    LET k == r.cmd_val_ptr
    IN  IF r.cmd_val[k].val_ptr >= MAX_VAL_LEN THEN Go(CmdResetRec(r))
          ELSE IF dat = STAR THEN
                Go([r EXCEPT !.cmd_rec_step = 4, !.is_crc = 1, !.crc_ptr = 0])
          ELSE IF dat \in Terminator THEN
                Done([AppendVal(r, k, NUL) EXCEPT !.cmd_val_ptr = (@ + 1) % 256])
          ELSE IF dat = SP /\ k < MAX_CMD_N THEN
                Go(AppendRecBuff(SetValPtr([r EXCEPT !.cmd_val_ptr = k + 1,
                                                     !.cmd_rec_step = 2], k + 1, 0), dat))
          ELSE IF dat = SP THEN Done(AppendVal(r, k, NUL))
          ELSE IF dat # LF /\ dat <= TILDE THEN Go(AppendRecBuff(AppendVal(r, k, dat), dat))
          ELSE Go(CmdResetRec(r))

RecCrc(r, dat) ==
    IF dat >= D0 /\ dat <= D9 THEN
            {[rec |-> o, done |-> FALSE] : o \in StoreCrc(r, dat)}
    ELSE IF dat \in Terminator \/ r.crc_ptr >= 3 THEN
            {[rec |-> CompleteRec(o), done |-> TRUE] : o \in StoreCrc(r, NUL)}
    ELSE Go(r)

CmdRecStep(r, dat) ==
    CASE r.cmd_rec_step = 0 -> RecIdle(r, dat)
      [] r.cmd_rec_step = 1 -> RecName(r, dat)
      [] r.cmd_rec_step = 2 -> RecTag(r, dat)
      [] r.cmd_rec_step = 3 -> RecValue(r, dat)
      [] r.cmd_rec_step = 4 -> RecCrc(r, dat)
      [] OTHER              -> Go([r EXCEPT !.cmd_rec_step = 0])


(***************************************************************************)
(* cmd_handle's CRC check.  crc_cal XORs cmd_rec_ptr bytes of the replay   *)
(* buffer, reading on through crc_buff, is_crc and crc_ptr when the index  *)
(* passes 63; past byte 73 it reads the other record, not tracked here,    *)
(* so the result is any byte.  The trailer is (uint8_t)atoi(crc_buff).     *)
(***************************************************************************)
RecBuffAt(r, i) ==
    IF i < REC_BUFF_LEN THEN At(r.cmd_rec_buff, i)
    ELSE IF i < REC_BUFF_LEN + 8 THEN At(r.crc_buff, i - REC_BUFF_LEN)
    ELSE IF i = REC_BUFF_LEN + 8 THEN r.is_crc
    ELSE r.crc_ptr

Xor8(a, b) == a ^^ b

CrcCal(r) ==
    IF r.cmd_rec_ptr <= REC_BUFF_LEN + 10
    THEN {FoldLeft(Xor8, 0, [i \in 1 .. r.cmd_rec_ptr |-> RecBuffAt(r, i - 1)])}
    ELSE Byte

IsDigit(b) == b >= D0 /\ b <= D9

\* atoi: optional white space, an optional sign, then decimal digits.
RECURSIVE AtoiDigits(_, _)
AtoiDigits(s, acc) ==
    IF s # <<>> /\ IsDigit(Head(s)) THEN AtoiDigits(Tail(s), 10 * acc + Head(s) - D0)
    ELSE acc

RECURSIVE Atoi(_)
Atoi(s) ==
    IF s = <<>> THEN 0
    ELSE IF Head(s) = SP \/ (Head(s) >= 9 /\ Head(s) <= CR) THEN Atoi(Tail(s))
    ELSE IF Head(s) = DASH THEN -AtoiDigits(Tail(s), 0)
    ELSE IF Head(s) = 43 THEN AtoiDigits(Tail(s), 0)
    ELSE AtoiDigits(s, 0)

\* Mutant: the trailer is never compared.
CrcCheckSkipped(r) == {TRUE}

\* The outcomes of the check: TRUE when the command goes on to dispatch.
CrcCheck(r) ==
    IF r.is_crc # 1 THEN {TRUE}
    ELSE {Atoi(Str(r.crc_buff)) % 256 = t : t \in CrcCal(r)}

(***************************************************************************)
(* cmd_ans_new.  The slots it decodes: each with a type tag and a non-zero *)
(* val_ptr gives its tag and the C string of its value.  The name table:   *)
(* strcmp of cmd against each name in turn; M5004 and M5005 also test      *)
(* slot 0.  Command identifiers are the enumerators' names.                *)
(***************************************************************************)
ParamsOf(r) ==
    { <<i, r.cmd_val[i].val_type, Str(r.cmd_val[i].val)>> :
        i \in {j \in 0 .. MAX_CMD_N - 1 : r.cmd_val[j].val_type # 0 /\ r.cmd_val[j].val_ptr > 0} }

\* "M5" followed by three digits, and the other names of the table.
M5(a, b, c) == <<CM, 53, a, b, c>>
NameTable ==
    [ n \in {M5(48,48,48), M5(48,48,49), M5(48,48,50), M5(48,48,51), <<CM,57,57,57,57>>,
             M5(49,48,48), M5(49,48,53), M5(49,48,54), M5(49,48,55), M5(49,48,56),
             M5(49,48,57), <<CM,49,49,53>>, <<CM,84,69,83,84>>, <<CM,83,84,65,82,84>>} |->
        CASE n = M5(48,48,48)       -> "NORMAL_TEMP_CMD"
          [] n = M5(48,48,49)       -> "SET_FANSPEED_CMD"
          [] n = M5(48,48,50)       -> "CHECK_HEAD_S_CMD"
          [] n = M5(48,48,51)       -> "CHECK_SENSOR_S_CMD"
          [] n = <<CM,57,57,57,57>> -> "SET_AUTO_TEMP_CMD"
          [] n = M5(49,48,48)       -> "PRO3_NORMAL_CMD"
          [] n = M5(49,48,53)       -> "PRO3_GHEAD_RESTART_EVENT"
          [] n = M5(49,48,54)       -> "PRO3_HEATEND_RD_CMD"
          [] n = M5(49,48,55)       -> "PRO3_HEATEND_RW_CMD"
          [] n = M5(49,48,56)       -> "PRO3_FORMAT_E2PROM_CMD"
          [] n = M5(49,48,57)       -> "PRO3_ERR_MODE_SET_CMD"
          [] n = <<CM,49,49,53>>    -> "GET_VERSION_CMD"
          [] n = <<CM,84,69,83,84>> -> "BTEST_CMD"
          [] OTHER                  -> "PRO3_GHEAD_RESTART_NOR_EVENT" ]

CmdAnsNew(r) ==
    LET n    == Str(r.cmd)
        s0   == r.cmd_val[0]
        bare == s0.val_type = 0 /\ s0.val_ptr = 0
        setS == s0.val_type = CS /\ s0.val_ptr > 0
    IN  IF n \in DOMAIN NameTable THEN NameTable[n]
        ELSE IF n = M5(48,48,52) /\ bare THEN "CHECK_24V_SWITCH_CMD"
        ELSE IF n = M5(48,48,52) /\ setS THEN "SET_24V_SWITCH_CMD"
        ELSE IF n = M5(48,48,53) /\ bare THEN "CHECK_3V3_SWITCH_CMD"
        ELSE IF n = M5(48,48,53) /\ setS THEN "SET_3V3_SWITCH_CMD"
        ELSE "ERROR_CMD"

=============================================================================
