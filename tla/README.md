# TLA+ models of the ghead serial link (Raise3D Pro3 Klipper firmware)

This directory holds TLA+ models of the firmware's communication stack between
the main controller and the "ghead" peripheral controller: the UART transport
(`src/klipper/src/atsam/serial.c`), the cross-context mailbox
(`src/klipper/src/generic/msg_queue.c`), the software timer pool
(`src/klipper/src/generic/refine_timer.c`) and the line parser / dispatcher /
liveness monitor (`src/klipper/src/generic/serial_cdc.c`). Every module is
written from those sources; `PROJECT.json` maps each definition to the lines it
models, lists the TLC runs, the mutants that show each passing property can
fail, the findings and the hazards.

## 1. Inventory

### Contexts and how they interact

| Context | Runs | Touches |
|---|---|---|
| UART IRQ (`uart_interrupt_callback`, serial.c:191) | once per received byte (RXRDY) and per transmitted byte (TXRDY) | `rec_cmd[p]` via `cmd_rec` (serial_cdc.c:1356), the mailbox via `complete_rec` -> `send_msg`, the TX ring via `try_send` |
| Klipper timer IRQ (`monitor_ghead1/2`, serial_cdc.c:355) | every 1 s per started monitor | the mailbox (`send_msg(MONITOR_CHNx)`) |
| Cooperative task `serial_cdc_run_task` (serial_cdc.c:484) | when woken by `sched_wake_task` | reads one mailbox message, then `cmd_handle` (dispatch + `cmd_reset_rec`) or `monitor_ch_fuc` (presence / baud cycling) |
| Klipper command handlers (`set_normal_cmd`, `trans_len_data`, ...) | on host commands | `mprintf` -> UART TX ring (`send_dat_in_queue`), `serial_init_t`, timers |

The only synchronisation is the `cmd_rec_complete_flag` of a record (the
parser ignores bytes while a record waits for the task) and the brief
`irq_disable` sections of the TX push and of the timer pool. The task is
preempted by both IRQs at any statement.

### Components, state, operations

1. **Mailbox** (`msg_queue.c`). State: pool `msg_q_list[5]` of structs
   `{msg_box[16], msg_n, msg_get_ptr, msg_put_ptr, mlen, is_used, wake_task}`.
   Operations: `create_msg_box`, `free_msg_box`, `send_msg` (IRQ context),
   `read_msg` (task context). As built, `msg_n` is never assigned (the pool is
   zero-initialised), so both index updates compute `x % 0`; on the Cortex-M4
   `SDIV` returns 0 for a zero divisor and the `%` lowering `x - (x/0)*0`
   yields `x`: the indices run past the 16-byte box into the struct's own
   fields (`msg_n` at offset 16, `msg_get_ptr` 17, `msg_put_ptr` 18, `mlen` 19).
   `create_msg_box` never sets `is_used`, so every create returns slot 0.
   `mlen--` in `read_msg` is a load/modify/store that an IRQ `send_msg` can
   interleave with.
   Correctness: FIFO delivery of accepted messages, every accepted message is
   read, the consumer is woken while messages are pending, distinct handles.
2. **Command parser** (`cmd_rec`, `complete_rec`, `cmd_reset_rec`). State per
   port: `rec_cmd[p]` = name buffer + 4-bit `cmd_ptr`, 5 parameter slots
   (tag, 65-byte value, `val_ptr`), `cmd_val_ptr`, `cmd_rec_step`, complete
   and busy flags, the 64-byte CRC replay buffer and its pointer, the 8-byte
   CRC text buffer, `is_crc`, `crc_ptr`. One IRQ-context operation per byte.
   Correctness: a pending record is frozen until handled; partial lines never
   reach the dispatcher; a dispatched command carries exactly the parameters
   of the line that completed it; a line whose CRC does not match is never
   dispatched; buffers are never written past their end.
3. **Dispatcher** (`cmd_handle`, `cmd_ans_new`, `crc_cal`, `gcode_seen*`,
   the per-command `switch`). State: `cmd_ans_ifo[p]`, `ghead_p[p]`. Task
   context. Correctness: each completed record is handled exactly once; the
   record is fully reset afterwards; answers go to the port they came from.
4. **Liveness monitor and baud cycling** (`monitor_ch_fuc`,
   `refresh_ghead_in_status`, `start_monitor_ghead`). State: `ghead_p[p].is_ghead_in`,
   `wait_count`, `wcount[p]`, the single shared `cur_baud`. Only `port_ptr`'s
   monitor timer is started at boot (`init_serial_cdc`); the host command
   `ghead_start_monitor_ghead` starts others, and `set_normal_cmd` `'B'` also
   writes `cur_baud`. Correctness:
   presence/absence reported once per transition; a silent ghead is declared
   absent after `GHEAD_TIMEOUT_COUNT` monitor events; an absent port
   eventually tries every baud rate.
5. **UART transport** (`send_dat_in_queue`, `pop_dat_from_queue`, `try_send`,
   `uart_interrupt_callback`, `serial_init_t`). State per port: 512-byte ring,
   put/pop/len, `send_status`. Push in task (or IRQ) context under
   `irq_disable`, pop in the TX IRQ *and* from the task's `try_send` outside
   any critical section. `len` is narrowed from `uint16_t` to `uint8_t`; the
   capacity test is `send_len + len < 512`. Correctness: bytes leave in the
   order accepted, a refused chunk leaves the ring unchanged, `send_len`
   equals the bytes held, the transmitter never idles with bytes queued.
6. **Timer pool** (`refine_timer.c`). State: 5 slots `{tcount, period,
   callback, state, type}`. Operations create/start/stop/reset/destroy/status
   and `refine_timer_sys_run` (tick). Nothing in this repository calls
   it. Correctness: the timer state machine of the spec, a periodic
   timer fires once per period, a one-shot exactly once.
7. **Formatted output** (`stdio_t.c` `mprintf`, `myitoa`, `copy_str`,
   `strcat_t`, `putchar_t`). State: the global `str[50]` (every call writes
   its reply there) and `send_buff`, the file-static buffer that all calls
   share. Callers: the reply paths of `set_heater_switch`, `set_normal_cmd` and
   `trans_len_data` (serial_cdc.c). The spec puts it out of scope, except as the
   producer of TX chunks (length up to 255), so the model checks the replies
   against the format that each call site states.
8. **Board glue** (`lpc176x/main.c` watchdog and clocks): register writes only.

### Hard behaviours

* IRQ/task interleaving on the mailbox counter and on the record reset
  (`cmd_reset_rec` clears the record field by field while the UART IRQ may
  already be parsing the next line).
* Message loss, duplication and reordering inside the mailbox once its
  indices leave the box.
* Wire-controlled indices: a 6th parameter writes slot `cmd_val[5]`, which
  overlays `cmd_rec_step`; CRC digits are appended without a bound and reach
  `is_crc` and `crc_ptr`; the replay buffer is written without a bound.
* Stale state: `cmd_reset_rec` clears 4 of the 5 parameter slots.
* Timeouts: the 5-tick presence timeout and the baud cycling shared by two ports.

## 2. Plan

Modules, in the order they are built (most important behaviour first):

1. `MsgQueueOps` (operators on one mailbox struct, byte-faithful) and
   `MsgQueue` (pool + IRQ producers + task consumer with the split `mlen--`).
   MC module `MCMsgQueue`. *Done.*
2. `CmdRec` (the parser's per-byte steps and the reset as operators on a
   record) and `SerialCdc` (composition: UART RX IRQ per port running `cmd_rec`,
   the mailbox, the monitor timer IRQ, the task running `read_msg`,
   `cmd_handle` with the reset split at its statements, `monitor_ch_fuc`).
   MC module `MCSerialCdc`. *Parser, reset and task done. The monitor timer is the mailbox's second producer (`MonitorTick`); what `monitor_ch_fuc` does with its events is in `BaudMonitor`.*
3. Dispatcher effects on `ghead_p` (temperature, sensor, fan, PRO3 commands
   that index `ghead_p[head_ptr]` with a wire value) and the reports, in
   `SerialCdc`; the decimal scanner `my_atof`/`m_ftoi`/`get_x_bit` and `atoi`
   as RECURSIVE operators in `Decimal`, checked against a reference decoding
   of the spec (§4.4) over all short values.
4. `UartTx`: the TX ring with task-side push under `irq_disable`, IRQ-side
   `try_send`, the task-side `try_send` race, `uint8_t` narrowing of the
   chunk length; abstract spec `ByteFifo` (bytes transmitted = prefix of the
   bytes accepted) checked by `INSTANCE ... WITH` refinement. *Done.*
5. `RefineTimer`: the timer pool with a callback that may call
   start/stop/reset/destroy. *Not built: nothing calls the pool (section 7).*
6. `BaudMonitor`: two ports' monitors sharing `cur_baud`, with the two timers
   firing alternately (equal 1 s periods); liveness that an absent port tries
   every rate. *Done, as a module of its own: the monitor
   touches the link only through `ghead_p`, `cur_baud` and `serial_init_t`.*

Abstract specifications worth stating: the mailbox as a bounded FIFO (capacity
16, drop when full) — the code does not implement it, shown by violation
runs; the TX ring as a byte FIFO; the timer state machine; the parser as the
spec's grammar (`SpecParams` in `SerialCdc`).

## 3. Modules and how they correspond to the code

| Module | Models | State | Actions / operators |
|---|---|---|---|
| `CTypes` | `uint8_t` | — | `Byte` |
| `MsgQueueOps` | one `_msg_queue` struct and the pool functions of `msg_queue.c` | a struct is `[mem: bytes 0..23, wake, wild]`; the fields after `msg_box[16]` are read and written through `mem` at their offsets (16 `msg_n`, 17 get, 18 put, 19 `mlen`, 20 `is_used`) | `SendMsg` (the whole of `send_msg`), `ReadMsgBegin`/`ReadMsgEnd` (`read_msg` split at the store of `mlen - 1`), `ReadRewakes`, `LookupMsgQList`, `CreateMsgBox`, `FreeMsgBox`; `CRem` is `%` with the Cortex-M4 result for a zero divisor |
| `MsgQueue` | the pool used by tasks and interrupt producers | `pool`, `handle[c]`, `woken[c]`, the task's `pc`/`tmp`/`res`; history `pending` | `Create(c)`, `Free(c)`, `Send(m)` (an interrupt: runs whole, between any two task steps), `ReadBegin`, `ReadEnd` |
| `CmdRec` | one `rec_cmd[p]` and the functions that change it | the record's fields; byte arrays as sequences with trailing zeros trimmed; stores that the packed layout sends into a neighbouring field are written there (`SetRecBuff`, `SetValType`, `SetValPtr`, `StoreCrc`) | `CmdRecStep` (the `switch` of `cmd_rec`: `RecIdle`, `RecName`, `RecTag`, `RecValue`, `RecCrc`, default), `CompleteRec`, `ResetStore(r, k)` (statement `k` of `cmd_reset_rec`), `CrcCal`, `Atoi`, `CrcCheck`, `ParamsOf`, `CmdAnsNew` |
| `SerialCdc` | the ghead link: UART RX interrupt per port, the monitor timer interrupt, mailbox, task | `rec[p]`, `mbox`, `woken`, task `tpc`/`tport`/`rst`/`tmp`/`res`; environment `wire[p]`, `sentLines[p]`; timer `ticked[m]`, `ticks`; history `since`, `pendingLine`, `lastDispatch` | `GheadSend(p)` (environment), `RxByte(p)` (`uart_interrupt_callback` → `recv_dat` → `cmd_rec`, with `complete_rec`'s `send_msg`), `MonitorTick(m)` (`monitor_ghead1/2`: `send_msg` of the MONITOR event; `monitor_ch_fuc`, which the task then runs, touches no record), `TaskRead` (`sched_check_wake` + `read_msg` up to the store), `TaskHandle` (rest of `read_msg`, the event `switch`, `cmd_handle` up to `h_end`), `TaskReset` (one statement of `cmd_reset_rec`) |
| `UartTx` | the transmit half of a port in `atsam/serial.c`: `serial_init` (`init_uart_para`, `serial_init_t`) for `Init`, the `uart_para` ring, `send_dat_in_queue`, `try_send`, `pop_dat_from_queue`, the TX part of `uart_interrupt_callback`, and the UART's THR and shift register | `u` = `[buf, put, pop, len, status, txie, thr, sh]` (`send_len` as a `uint16_t`, `txie` the TXRDY bit of the interrupt mask); task `tpc`/`dat`/`tmp`; environment `wire`; bounds `calls`, `rxs` | `Push(c)` (`send_dat_in_queue`'s test and the push loop under `irq_disable`), `CheckStatus`, then one action per load or store of the task's `try_send`: `PopLen`, `PopDat`, `PtrLoad`/`PtrStore` (`send_pop_ptr++`), `LenLoad`/`LenStore` (`send_len--`), `WriteThr`, `ChkStatus`, `EnableTx`, `SetBusy`, `DisableTx`, `SetIdle`; `Irq(rx)` (the interrupt, raised by TXRDY while enabled, or by a received byte; runs `try_send` whole when THR is empty); `Load`, `Shift` (hardware) |
| `ByteFifo` | what a TX port promises: accepted chunks leave as bytes, in order, none lost or repeated, and (`Spec`) eventually | `q`, `out` | `Accept`, `Emit` |
| `BaudMonitor` | the ghead liveness monitor and baud cycling of `serial_cdc.c` | `inn`, `wait` (`ghead_p[p].is_ghead_in`, `.wait_count`), `wcount[p]`, the shared `cur_baud`, `pb[p]` (the baud `serial_init_t` last programmed), `mons`/`turn` (started monitor timers in firing order); environment `plugged[p]`, `gb[p]` (the ghead's baud) | `Tick` (`monitor_ghead1/2` → mailbox → `monitor_ch_fuc`, whose branches are `MonitorPresent` and `MonitorAbsent`, with `CycleDue` and `CycleNext`), `RefreshGheadInStatus(p)` (a valid command from the ghead), `SetBaudCmd(val)` (`set_normal_cmd` `'B'`), `StartMonitorCmd(p)` (`start_monitor_ghead_cmd`), `TogglePlug(p)` (environment) |
| `Mprintf` | `mprintf` and its helpers in `stdio_t.c`, called from the reply paths of `set_heater_switch`, `set_normal_cmd` and `trans_len_data` | `send_buff` (its bytes up to the first NUL), `str` (50 bytes), `wire[p]` (the replies sent per port, each with its format and arguments), `calls` | `SetHeaterSwitch(ptr, hs)`, `SetNormalCmd(mode, ptr, val)` (modes `H`, `S`, `S`+`T`, `T`, `A`, `CV`), `TransLenData(ptr, mode, addr, data)`. Operators: `MprintfT` (the `memset`, the length test, the scan), `Scan` (`%d`, `%x`, `%c`, `%s`, and any other character after `%`), `MyItoa` (with the reversal loop's stores at their real indices), `CopyStr`, `StrcatT`, `FindStrEnd`, `PutcharT`; reference `Render` |
| `MCMsgQueue`, `MCSerialCdc`, `MCUartTx`, `MCBaudMonitor`, `MCMprintf` | model values, lines (as ASCII byte tuples) and bounds for TLC | | |

Granularity. An interrupt handler is one step: the task cannot run inside
it, and the only interrupts modelled (UART RX of the two ports) touch
disjoint records and make their mailbox sends whole. The timer interrupt
(`MonitorTick`) is also one step; its nesting inside the UART interrupt is not
modelled, because both only add a message and either order is explored. The task is split only where an interrupt
changes its outcome: between `read_msg`'s load and store of `mlen`, and
between the statements of `cmd_reset_rec`. The part of `cmd_handle` before the
reset reads only a record that the parser leaves alone while it is complete
(checked: `FrozenWhilePending`), so it is one step.

Undefined and implementation-defined behaviour is a choice over the outcomes
the build can produce: a load of a consumed mailbox slot (`Stale`) gives any
code; `crc_buff[crc_ptr++]` with `crc_ptr` = 9 writes `crc_ptr` itself
unsequenced with the increment (both results); `crc_cal` reading past byte 73
of the record reads the other port's record (any byte).

`Mprintf` abstractions:
* The literal text of a format is the byte `LIT` (`X`), repeated. Only `%`,
  NUL and the bytes that conversions produce are told apart.
* A `uint32_t` argument is held as the `int32` with the same bits, because
  TLC integers are 32-bit. `INT_MIN`'s negation in `myitoa` wraps to itself,
  as it does on the Cortex-M4.
* `putchar_t` with the `NULL` result of `find_str_end` would store to address
  0, which is flash on the SAM4E; the store is dropped.
* `%f` is not modelled: no reply of the modelled callers uses it.

## 4. Runs

| Run | Expect | Checks | Shows |
|---|---|---|---|
| `mq_pass` | pass | `TypeOK`, `NoLostWakeup` | sends between the task's load and store of `mlen`, and freeing and creating the mailbox again, never leave messages without a wake-up |
| `mq_fifo` | violation | `MailboxFifo` | with `msg_n` = 0 the indices leave the box; after 16 messages `read_msg` does not return the oldest message |
| `cdc_pass` | pass | `TypeOK`, `DispatchMatchesLine`, `FrozenWhilePending` | two ports sharing the mailbox and the task (the two receive interrupts are the mailbox's producers, racing the task's `mlen--`); a line with a wrong CRC trailer and a line without parameters on either port; a byte arriving during the reset. A rejected line leaves slot 0 dirty for the next line, so the reset of slot 0 is exercised |
| `cdc_tick` | pass | `DispatchMatchesLine`, `FrozenWhilePending` | one port with `port_ptr`'s monitor timer firing for ever: the mailbox passes its 16th message, the 17th overwrites `msg_n`, and the task reads stale and repeated events. No such event makes the task dispatch a record that does not match its line, or the parser touch a pending record |
| `cdc_staleslot` | violation | `DispatchMatchesLine` | slot 4 survives `cmd_reset_rec`: `M115` is dispatched with `E5` of the previous line |
| `cdc_crc` | violation | `CrcRespected` | `(uint8_t)atoi` accepts trailer 316 for checksum 60 |
| `tx_pass` | pass | `TypeOK`, `FifoSafe` | task and TXRDY interrupt alone: through ring wrap-around, THR and the shift register the port refines `ByteFifo!Safe`; the `SendIdle` test is what keeps the task and the interrupt from popping at once |
| `tx_stall` | violation | `FifoLive` | the TXRDY interrupt between `UART_IER = TXRDY` and `send_status = BUSY` (lines 168-169) empties the ring and marks it idle; the task's BUSY store then stops transmission for good |
| `tx_rxrace` | violation | `FifoSafe` | a received byte raises the interrupt, which calls `try_send` (THR empty) in the middle of the task's own pop; a byte is sent twice or a stale slot is sent |
| `mon_pass` | pass | `TypeOK`, `AbsenceReported`, `GheadFound` | on every monitored port, a silent ghead is reported absent, and a plugged ghead at any of the three cycle bauds is found. This holds when both ports cycle on the one `cur_baud` and the host sends `'B'` commands. It relies on the two timers firing alternately: with an arbitrary firing order or without `CONFIG_GH_BUAD_RATE`, `GheadFound` fails (see the hazards) |
| `cdc_wedge` | violation | `CompletedEventuallyHandled` | one port, the monitor timer firing for ever. A send between `read_msg`'s load and store of `mlen` leaves `mlen` one short of what the box holds. On its own that is recovered: the next timer event makes `read_msg` return the stranded one. But the 17th message since boot is stored in `msg_n` (offset 16), after which both indices run modulo that event code, a ring of a few slots. With `mlen` behind, a timer event is stored over the unread RECV event. The record stays complete, `cmd_rec` drops every later byte, and no RECV event for the port is sent again. The trace uses RECV = 1 and MONITOR = 3 (`msg_event_t.h` is not in the repository) |
| `mp_digits` | violation | `RepliesRendered` | For a negative number, the shift in `myitoa` that makes room for `-` (stdio_t.c:88-92) overwrites the terminating NUL and writes no new one. Whatever an earlier, longer number left in `str` follows the digits. `set_normal_cmd 'H'` with heater 100 and value `0xFFFFFFFF` sends `M5100 H100 H-10` rather than `H-1`. With only non-negative values the property holds (3971 states). `INT_MIN` gives a second counterexample, in which the digits are not even characters |

Every property of a passing run has a mutant in `PROJECT.json`: a plausible
slip in the mapped code (a dropped emptiness test, an off-by-one re-wake test,
a shorter or shifted reset loop, a skipped CRC comparison, a parser that
ignores the complete flag) under which TLC finds the property violated.

## 5. Bounds and why they are enough

* `MaxSends` (17 in `mq_pass`, 18 in `mq_fifo`): more than the 16-byte box,
  so the indices pass the box end, where the code's behaviour changes.
  `mq_fifo` adds the state constraint `MCKeepsUp` (at most 2 unread messages),
  which keeps the search small; the violation needs only one read behind.
* `MaxLines` (1..3 lines per port) from small line sets: each line exercises a
  different parser path (no parameter, one or five parameters; CRC bad or
  wrapping). Two lines per port give a line, a reset racing the next line,
  and a line after a record whose slots were dirtied. Longer lines, more
  parameters or a third line on two ports take TLC past five minutes, more
  so with the liveness property.
* `MaxRxInReset` (0 or 1): bytes arriving on a port while the task is inside
  `cmd_reset_rec` for it. The reset is 12 stores (microseconds); a byte at
  115200 baud takes 87 µs, so more than one byte during a reset does not
  happen unless the task is preempted for long. With 1, `RxByte` lands before
  every reset statement.
* Ports: 1 and 2 (`{0, 1}`, the two `rec_cmd` records).
* Monitor timer: only `port_ptr`'s (`SERIAL1_PTR`) runs, as after boot. A timer
  fires again only after the task has run since its last firing (`ticked`):
  its period is one second and the task runs within microseconds of a wake-up.
  It may still fire anywhere inside the task's steps, in particular between
  `read_msg`'s load and store of `mlen`. `MaxTicks` bounds the firings: 0 in
  `cdc_pass`, where two receive interrupts already race the task and one
  firing takes the run to five minutes; none (-1) in `cdc_tick` and
  `cdc_wedge`, because the timer reschedules itself for ever, and that is
  what takes the mailbox past its 16th message.
* Event codes: RECV = 1, 2 and MONITOR = 3, 4 for ports 0, 1. Which code is
  the 17th message decides the ring size after `msg_n` is overwritten, and the
  real values are in a header that is not in the repository.
* `BaudMonitor`: both ports, each with a ghead at any of the three cycle
  bauds, plugged or not at boot; `MaxPlugs` = 1, one unplug or plug event
  (a ghead is lost after being found, or found after the cycling has run
  for a while); `MaxHostCmds` = 2 (start the second monitor, and a `'B'`
  command whose baud may lie outside the cycle). With `MaxPlugs` = 2 the run
  also passes but takes about 4 minutes. The counters `wait_count`,
  `wcount` and `cur_baud` are bounded by the code itself.
* `UartTx`: `MAX_SEND_LEN` = 4 instead of 512 (the ring's behaviour depends
  only on wrap-around and the capacity test, both reached with 4: three
  chunks of 1 or 2 bytes fill it, are refused, and wrap); `MaxChunks` = 3
  calls of `send_dat_in_queue`; `MaxRx` received bytes (0 in `tx_pass`
  and `tx_stall`, so that only the task and TXRDY race; 2 in `tx_rxrace`).
  The RX branch of `Irq` therefore fires only in `tx_rxrace`: with it, the
  pass run would be violated by the bug that run shows.
* `Mprintf`: `HostVals` = {0, 1, -1} (where -1 is `0xFFFFFFFF`), `HostBytes` = {0, 1, 100}
  and at most `MaxCalls` = 2 host commands. Two calls are enough because
  `str` and `send_buff` persist across calls. `TransData` holds the empty
  string, a string with an embedded NUL, and a 53-byte string. A Klipper frame
  is 64 bytes, so 53 bytes is the longest `%*s` a host can send. With it the
  longest reply is about 72 bytes, short of `find_str_end`'s 128-byte limit
  (`ASSUME`).

## 6. Fairness

`WF` on the task's actions (`ReadBegin`, `ReadEnd`; `TaskRead`, `TaskHandle`,
`TaskReset`): Klipper's scheduler runs every woken task in its loop, and a
task runs to its end. `WF` on each started monitor timer (`MonitorTick`): it
reschedules itself every second (`SF_RESCHEDULE`), for ever. No fairness is
assumed for the UART interrupts or the gheads: lines may stop at any time.

`UartTx`: `WF` on the task's steps (`send_dat_in_queue` runs to its end), on
the TXRDY interrupt `Irq(FALSE)` (an enabled, unmasked interrupt is taken)
and on `Load` and `Shift` (the UART clocks bytes out). None on `Push`
(producers may stop) and none on `Irq(TRUE)`: received bytes are the other
side's choice.

`BaudMonitor`: `WF` on `Tick`, since the timers are periodic interrupts.
`SF` on each port's `RefreshGheadInStatus`: a ghead talks all the time,
so if its port is at its baud again and again (the cycling may move the
port away after four ticks), one of its commands gets through. Host commands
and plugging have no fairness.

The former run `mq_pool` made room for `mon_pass`.
Its finding was that `create_msg_box` never sets `is_used`, so every client
gets slot 0. The firmware has a single client (`init_serial_cdc`), so this
cannot bite; `MsgQueue` still defines `DistinctMailboxes`, which no run checks.

## 7. Not modelled (yet), and why

* The per-command effects of `cmd_handle`'s `switch` (`ghead_p`, replies via
  `mprintf`), and the decimal scanner `my_atof`/`m_ftoi`/`get_x_bit`: planned
  (`Decimal`, dispatcher effects).
* The monitor in one module with the link: `SerialCdc` sends the timer's
  events through the real mailbox but leaves `monitor_ch_fuc`'s effects to
  `BaudMonitor`, which takes the timer-to-task mailbox as one reliable step.
  `cdc_wedge` shows that step can fail; composing the two would exceed
  TLC's reach with the mailbox's byte layout.
* Re-adding a running monitor timer (`start_monitor_ghead_cmd` with ptr 2, or
  with `port_ptr`): its effect depends on `sched_add_timer` in Klipper's
  `sched.c`, which is not in this repository. `StartMonitorCmd` starts only
  stopped monitors.
* What a later `serial_init_t` does to the TX ring: it drops THR and the shift
  register and masks TXRDY but leaves `send_status`. `UartTx` has it as
  `SerialInitT`, used only by `Init`; `BaudMonitor` models only its effect on the
  port's baud.
* `refine_timer.c`: nothing in the repository calls it (no caller of
  `refine_timer_create` or `refine_timer_sys_run`), so no behaviour of the
  firmware depends on it.
* Board glue (`lpc176x/main.c`): register writes only.
* Other `mprintf` callers: the `%f` replies, the debug output on
  `DEBUG_PORT`, and `repond_fuc`'s host responses. Their formats use the same
  operators, so they would add no new paths. `set_probe` is not registered as
  a command. `register_io_serial` only stores a callback.
* Lines longer than 64 bytes, six parameters and nine-digit CRC trailers are
  modelled by the operators (the layout aliasing), but no run sends them yet;
  see the hazards in `PROJECT.json`.
