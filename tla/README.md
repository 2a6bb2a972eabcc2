# Formal models of the RAK831 LoRa gateway project

This directory holds TLA+ models of the gateway, its concentrator library and its nodes, the
TLC configurations that check them, and proofs checked by TLAPS. Paths below are relative to
the repository root; `PROJECT.json` maps every definition to the lines it models.

## 1. The system and its parts

A Raspberry Pi drives a RAK831 concentrator (SX1301 baseband, two SX125x radios, optional
FPGA) over SPI. Arduino nodes with SX1278 (SPI) or E32 (UART) modules exchange packets of a
few bytes with it; a Python process on the Pi bridges a local TCP socket to MQTT.

```
 cloud -- MQTT -- thread_mqtt.py -- TCP 8080 -- gateway program -- rak831_api -- loragw_hal
                                                                                    |
 UartNode1/2 -- E32 radio -- RelayNode --+                         loragw_reg/spi --+
                                         +-- LoRa 433 MHz -- SX1301 --+
                    spiNode1/2 ----------+
```

| Component | State | Operations | Hard parts | What makes it correct | Module |
|---|---|---|---|---|---|
| Concentrator HAL, `loragw_hal.c` | static configuration, gain table, `lgw_is_started`; the chip's registers, FIFO and transmitter | `lgw_*_setconf`, `lgw_start`, `lgw_stop`, `lgw_receive`, `lgw_send`, `lgw_status` | configuration kept twice, starts that fail half way, restarts, program killed | packets of a started chip reported where they were heard, and once; calibrated radio, power not above the one asked for, no packet cut, polls end | `LgwHal` |
| Register layer, `loragw_reg.c`, `loragw_spi.native.c` | `lgw_regpage`, the chip's page and registers | `lgw_reg_r/w/rb/wb`, `lgw_connect`, `lgw_soft_reset` | several transfers per call, threads without a lock, failing transfers | the right page, calls atomic | `LgwReg`, `RegFile` |
| Lamp node, `spiNode1.ino`, `spiNode2.ino`, `LoRa.cpp` | lamp pins, status, mode; the radio | `loop()`, DIO0 interrupt, command parser, driver | interrupt against loop and its transfers, edge-triggered interrupt | the lamp is what is reported, commands obeyed and never missed for good | `SpiNode` |
| Gateway main loop, `rak_multi_channel.c`, `rak831_test_multi_channel.c`, `rak831_api.c` | the batch and the loop variable | listen, fetch, report | loop variable reused | each good packet once, loop ends | `GatewayLoop` |
| Gateway threads, `main.c` | two flags, two shared pointers, the socket | four threads | hand-over without a lock, buffers overwritten while they are copied, damaged packets, start-up order, SIGPIPE | no wakeup lost, newest packet sent whole or torn, none older than the last | `Mailbox`, `GatewayThreads` |
| MQTT bridge, `thread_mqtt.py` | connection | callback, socket thread | start-up order, end of stream | a message taken from the cloud reaches the nodes, unless replaced | `GatewayThreads` (partly) |
| Listen before talk, `loragw_lbt.c` | channels, FPGA registers | `lbt_setconf`, `lbt_setup`, `lbt_start`, `lbt_is_channel_free` | counters that wrap, two clocks, reads whose result is dropped | no packet beyond its channel's time, the FPGA scans what is configured | `Lbt`, `Bringup` |
| GPS time, `loragw_gps.c` | last sentence, time reference, history | enable, parse, `lgw_gps_get`, `lgw_gps_sync`, conversions | two sentences per pulse, estimated dates, three-strikes filter, wrapping counter, doubles cut off | reference right once confirmed, found again, conversions inverse but for a tick | `GpsSync` |
| Relay and E32 nodes, `RelayNode.ino`, `UartNode*.ino` | addresses, serial buffer, two radios | `loop()`, DIO0 interrupt, timer | bytes without frames, interrupt against loop | a report names the node that sent, both sides are heard again | `Relay`, `E32Config` |
| E32 drivers, `E32LoRa.cpp`, `e32_api.c` | buffer | configuration and read-back | time-outs, a radio that is late or keeps commands over a reset | success means the radio is set, nothing hangs | `E32Config` (partly) |
| Radio and FPGA drivers, `loragw_radio.c`, `loragw_fpga.c` | FPGA's options | set-up, PLL lock, scanning radio, notch filter | bounded search, lost transfers, register left by an earlier attempt | a part of a started chip whose transfers arrived is as configured | `Bringup` |
| Configuration files, `rak831_api.c` 86-482 | the HAL's statics | three files, their precedence, setconf calls | objects rejected half way, one file over another | the configuration is what the files say | `ConfigFiles`, `Bringup` |
| Range tests, RAK811 wrapper, sensors, library test programs, parson, paho-mqtt | | | | | not modelled, see 6 |

Interactions: a gateway program calls `rak831_api`, which calls the HAL, which calls the
register layer for every chip access; all of it is plain calls in whatever thread makes them,
so the HAL's statics and `lgw_regpage` are shared by the threads of `main.c`. Nodes and
gateway only share the air. Bridge and gateway share a TCP stream.

## 2. Modules

**`LgwHal`** has one action per HAL call; `lgw_start` is split by the point it reaches
(`Start_OpenFails`, `Start_CheckFails`, `Start_SetupFails`, then `Start_Load` and either
`Start_LoadFails` or `Start_Succeeds`), `lgw_receive` into call, one turn of the fetch loop
and return, `rak831_send` into `lgw_send` and the poll that sees TX_FREE. `rf`, `ifc`, `lut`,
`started` and `link` are the statics of the same names; `chip` is what the registers hold.
Between `Start_Load` and `Start_Succeeds` the chip is `partial`: the map of chains to radios is
the last word given to the firmware and the gain table is told to it entry by entry, so a start
that fails there leaves a chip whose packets may come through the other radio, and, after a
restart, `lgw_is_started` set over it. A packet carries whether the chip that heard it was
`whole`. Transfers over an open link succeed here (`Bringup` loses them). The chip's own steps
(`Air`, `TxEmit`, `TxDone`) are external. `Killed` restarts the program: statics anew, chip as
it was left. Frequencies and powers are integers; modem parameters, timestamps and payloads are
left out since nothing stated here depends on them. `Restarts` and `LiveGain` say what the
caller does: the gateway programs do neither.

**`LgwReg`** has one action per SPI transfer of a register call and the two halves of
`page_switch` (assign, write). Values of a register are opaque; registers that share a byte
share it through `Addr` and `Page`. `SpiFails` lets every transfer fail as the code lets it:
dropped result of the page write, read-modify-write going on after a failed read. The second
alias of the trigger register (`LGW_TX_TRIG_ALL`, the same byte under another name) is not
modelled. **`RegFile`** is what it promises: a register is read and written at one moment.

**`SpiNode`** composes the sketch, the driver and the radio: `pc` is `loop()`, `isr` the DIO0
handler, which only runs to its end (an AVR interrupt), `pend` the latched edge. A transfer of
`loop()` is three steps: `Select` (SS low), its bytes, with the interrupt masked, and `Deselect`
(SS high). A handler served after `Select` raises SS, and the bytes reach no chip; one latched
during the bytes is served at `ss = "tail"`, where its first transfer continues the burst: the
flags it reads are some other register, and it writes two bytes behind `loop()`'s. The history
variables `lost`, `garbled` and `overrun` say that one of these has happened. Transfers that
leave the mode alone are grouped into the step they belong to, of which any may be the one that
was met. `spiNode2` differs in address and frequency, and does not read a sensor, which the
choice of `dark` includes.

**`GatewayLoop`** is the loop over a batch, with the printing loop that reuses `i` when
`Reuse` holds (the released program) and without it (the test program).

**`GatewayThreads`** joins `main.c`'s four threads with the bridge over one TCP stream; every
access of a flag, a pointer or a shared buffer is a step, and those that last are two: a
buffer is being written (`fill`) until it is `Filled`, and copied in two passes, the size
(`findPayloadSize`) and the bytes (`Copy`). A content is a number: how much of the stream it
ends with, or how many packets the concentrator had delivered; what was copied while the buffer
was written may be `Torn`. A damaged packet makes `payload_to_server` a null pointer without
taking back the flag of the packet before (`rak831_fetch_packets`), which ends the program when
the sending thread gets there (`Segfault`). `main.c` is written for an earlier `rak831_api` and
no Makefile builds it; the two functions that changed are modelled from how it uses them.
**`Mailbox`** is what each hand-over promises (`Post`, `Complete`, `Take`, `Tear`, `Close`), and
`GatewayThreads` implements it twice (`ToNode`, `ToServer`).

**`E32Config`** has the five copies of the configuration as sequences of steps (`Program`) over
the same actions; they differ in where they wait, in what ends them and in the comparison
(`Verdict_*`). The radio takes commands from a queue, may be `slow`, may disobey a command, and
is not reset with the host. `Stack` is what an uninitialised `readbuf` can hold.

**`Relay`** is the loop of `RelayNode.ino` with its DIO0 callback, the serial line byte by
byte and the two nodes. A report is the transfers that change the radio's mode or wait for it:
`idle`, `isTransmitting`, `beginPacket_idle`, the switch to transmission
(`SPILoRaSendPackets`), `endPacket_poll`, `receive`, each with `Select` and `Deselect` as in
`SpiNode`. The callback runs with interrupts disabled, so it is one step, in which arriving
bytes are lost; it may fall before the bytes of a transfer, which then go to no chip (`lost`),
or behind them. `odd`, `lone` and `lost` are history variables: the first two count fetches
that were not one whole message.

**`ConfigFiles`** (what a file's objects become) and **`Lbt`** (verdicts and registers of listen
before talk) are pure definitions over records; **`Bringup`** keeps the state and calls them.
It has one action per part of `lgw_start` that can fail, in the order of the code, the search
for a PLL lock step by step, and the hand-shake with the AGC firmware word by word. `fpga`,
`radio`, `chip` and `agc` are the hardware and outlive an attempt exactly as far as the resets
of `lgw_connect` let them. A transfer fails in one of two ways: where the code looks at its
result the attempt ends (`Fault`); where it does not (`sx125x_write`, every `lgw_reg_w` of
`lgw_start`, `lgw_soft_reset`, `lgw_fpga_configure`) it is lost and the start goes on (`Lose`),
with a radio at its old clock, its old frequency or bytes of both (`Torn`), an FPGA not reset,
or modems as they were. The history variable `lost` names the parts, of this attempt, that
transfers were lost of. The verdict of listen before talk is taken from what was read (`Shown`):
a stamp, nothing, or that of the channel selected before. `wanted` is what the files say by the
comment on their precedence; `wanted.hidden` marks the files for which the code does not do it.
`LgwHal` has the same function in a few steps among all that a caller may do; what a *restart*
of a running concentrator does is modelled there only.

**`GpsSync`** is the loop of `test_loragw_gps.c`: sentences, parsers, `lgw_gps_get`,
`lgw_gps_sync`, with the pulse free to fall between reading the clock and reading the counter.
An RMC sentence may have a fix, or an estimated date (taken all the same), a time without a
date (of which the time of day is kept) or nothing; a TIMEGPS frame may have both validity
bits, one (taken all the same), or none. Only those with a fix, and both bits, are known to
tell the right second. The conversions are computed as the code does it, cut off to nanoseconds
and again to ticks, with a crystal's error (`Xtals`) and doubles that may be off by a nanosecond
(`Rounding`). `fixed`, `exact`, `wrongs`, `rights` and `confirmed` are history variables.

## 3. Runs

| Run | Question | Bounds | States |
|---|---|---|---|
| `hal_rx` | are packets reported where and as often as they were heard, is the FIFO drained? | 2 radios, 1 chain, 3 packets, FIFO of 2, all failures, restarts, kills, corrupt chain numbers | 465126 |
| `hal_tx` | calibrated, power, no cut, polls end | 2 radios, 2 gain tables of 3 entries (unsorted, invalid entry), 2 powers, FIFO of 1 | 194816 |
| `reg` | right page, atomic calls | 2 threads, 5 registers on 3 pages, 2 values, page values up to 7 | 18048 |
| `spi` | lamp, reports, interrupts | 2 commands, good or damaged, at any moment, also inside a transfer; at most 2 reports in the buffer | 456255 |
| `spi_idle` (violation) | does `idle()` hold against an interrupt inside the SS window? | 2 commands | |
| `gateway` | each good packet once, the loop ends | batches up to 3, sizes 1 and 3, all statuses | 2551 |
| `gateway_once` (violation) | the same of the released program | same | |
| `threads` | is every hand-over a mailbox, does a message get through? | 2 messages of the cloud, 3 packets of the nodes, good or damaged, cloud before or after the connection, bridge may end | 178458 |
| `e32` | does success mean the radio is set, does configuring end? | 5 programs, the byte that differs 5, buffer leftovers right or wrong, 1 reset | 19680 |
| `relay` | who is reported, does the relay hear again? | 2 messages, 3 commands, receive buffer of 6 | 2583661 |
| `gps` | reference, filter, conversions | 6 seconds, 4 ticks per second, counter of 9, errors of a second, restarts of the concentrator 3 ticks after a pulse | 2512640 |
| `bringup` | is a started concentrator what the files say, do retries get there? | 3 boards, 6 kinds of file in 3 places, 1 fault, 2 PLL attempts, 3 listen-before-talk channels, gain tables up to 5 | 99561 |

Why the bounds are enough:

* `hal_*`: `FifoMax` 2 with `MaxId` 3 fills the FIFO, drops a packet and lets a fetch meet one
  that arrived meanwhile; `LutMax` 3 has room for a first, an invalid and a stale later entry;
  two radios are all the board has.
* `reg`: one thread pages and one does not, as `lgw_send` and the FIFO count of `lgw_receive`
  do; two registers share a byte and two share an address on different pages.
* `spi`: `MaxReports` 2 is enough for a length that is not reset to show; the code's buffer
  stops at 85. One command switches the lamp on and the node to automatic control, the other to
  half and manual: every step of the handler differs. `gateway`: one size lands inside the batch
  and one behind it.
* `threads`: with 3 packets one is being sent, one, which may be damaged, replaces it, and
  one comes after that; of 2 messages a read may take a part or all.
* `e32`: `Differs` 5 is the last byte, so that an answer cut short hides it; one reset is what
  it takes for the radio to hold a command of the run before.
* `relay`: a message has 4 bytes, so `Capacity` 6 (64 in the library) overflows in the middle
  of the second message; three commands are what it takes to hang the relay (`Hung`).
* `gps`: the counter goes round in less than three seconds, between two pulses. Three samples
  make the first reference and the fourth can confirm it; in six seconds two wrong ones can
  follow, which it survives, or a restart. A third strike and a sample that finds the counter
  gone round need more seconds than TLC can take here; `TrustCorrect` covers them.
  The doubles are a nanosecond low, with which counter values do come back as the tick before;
  `TimestampCorrect` covers every rounding. `Backlog` 0
  lets the program be behind with nothing when a pulse comes, but a pulse may still fall between
  reading the clock and reading the counter. The theorems allow any backlog. `MCOneTurn` is
  the hypothesis of one of them.
* `bringup`: the fault is a noticed failure, or a loss, of one part or, in `lgw_connect`, of
  several at once, in any attempt; the retry of it meets what it left. 2 PLL attempts (5 in the
  code) are a lock that comes late and one that does not come; 3 channels (8) leave an inactive
  one. A gain table of the firmware has `LutMax` 5 entries (16), so that the files' tables are
  short or full; with 4 the status of the last entry would be that of the next word and a loss
  could be taken for it, which 16 cannot. Frequencies, scan times and packets are values of the
  code's own tables and limits; the times a channel was free lie in both turns of the 23 bits
  that the stamps' 24 hold.

`MaxId`, `MaxReports`, `MaxMsg`, `MaxPkt`, `MaxResets`, `MaxSends`, `MaxCommands`, `MaxTime`, `Backlog`
and `MaxFaults` are guards of the actions they bound. The theorems hold for every value of
theirs. `MC_LgwReg` also evaluates `MCPartitioned`, the hypothesis of the theorems, for the
gateway's threads. Deadlock is not checked where the system stops: a configured or failed
radio (`e32`), a gateway that has exited (`threads`, `bringup`), a relay and a GPS module that
have had their bounded input.

Fairness:

* `LgwHal`: the listen loop keeps calling `lgw_receive`, `rak831_send` polls every 5 ms without
  a limit, a start that has loaded the chip ends, well or badly, and the chip's firmware finishes
  what it sends (only in phase `running`).
* `SpiNode`: the handler runs to its end once entered, the radio ends a transmission, `loop()`
  moves whenever the handler leaves it time again and again (strong fairness, since each
  interrupt disables it). `Reports` is stated for a channel that falls quiet again and again:
  packets following each other closely keep the processor in the handler, in the code as in
  the model.
* `GatewayThreads`: the operating system schedules each thread, the bridge and the gateway
  start up and read what the stream holds. Nothing is assumed of the cloud, of the nodes or of
  how long the bridge lives.
* `E32Config`: the host executes (`WF(Host)`); a radio that is not `slow` answers. Nothing is
  assumed of a slow one, which may stay silent for ever.
* `Relay`: the relay's loop runs, a latched interrupt is served, the radio ends a transmission,
  and the relay's E32 passes on the bytes it has.
* `Bringup`: `main.c` reads its files and retries `rak831_start` in a loop, and `lgw_start`
  executes. Nothing is assumed of stops, sends and other configurations.

Nothing is assumed of packets, configuration calls of the HAL, starts or kills. `GpsSync` has
safety properties only; recovery is stated by counting samples.

## 4. What the runs show

The violation runs:

* `IdleHolds`: SS goes low before `beginTransaction` masks the interrupt; a packet then turns
  the write of `REG_OP_MODE` into nothing and `loop()` goes on with a receiving radio.
* `EachOnce` with `Reuse`: the payload loop overwrites the batch's loop variable.

The conditions inside the passing properties are as telling; each is needed:

* `Truthful` (`E32Config`) asks for six bytes in the buffer: with fewer the sketches compare
  what the stack holds and the library what there is. It asks for a `Timely` run, since a radio
  that keeps a command over a reset of the host answers the new question with the old state.
* `Attributed` (`Relay`) allows one report for each fetch that was not a whole message: the
  second address is only looked at where the first one matches.
* `FreqTruthful` and `NoOverpower` (`LgwHal`) are about a chip that was started to the end. One
  heard or sent by a `partial` chip may come through the other radio or leave with an old gain.
* `LampAsReported`, `ManualSticks` and `SendsStatus` (`SpiNode`) hold with packets in every
  window of a transfer but for one case, a pass of `loop()` whose `idle()` went to no chip
  (for `SendsStatus`: any of whose transfers did, or after a handler wrote over the radio's
  registers). The exception of the first two is over with the next pass under automatic
  control. `NotDeaf` and `Answered` have one exception, a handler served between `endTransaction`
  and SS high: it reads some other register for the flags, need not clear RxDone, and the node
  may never hear again. `Reports` excuses a pass that lost a transfer: the poll may wait for a
  transmission that was never begun.
* `Newest` and `EndToEnd` (`GatewayThreads`): what leaves may be torn, but a whole content that
  is not replaced leaves whole afterwards, since its flag is still to be raised. A damaged packet
  does undo an announced one. `EndToEnd` gives up when the gateway has ended: it makes one
  connection attempt, a `send` to a bridge that is gone ends it, and so does the null pointer
  of a damaged packet under the flag of the packet before.
* `Serves` (`Relay`): the relay comes back to reception whatever transfers of a report went to
  no chip, unless three packets of the gateway fell into the SS windows of one report, that of
  `idle()`, that of `beginPacket` and that of the switch to transmission: then nothing is sent
  and the poll of `endPacket` waits for ever (`Hung`).
* `Trusted` (`GpsSync`) starts with the first sample that agrees with the reference: the first
  of all is accepted unseen. It ends with three wrong samples in a row, or with a sample that
  finds the counter gone round since the reference (`GoneRound`): every good one looks aberrant
  from then on, so that one wrong sample can be the third strike. `Recovers` takes three good
  samples. GPS time is never compared: it is right if the sentences of the sample were exact, and
  a half valid frame puts a wrong one beside a right UTC.
* `Timestamps`: a counter value comes back as itself or as the tick before, the conversions
  being cut off twice.
* `Coherent` (`Bringup`) is stated part by part: a part some of whose transfers were lost in
  this attempt may be anything, since nobody looks at their result, and no other part suffers
  from it. The AGC firmware's part needs no such excuse, as its hand-shake notices every word
  that is lost. A board section of the local file without `lorawan_public` makes the network
  private though the global file says public, against the comment at `rak831_api.c:439`
  ("overwrite global parameters for parameters that are defined in both"): `wanted.hidden`
  excepts these files, and they are a hazard of their own.
* `ClearAir` (`Lbt`) is stated for packets that end within one turn of the 23 bits their times
  are compared in after their channels were free, channels that were free in the same turn of
  the 24 bits of their stamps, and channels with one scan time: `lbt_is_channel_free` takes the
  counters' difference across a wrap from the mask and the larger of two limits for both
  channels of a 250 kHz packet. A stamp that is not read lets nothing pass; a lost trigger count
  or channel selection is not noticed, the verdict is then about another time or channel, and
  `asked.known` excuses it.

More behaviours that no property can be stated against are in the models and listed as
hazards, among them: `lgw_start` never clears `lgw_is_started`, so a restart that fails leaves
the flag over a reset chip; `lgw_txgain_setconf` stores the first entries of a table that it
then rejects; the dropped result of the page write and the read-modify-write that goes on
after a failed read (`SpiFails`); the packet that ends between the handler's read of the flags
and its read of the packet's address; a command without mode bytes that ends automatic
control; the bytes a handler writes behind
those of `loop()`.

## 5. What is proved

All theorems are for every value of the constants their `ASSUME`s allow: any number of
radios, chains, threads, registers, packets, commands, messages, batch sizes, files, faults,
seconds. The inductive invariants (`FreqInv`, `TxInv`, `OrderInv`, `PollInv`, `RegInv`,
`DioInv`, `LoopInv`, `BatchInv`, `PaidInv`, `ReadBackInv`, `TrustInv`, `RecoverInv`,
`CoherentInv`) are proved, and the properties they imply are what the runs check. Every safety
invariant of a passing run is a theorem.

* `LgwHalProofs`: `TypeCorrect`, `FrequencyCorrect` (`FreqTruthful`), `CalibrationCorrect`,
  `PowerCorrect`, `LinkCorrect` (`StartedHasLink`), `OnceCorrect` (`NeverTwice`) and
  `AbortCorrect` (`NoAbort`). `FreqTruthful` is not inductive: a packet is heard long before
  it is fetched. `FreqInv` adds that while started the chip's configuration is the statics'
  (`Frozen`), that what waits in the FIFO was heard under it or by a `partial` chip (`FifoTruth`),
  that a fetch is only under way while started, and what is true while the firmware is started
  (`LoadPhase`, which `TxInv` needs too). `TxInv` adds that calibration and gain table of a started
  chip are the software's (`CalFresh`, `LutFresh`); it needs `~LiveGain`, since
  `lgw_txgain_setconf` has no "is running" check.
  `OrderInv` adds to `NeverTwice` that the FIFO rises too and that the next packet is newer
  than everything heard. `PollInv`, under `~Restarts`, says that a started concentrator has an
  open link and, between two calls of `rak831_send`, a free transmitter; with restarts
  the poll could end on a closed link while the packet is still being sent.
* `LgwRegProofs`: `TypeCorrect`, `PageCorrect` (`RightPage`) and `Linearizable`: `LgwReg`
  implements `RegFile`. `RegInv` says that a thread with a paged transfer ahead has the page
  selected, that nobody else is between the two halves of `page_switch`, and that the byte a
  read-modify-write has in hand is still the chip's. The last two assume `~SpiFails` and
  `Partitioned`: one thread at most pages, no byte has registers of two threads. The mapping
  hides page switches and the read of a read-modify-write; a read takes effect at its
  transfer, a write at its last one.
* `SpiNodeProofs`: `TypeCorrect`, `HearsAgain` (`NotDeaf`), `LampCorrect` (`LampAsReported`),
  `ReportCorrect` (`SendsStatus`) and `ManualCorrect` (`ManualSticks`), for interrupts at any
  moment of any transfer. `DioInv` ties the latched edge, the handler's position and RxDone
  together; `LoopInv` says that once `idle()` has reached the radio no interrupt is latched or
  running, and what `loop()` has done so far, if it lost no transfer.
* `GatewayProofs`, of both gateway programs. The loop: `LoopTypeCorrect` (`LoopTypeOK`) and
  `OnceCorrect` (`EachOnce`) under `~Reuse`, by `BatchInv`: what `i` has passed was reported as
  its status says, the rest was not. The threads: `TypeCorrect`, `WakeupCorrect`
  (`NoLostWakeup`, inductive together with the types) and `HandOverCorrect`, that the threads
  implement `Mailbox` in each direction: every step of theirs is a step of it or leaves it
  alone. What is written is never ahead of what was published, which the type invariant
  carries, and a copy is only torn by a content that was not sent before (`Disturbed`).
* `RelayProofs`: `TypeCorrect` and `AttributionCorrect` (`Attributed`), by `PaidInv`: each
  report is paid for by an address byte that the node sent and that is neither on its way nor
  in the buffer any more. It rests on lemmas about how many of a byte a sequence holds after
  an append, a message more, or a prefix less.
* `E32ConfigProofs`: `TypeCorrect` and `TruthCorrect` (`Truthful`), for all five programs.
  `ReadBackInv` follows the question: where it is asked the radio has at most one command
  before it and the buffer is empty; until it is compared the answer is to come, on its way, or
  there, and each byte of it is of the parameters the radio still has; so a complete answer
  that passed leaves a radio with nothing more to do.
* `GpsSyncProofs`: `TypeCorrect`; `RecoverCorrect` (`Recovers`) by `RecoverInv`: a good sample
  becomes the reference or counts as aberrant, so the third one is accepted. `TrustCorrect`
  (`Trusted`) assumes `OneTurn`, that no two pulses find the same counter value: with 2^32 values
  and a million ticks a second they do not for 777 days of one start, and without it a sample of
  the wrong pulse looks like a good one. `TimestampCorrect` (`Timestamps`) is for every crystal
  and every place where the doubles are cut off, as long as a tick lasts four nanoseconds at
  least, of the code's 1000 (`GpsAssumption`). `TrustInv` adds that sentences come in order, so
  that the date kept with a GPS time is never newer, and that each strike against a right
  reference is a wrong sample. The arithmetic is that of remainders of any `Wrap`.
* `BringupProofs`: `TypeCorrect`, `CoherentCorrect` (`Coherent`) and `ClearAirCorrect`
  (`ClearAir`). `CoherentInv` says which parts of `lgw_start` are done at each point of an
  attempt, that each left what it is responsible for as configured whatever it found there, and
  that no later one spoils it: the files (`FilesRead`), the radios (`RadiosSet`), FPGA and scan
  (`ScanSet`), the modems (`PeaksSet`), and what the firmware has been told before each word
  (`Understood`). Each says so for an attempt that lost nothing of the part. The hand-shake needs
  no such case: a word that is lost leaves the status of the word before, which is never the one
  expected, but for the word that ends a table of one entry; that loss shows one word later
  (`EndLost`). Two facts about what cannot happen had to be added: a scan is only started on a
  board with an FPGA, and an FPGA that is absent never scans. That the objects of a file keep the
  types and never yield the word that ends the gain table is an induction over the file, whose
  recursion is a function: `SetInduction` and `Smallest` take the least length for which it fails.
  `ClearAir` is arithmetic over every start time, duration and time a channel was free: the mask
  rounds the start and the end of the packet down to steps of 4096 us and `lgw_time_on_air` the
  duration to milliseconds, together at most 9189 us; the wrap loses one step; the code's limit is
  2048 us short of its maximum. What is left is below `Slack`. The assumptions on constants are
  the shape of a parsed file (`FilesAssumption`) and of what `lgw_lbt_setconf` is given
  (`LbtAssumption`), a firmware table that is not of 4 entries (`BringupAssumption`, see `bringup`
  in 3), and two facts of arithmetic that the provers have no theory of powers for: an air time is
  a number, and eight bits make a byte (`SelectAssumption`). TLC evaluates all of them in the run.

Only model-checked: the liveness properties (`Drained`, `SendReturns`, `Answered`, `Reports`,
`BatchEnds`, `EndToEnd`, `Ends`, `Serves`, `Settles` and the fair part of `Newest`), which are
out of the prover's reach. The safety part of `Newest` is `HandOverCorrect`.

## 6. Not modelled

* The range tests (`rak831_range_test*.c`, `range.ino`) are measuring programs run by hand:
  they count packets and print a rate, and the thirty packets that end a measurement are sent
  without looking for an answer.
* The RAK811 wrapper writes one AT command per method and compares the answer, and the sensors
  read I2C registers; neither keeps state. `SpiNode` has the light sensor's value as a choice.
* The library's test programs exercise the hardware; they were read for the order of calls they
  expect. parson and paho-mqtt are third-party code.
* Of modelled components: bursts of the FPGA and register layers (the paths of the one-register
  calls, or called by nobody); RSSI, SNR and the correction of receive timestamps in
  `lgw_receive` (data nothing here depends on); setters and getters of single E32 parameters;
  JSON and NMEA syntax and checksums (a file or sentence that fails them is a kind of input);
  positions; LEDs and text output; the MQTT session.

## 7. Plan

1. Proofs still open: the safety half of the liveness properties, that no step of the program
   leads away from the end: for `Ends` and `Settles` a measure that every step of the host
   or of `lgw_start` decreases.
2. Sending and fetching in the E32 drivers, and the single-parameter calls around them.
3. `RangeTest`: gateway and node over a lossy channel, should the programs gain a protocol.
