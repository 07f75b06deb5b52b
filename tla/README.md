# Hurra v3: a formal model of the firmware

Hurra v3 is firmware for the dual-core CH32H417. It sits between a USB mouse or
keyboard and a PC: it enumerates the real device, presents a clone of it to the
PC, forwards every report, and merges into them motion, clicks and keys that
arrive as commands on a serial line. It runs on one board, or on two boards
joined by SPI; on each chip a slow core (V3F) takes commands and drives the
display while a fast one (V5F) carries the reports. There is no operating system.
Everything is a polling loop, an interrupt handler, and a few registers or
buffers the two share, so the hard questions are all about order: what the
handler does between two instructions of the loop, what the other core reads
between two stores, what a lost slot leaves behind.

This directory holds TLA+ models of those parts, the TLC runs that check them on
small instances, and TLAPS proofs of most of the safety properties those runs check. Line numbers refer
to files under `src/src/` unless they say otherwise; `PROJECT.json` has the
definition-by-definition map, every run, the hazards and the findings.

Check a run with `tlc -workers 2 -config MCIcc.cfg MCIcc`, the proofs of a module with
`tlapm IccProofs.tla`. No run takes more than about two and a half minutes.

## 1. Inventory

```
 USB device --> USB host side --------------+ (one board)
                    |                       v
                    | (two boards)      Mouse merge ---> USB device side ---> PC
                    v                       ^   ^
   Board B: Two-board relay                 |   |
                    | SPI slot stream       |   | Inter-core injection channel
                    v        ^ return slots |   | (V3F -> V5F)
   Board A: Two-board relay -+--------------+   |
                                                |    Inter-core status channel
   PC --serial--> Command UART --> Command parsers --> Injection actions
                                                     (V5F -> V3F --> display)
```

| Component | State | Operations | Behaviours that are hard | Correct when |
|---|---|---|---|---|
| Inter-core injection channel (`icc.c`, loops in `main_v3f.c`, `main_v5f.c`) | V3F's ring of 256 records; four 32-bit MSG registers (two of payload, seq, ack); the doorbell flag and its interrupt enable; seq last published and last seen | send, pump, doorbell interrupt, receive, acknowledge, rearm, wfi, boot of both cores | two cores without a lock; four registers that together are one message; a doorbell interrupt that masks itself; sleeping; start-up order | each accepted record arrives once, whole, in order and in the end |
| Inter-core status channel (`icc.c`, `icc_status.c`) | a register with one field at a time, a heartbeat bit; V3F's merged view | pump (two stores), poll, age | the store is not atomic; rotation can be overtaken by state changes | no field shows a value it never had; every field is shown in the end |
| Two-board relay (`two_board.c`, `desc_xfer.c`, `report_xfer.c`, `inject_link.c`, `spi_frame.c`) | Board B: captured device, slot counter, inject FIFO. Board A: receive ring, reassembly of blob and report, previous slot number, phase, DRDY | send blob, poll and fragment reports, drain commands, poll telemetry; reassemble, enumerate, forward, apply | lost slots, no acknowledgement, a counter that wraps, resets of either board at any time, swap of the device | reports forwarded are reports captured, in order; the clone is one device |
| SPI slot stream and return slots (`spi_link.c`, `spi_frame_stream.c`, `two_board.c`) | slave byte ring, scanner window; two return buffers, one of which the interrupt puts on the wire word by word and around again, and which V5F swaps | receive, scan, resynchronise; stage, exchange, decode | bytes lost or garbled, SOF-like payload, ring overflow; a slot cut anywhere | a slot that reaches the ring whole is delivered; three returns refresh the display |
| Command UART (`uart.c`, `kmbox_cmd.c`) | receive and transmit rings, loss epoch, recovery, deferred baud rate | RXNE/TXE/error interrupt, batch read, parser reset; write, flush | interrupt against loop; a loss while a batch is copied; a byte that starts while the divisor changes | the parser never reads across a hole; responses leave whole |
| Command parsers (`proto.h`, `hurra.c`, `ferrum.c`, TinyFrame as `hurra.c` uses it) | partial message and its timeout; catch_xy window; callbacks and what they last told; deferred rate and reboot | bytes in, frames or lines out; one call of an action, or a reply, per message; the tick | silence measured at the loop, not on the line; requests that overtake one another; replies that a full ring cuts or refuses; deadlines across the wrap of the clock | every message sent without a pause is obeyed; each request gets one exact answer; the host knows the buttons |
| Injection actions (`actions.c`) | six key slots, modifiers, held buttons, click stage, up to 14 timed key releases, motion program, clocks | keys, buttons, clicks, motion, reset, the tick | commands in any order with deadlines across the wrap of the clock; fixed-point curves | nothing sticks; deadlines are met; motion lands where it was told to |
| Mouse and keyboard merge (`usb_merge.c`, `humanize.c`) | accumulators for motion, wheel, buttons and keys; dirty flags; per-cycle and silence flags; layout of the clone | drain, merge into a physical report, wheel flush, synthesized reports, roll-back | a send can be refused after everything was consumed; caps and clamps in series; the PC resets the bus between any two steps | every injected count is delivered exactly once; no button or key stays down |
| USB device side (`usb_device_fs.c`, `usb_device_hs.c`) | endpoint registers and toggles, configuration, OUT buffer, captured SET_REPORT; stage and buffers of endpoint 0 | interrupt handler: setup, IN, OUT, reset; loop: send, poll OUT, replay | handler and loop change the same register; buffers reopened before they are read; acknowledgements lost, requests abandoned | host and device toggles agree; each packet is handed over once; data stages are whole and every request finishes |
| USB host side (`usb_host.c`, `desc_capture.c`) | port state, device address, endpoint toggles | enumerate, capture descriptors, poll endpoints, control transfers | lost packets and acknowledgements, retries, unplugging between any two transfers | each report is taken once; the descriptors captured are one device's |
| USB CDC command port (`usb_cdc_fs.c`) | receive and transmit rings, endpoint registers, pending flag | interrupt handler; loop: read, drain and re-open, load and arm | handler between the loop's stores; rings that drop what does not fit | every command byte reaches the parser once; responses arrive once and in order |
| Descriptor blob, mouse report layout (`desc_serialize.c`, `hid_layout.c`) | the parser's position, page, sizes and named usages | serialize, deserialize; read the report descriptor item by item | an input's meaning depends on all items before it | the axes are where the HID specification puts them |
| Gesture filter and synthetic mouse (`gesture.c`, `synth_mouse.c`) | small filters | one call per report | none | statistical |
| Display, LEDs, temperature (`display.c`, `st7789.c`, `led.c`, `temp.c`) | what was drawn last | redraw | none | looks right |
| Link self-test, start-up, vendor code, tools | - | - | - | - |

### How the components interact

- *Calls*: UART bytes to a parser, parser to `actions.c`, `actions.c` to
  `icc_send_to_v5f` (on Board B of the two-board build to `inject_link_push`).
- *Registers between the cores*: four MSG words downwards with a doorbell, one
  status word upwards without any handshake.
- *Slots*: fixed-size, CRC-protected, numbered SPI slots from Board B to Board A;
  return slots on the same clock the other way; a level (DRDY) that says whether
  Board A still needs the descriptors.
- *Interrupt handlers with loops*: UART, USB device, doorbell, CDC, SPI.
- *The relay loop* of V5F calls in one round: drain commands, poll the real
  device, merge and send, flush the wheel, synthesize a report.

## 2. Modules

| Module | Models | State and actions |
|---|---|---|
| `IccQueue` | what the injection channel promises: a bounded FIFO that may refuse | `queue`, `done`; accept, deliver |
| `Icc` | the injection channel of `icc.c` and the two loops that drive it | each load and store of a register the other core sees is one action: `Send`, `StartPump`, the pump's pops and stores on V3F; boot read, enable, receive, acknowledge, rearm, wfi on V5F; the interrupt and the 1 ms tick |
| `IccStatus` | the status register | the pump's clear and set as two steps (`PumpClear`, `PumpSet`), `Poll` between any of them |
| `TwoBoard` | both boards' loops with the slots between them | Board B: `StartBlob`, `CaptureReport`, `SendNext` and the drain of commands, one slot per step; Board A: receive one slot, enumerate, relay; `Lose`, and resets of either board and swaps of the device |
| `SpiStream` | the byte stream into Board A | bytes arrive, vanish or are garbled; the scanner looks at its window and slides |
| `ReturnSlot` | the return slots | V5F publishes in one of two buffers while the RXNE interrupt stages the other's words, around and around; exchanges are cut at any word |
| `UartRx`, `UartTx` | the two halves of the command UART | the interrupt handler is one action per cause; the foreground has a step for each look at a shared variable |
| `CommandBounds`, `CommandHost` | what both parsers have around them: parameters and their assumptions; the poll loop's clock, the transport the answers leave through, the mouse, and a host that sends commands and keeps what it is told | `Drain`, `Report`, `HostRestart`, `HostMillisecond`; a reply fits, is refused (UART) or is cut (CDC) |
| `Framing` | how TinyFrame and the line reader find messages in the bytes | one action per byte fed and per tick; the host sends pieces, pauses and gives up |
| `Hurra`, `Ferrum` | what whole messages do in the parsers besides calling `actions.c` | catch_xy, callbacks, rate and reboot, the tick that closes windows |
| `ParseInt` | `parse_int`, with its accumulator's width | one character per step, against what the text means |
| `Actions` | `actions.c` | one action per command and `ActTick`, with a millisecond clock that wraps |
| `UsbMerge`, `KbMerge` | the mouse and keyboard halves of `usb_merge.c` under the relay loop | drain, merge, send with success or refusal, wheel flush, synthesized report; the PC takes the report, or resets the bus, between any two |
| `UsbDevice`, `UsbDeviceHs` | the interrupt endpoints and the SET_REPORT capture of `usb_device_fs.c`; what `usb_device_hs.c` does otherwise | wire transactions with their handler as one step; the loop's `send`, `poll_out` and replay split between the accesses to what the handler shares (`ReadControl`, `WriteControl`; `PollOut`, `ReopenOut`; `PollReport`, `ForwardPart`, `ReportDone`) |
| `Ep0Host`, `Ep0Fs`, `Ep0Hs` | the wire of endpoint 0 with the PC at its end; the control part of either driver's handler | one wire transaction, then one run of the handler; acknowledgements lost, requests abandoned, bus resets |
| `HostPipes` | the real device's interrupt endpoints (`usb_host.c`) | poll and send, the device's answer with either packet lost, the connect change that throws an answer away |
| `HostControl` | a control transfer with the real device (`usb_host.c`) | SETUP, data packets and status, each transaction with its outcomes; the device as USB prescribes |
| `Enumeration` | `desc_capture.c` and the loop around it | one step per control transfer, which succeeds, fails, or fails after it took effect; plug and unplug between any two |
| `HidLayout` | `hid_layout.c` | one item per step; the reference reads the same items by looking back from each input |
| `UsbCdc` | Board B's command port (`usb_cdc_fs.c`) | the loop's read, drain, clear, open, load and arm; the PC's transaction and its handler as one step |
| `IccProofs`, `TwoBoardProofs`, `UsbMergeProofs`, `HurraProofs`, `CommandsProofs`, `UsbDeviceProofs`, `EdgesProofs`, `PortsProofs` | theorems, each about the module or the composition `MC...` it is named for | section 6 |

The modules' variables have the names of the C variables where TLA+ allows.
Program counters (`pc`, `v3pc`, `bpc`, `ctrl`, ...) say where a loop is. Variables
under *history* in each VARIABLES list exist only for the properties, with no
counterpart in the code. Bounds are constants named `Max...`.
Definitions marked *Mutant* are plausible bugs that never occur in `Next`; each
replaces one definition to show that a property notices.

`MCIcc`, `MCTwoBoard`, `MCUsbMerge`, `MCCommands`, `MCPorts` and `MCEdges` each
instantiate several components which share no variable and, in the code, neither
memory nor an interrupt. A variable picked in the initial state (`part`, `channel`)
says which component a behaviour moves. Interleaving them would multiply the states
and add no behaviour of any component, so nothing is lost; the proofs about a
composition rest on the same fact, that each of its steps is a step of the component
in question or leaves that one alone. Where one module appears as several parts:

- `Actions` as *keys*, *buttons* and *motion*: the three tables of `actions.c` share
  only the clock and the tick, which take part in each. Moves and wheel records
  republish the held buttons and go with those.
- `UsbMerge` as *mouse* and, without motion but with more reports, as *clicks*, where
  it is compared with the buttons the user holds; `KbMerge` as *keyboard*: the two
  halves share one flag, which each takes from its surroundings.
- `TwoBoard` as *reports*, where slots are lost in bursts, and *commands*, with a FIFO
  that overflows.
- `UsbDevice` as *device* (full speed) and *hs*; `Ep0Fs` and `Ep0Hs` as *fs* and *hs*:
  a chip runs one driver at a time, and endpoint 0 shares with the others only what a
  SET_REPORT leaves behind, which each module has.

## 3. Runs

| Run | Question | Answer |
|---|---|---|
| `MCIcc` | Does the register protocol between the cores lose, repeat, tear or reorder a record under any interleaving, and does it ever sleep on one? Does the status register mislead? | No. It also implements `IccQueue`, every record arrives in the end, and a half-written status disturbs no field but the state |
| `MCIccBoot` | Is MSG[2] zero when V5F reads it at boot, as icc.c:79-80 says? | No, and then the channel is wedged for good: finding 1 |
| `MCTwoBoard` | With slots lost and boards reset, does Board A ever splice two reports, reorder or repeat a report or a command, or enumerate a mixture of two devices? Does it always come to relay once losses stop? | Not while the runs of losses are shorter than the counter's modulus and the blobs differ in length; it does |
| `MCTwoBoardDrop` | Is a lost slot harmless, as spi_link.c:355-356 says? | Not one with a command: finding 2 |
| `MCUsbMerge` | Is injected motion conserved through caps, clamps, refusals and resets? Is anything stranded, does a button or a key stick, is everything delivered in the end? | Conserved, nothing stranded, delivered; for scrolling and buttons the same with the wheel in the X/Y report |
| `MCUsbMergeStuck` | Does a release always reach the PC when the wheel has a report of its own? | No: finding 3 |
| `MCCommands` | Do orders of commands leave a key or button down, miss a deadline across the wrap of the clock or misplace motion? Is every whole message obeyed, every catch_xy answered once and exactly, every subscriber told? Is any text read as another number? | No; yes, but for the exceptions named in the properties; no |
| `MCCommandsBezier` | Does every Bezier program land on its endpoint, as actions.c:366-367 says? | Not one with a negative endpoint: finding 4 |
| `MCEdges` | Do loop and handler of either USB device and of the command port agree? Does a lossy wire repeat or lose a report or part of a control transfer, can a capture mix two devices? Is the layout the one the PC reads by? Does the scanner find every whole slot between damaged ones, is the display current after three return slots? | Yes, but for the exceptions named in the properties; neither; yes |
| `MCEdgesHs` | Is the high-speed driver's logic identical to the full-speed one's, as usb_device_hs.c:12-13 says? | Not where a halt is cleared: finding 6 |
| `MCEdgesOut` | Is an OUT packet consumed before the next can land, as usb_device_fs.c:389-390 says? | No: finding 5 |
| `MCPorts` | Can the parser read across a hole? Is a byte lost without a loss being noted, a response cut, a byte mangled by a new baud rate? Is a data stage of endpoint 0 ever incomplete? Do recovery, transmission and control requests end? | No; they do |

Each property's comment says what it states of the code. Those worth a reader's
first look, by the module that states them: `InOrderExactlyOnce`, `EveryRecordArrives`
(Icc), `NoSplice`, `CloneIsOneDevice` (TwoBoard), `OnlyHitSlotsLost` (SpiStream),
`NoHoleInParser` (UartRx), `NoByteCutByBaud` (UartTx), `MotionConserved`,
`NothingStranded`, `HeldButtonsShown` (UsbMerge), `NoStuckKey` (KbMerge),
`MessagesObeyed` (Framing), `CatchAnswered` (CommandHost), `HostKnowsButtons` (Hurra, Ferrum),
`ToggleAgrees`, `SetReportIntact` (UsbDevice), `PublishedWhole` (Ep0Fs, Ep0Hs),
`ControlFinishes` (Ep0Host), `TransfersOnce` (HostPipes), `TransferWhole` (HostControl),
`CloneOfOneDevice` (Enumeration), `LayoutFound` (HidLayout), `PortIntact` (UsbCdc).
The MC modules join some of them under one name (`NothingSticks`, `EndpointsAgree`,
`DataStagesWhole`, `RelayedInOrder`, ...), one conjunct per part.

### Findings

1. *Boot race* (icc.c:81). V3F wakes V5F, configures its UART and starts its
   command loop. If it publishes before V5F has run `icc_init_v5f`, V5F takes
   that record as already seen and never acknowledges it; V3F waits for ever for
   the acknowledgement. `DeadOnlyFromBoot` shows, and is proved, to be the only
   way into that state.
2. *Commands lost on the link* (inject_link.c:42). A record leaves the FIFO
   whether or not its exchange succeeded.
3. *Forgotten release* (usb_merge.c:805). For a mouse whose wheel has a report ID
   of its own, flushing the wheel recomputes the dirty flag from held buttons and
   motion, and so forgets an all-buttons-up that has not been sent.
4. *Bezier overshoot* (actions.c:381). The fixed-point rounding of a negative
   coordinate is off by one at the end of the curve. The program's exit test is
   never met and it stays active until replaced.
5. *OUT buffer reopened early* (usb_device_fs.c:393). The endpoint acknowledges
   again before the loop has read the buffer.
6. *Toggle kept over a cleared halt* (usb_device_hs.c:852). The high-speed driver
   writes only the response field; the PC starts its toggle over and drops the next
   report as a repeat. The full-speed driver starts over too.

Some divergences met while reading are visible in the models but have no run of
their own, because the property would restate the line: a mixture of two devices
whose blobs have the same length is accepted if the chunks fit together
(two_board.c:602); 255 or 256 slots lost in a row pass the gap check; a synthesized
report carries the injected buttons only, so it releases what the user holds on
the real mouse (usb_merge.c:746), and a physical report that finds the endpoint busy
is dropped with the release it may carry (usb_merge.c:358), both of which
`HeldButtonsShown` excepts; with a split wheel, scrolling that coincides
with a full endpoint is zeroed (usb_merge.c:775); an overrun loses one byte while
a good byte is discarded with it (uart.c:227, uart_rx_class.h); a torn status
word shows as BOOT for one poll; a full ICC ring refuses a command that has been
acknowledged to the PC (kmbox_cmd.c:56); an exchange that timed out feeds
the scanner an array it never filled (two_board.c:486); physical masks are set on
the command core and consulted on the other (actions.c:333);
SET_CONFIGURATION(0) followed by (1) leaves the interrupt endpoints unmapped
until a bus reset (usb_device_fs.c:746); the clone's speed is read from the port
after the capture, so a device swapped in during its last transfers gives it the
wrong one (two_board.c:280); neither relay loop ever captures again, although
main_v5f.c:554-558 expects a device to be re-attached without a reflash; the packet
after an OUT transfer whose acknowledgement was lost is dropped by the device as a
repeat while `usb_host_interrupt_out_send` reports it sent (usb_host.c:617-622);
`cdc_fs_tx_write` cuts a response that does not fit and `cdc_tx` ignores how much
was taken (two_board.c:148), where kmbox_cmd_host.c:58-59 speaks of "real
backpressure"; the high-speed handler of endpoint 0 takes a repeated packet of a
SET_REPORT for the next one, and the full-speed one does so the second time it is
repeated; the interrupt OUT handler does not look at the toggle at all
(usb_device_fs.c:543-573); the usages of a feature or output item stay for the next
input, so that a Resolution Multiplier hides the wheel behind it, a range before the end
of a collection stays as well, of several ranges, or of usages and a range, only the last
or the usages count, and a report ID that occurs twice starts over at bit 0
(hid_layout.c); Ferrum remembers what it told of the buttons across a change of host
(ferrum.c:389-403), where Hurra forgets it.

## 4. Bounds, and why they are enough

| Run | Bounds | Why |
|---|---|---|
| `MCIcc` | ring of 3, counters modulo 2, 5 records of 2 values; 2 status fields, 3 changes | 3 slots hold two records, so full, empty and wrap all occur; 5 records wrap ring and counters twice; modulus 2 is the harshest the protocol admits, and the proofs remove all of these bounds |
| `MCTwoBoard` | counter modulo 4, losses in runs of at most 2, 2 reports of 1 or 2 fragments in a ring of 2, 1 reset, blobs of 2 and 3 chunks. *commands*: ring of 1, runs of 1, 1 report, 3 commands into a FIFO of 3 (which holds 2) | a splice needs a report begun, a gap and a second report; runs shorter than the modulus are the assumption under which the gap check works (256 in the code), and 2 < 4 keeps the distance; two devices and one reset suffice to mix; the third command evicts the first |
| `MCUsbMerge` | frame cap 2, field 3, wheel 1, accumulator 4, deltas {-4, 0, 3}, one button; 2 records, 1 physical report (*clicks*: no motion, 3 reports), 1 bus reset. *keyboard*: keys a, b and one modifier, 1 key slot, 2 records, 2 reports, 1 reset | each cap clips alone and in series, motion takes several frames, a physical report beside a capped injection exceeds the field; press, release and another press of the user around an injected click; two keys compete for one slot |
| `MCCommands` | 3 keys for 2 slots, 1 modifier, 3 releases, 2 buttons, clock modulo 8 with a lag of at most 1 tick, counts 1 and 2, delays 0 and 2; fixed point of 16 for 65536, motion of up to 5 counts with at most 3 per record. Parsers: clock modulo 6 with a lag of 1, answers of 1 in a ring of 2, windows of 0 and 3, 3 requests, 2 notices, 2 rates, a delay of 2; messages of 2 and 4 bytes, lines of 2, timeouts of 2, 2 messages; numbers of 4 characters in 6 bits | slots and release table fill exactly as 6 + 8 = 14 in the code; the clock wraps within every program and window; both directions of a curve and its overshoot; a request under an open window and one after it, a reply into a full ring; a message that fits the buffer and one that does not, behind a fragment of another; digits that overflow the accumulator |
| `MCEdges` | *device*, *hs*: 2 packets each way, reports of 2 parts. *pipes*: 3 reports, 3 packets, 2 losses, 2 connect changes, 2 repeats per transaction. *control*: packets of 2, 3 transfers, 3 troubles. *capture*: 3 attachments, 2 captures of 2 attempts. *layout*: 4 pieces out of 12, 3 usages. *cdc*: rings of 4 (3 usable), packets of 2, 4 command bytes, answers of 0 to 2 bytes, 3 resets or requests of the PC. *stream*: slots of 4 bytes, a ring of 3, 3 slots, three choices of bytes that look like SOF. *return*: 3 words, 4 publications, 1 missed and 1 aborted exchange, 2 of other kinds | a loss on top of a loss, a swap within and after an attempt, transfers that end short, full and exactly on a packet, a response cut by a full ring; a ring smaller than a slot overflows inside it, and the scanner's window can hold the tail of one slot and the head of the next |
| `MCPorts` | receive ring of 3, batches of 2, 6 bytes; transmit ring of 4, responses of 1 and 3, 7 bytes, 2 baud changes; endpoint 0 with packets of 2, capture buffer of 4, 2 requests of 8 kinds, 2 lost acknowledgements, 1 abandoned request | full, empty and wrap; a loss before, within and after a batch; a response that does not fit; descriptors that end short and exactly on a packet, a SET_REPORT longer than the buffer, the same packet repeated twice |

`ASSUME`s name what the constants must satisfy. Most say that a size is a natural number,
or that a packet, a slot or a ring is not empty. Those with content, and where the code
gives them: `UsbMerge` assumes `FieldMax >= FrameCap` (fields of 8 bits and wider,
`hid_layout.c`) and that the wheel accumulator saturates at the field's range, both 127;
`CommandBounds` that the poll loop is never late by half the clock's range;
`FrameAssumption` (`MCCommands`) that the parsers' timeouts are shorter than that range,
a few milliseconds of 2^32, and that the line buffer has room;
`WordAssumption` (`MCCommands`) that half the range of a word is not zero;
`RoomAssumption` (`Actions`) that the release table has an entry for each key slot and
each modifier, 6 + 8 = 14 in `actions.c`; `PortAssumption` (`MCEdges`) that a packet fits
into the receive ring of the command port, 64 bytes in 512; `PiecesAssumption` (`MCEdges`)
that report descriptors are made of items. Deadlock is checked where a system never
stops; `MCCommands`, `MCEdges` and `MCPorts` switch it off because a part stops when its
bounded input is used up (the text is complete, the PC has no request or packet left, the
wire no trouble left).

## 5. Fairness, and why the code justifies it

- Both cores' loops and Board A's and B's loops are infinite and take every step
  in turn: weak fairness of each loop as a whole (`V3F`, `V5F`, `StepA`, `StepB`,
  `Loop`, `KbLoop`, `Foreground`), never of a chosen branch.
- An enabled, pending interrupt is taken: weak fairness of the handlers. The
  1 ms tick (TIM4) is an interrupt of its own and is what wakes V5F if the
  doorbell cannot; `EveryRecordArrives` uses it.
- UART shift register and line are hardware that runs by itself (`Shift`,
  `StopBit`, `LineQuiet`). `RecoveryEnds` and the like ask nothing of the PC but
  that it pauses.
- `IccStatus`: strong fairness of a poll at each value of the rotation. V3F polls
  many times a second while V5F advances the rotation on its own clock; nothing
  locks the two, so a field that stands again and again is eventually seen.
- `TwoBoard`: strong fairness of `StartBlob`, because the re-send is driven by a
  timer read at the top of each round, not by chance. `EventuallyRelays` holds
  under `<>[]` no slot is lost: the code has no acknowledgement and can promise
  nothing on a link that loses for ever.
- `UsbMerge`, `KbMerge`: the PC polls its interrupt endpoint (the host controller
  does), the device is configured again after a reset, and the mouse falls silent now
  and then (a timer measures that).
- `Ep0Fs`, `Ep0Hs`: the handler runs, the relay loop takes a pending SET_REPORT, and
  the PC goes on with a request it has begun or, getting no answer, resets the bus. It
  need not begin one.
- `SpiStream`, `ReturnSlot`, the parsers, `Actions`, `UsbDevice`, `HostPipes`,
  `HostControl`, `Enumeration`, `HidLayout` and `UsbCdc` claim safety only.

## 6. What is proved

Every theorem holds for all values of the constants that the `ASSUME`s of section 4
admit; what else it assumes stands in its statement. A theorem stated of `MCSpec` is about
a composition, one stated of `Spec` about the module itself.

| Module | Theorem | States |
|---|---|---|
| `IccProofs` | `TypeCorrect`, `ChannelTypes` | every variable of both channels keeps its type |
| | `DeliveryInOrder` | `delivered` is a prefix of `accepted`: no loss, repetition, tearing or exchange |
| | `RingFaithful` | the ring holds, in order, what is accepted and not yet handed to the mailbox |
| | `NeverWedged` | no step but the boot read wedges the channel |
| | `Implements` | every step of `Icc` is a step of `IccQueue` or leaves it unchanged |
| | `Undisturbed` | every status field but the state that V3F shows is one V5F really had |
| `TwoBoardProofs` | `TypeCorrect` | both boards' types; neither ring nor FIFO overflows |
| | `ReportsWhole` | no report the PC sees is pieced together from two (`ShortBursts`) |
| | `ClonesOneDevice` | the clone is the blob of one device (`DistinctLengths`) |
| | `InOrder` | reports reach the PC, and commands are applied, in order and none twice |
| `UsbMergeProofs` | `Conserved` | motion, and the wheel in the X/Y report, are conserved, and what waits keeps the merge dirty |
| | `ReleasesShown` | once the merge has nothing left to say and the endpoint is empty, no injected key or button sticks: the PC holds none beyond those of the last report the endpoint took from the keyboard, or from a mouse with the wheel in its X/Y report. Of such a mouse it holds exactly the buttons that are down, except after a dropped report, a bus reset, or a synthesized report that released some, until the mouse's next report |
| | `MergeTyped`, `BothTyped` | accumulators, reports and key sets keep to their caps |
| `HurraProofs` | `OneAnswerEach` | each catch_xy request is answered once, in order, with exactly the motion of its window |
| | `SubscriberKnows` | a subscriber to whom no line was cut short knows the mouse's buttons |
| | `DeadlinesMet` | windows, rates and reboots fall due with the first tick at or after their time, across the wrap of the clock |
| `CommandsProofs` | `OneAnswerEach` | the same of whichever parser runs |
| | `SubscribersKnow` | likewise, except that with the text parser a host that took another's place is told nothing while the buttons are those its predecessor was told last |
| | `NothingEarlyOrLate` | every deadline, of a parser or of an action, is acted on with the first look at the clock at or after it |
| | `NothingSticks` | what the other side was last told is down is held by a plain down, has its release in the table or is the click in flight, except what INIT forgot, until the next mouse record |
| | `ProgramsLand` | a motion program ends with exactly its displacement, when none is a Bezier that ends to the left |
| | `WholeMessagesObeyed` | a message that comes as it should is obeyed, whatever fragments stood before it |
| | `NumbersReadExactly` | a text is read as the number it says, or refused exactly when it says none or none that fits, for a word of any size |
| | `CommandsTyped` | tables, registers, buffers and counters of the command path keep their types |
| `UsbDeviceProofs` | `ReplayIsWhole`, `HsReplayIsWhole` | what the relay replays is one whole SET_REPORT under its own wValue (which has at least one data packet) |
| | `PacketsHandedOnce`, `HsPacketsHandedOnce` | every OUT packet that was acknowledged, a repeated one like a new one, is handed over once, or was given up by a reset or a cleared halt |
| | `TogglesAgree`, `HsTogglesAgree` | the next report carries the toggle the PC expects, whatever completes between the relay's two accesses; except, until the next report is taken, after a reset or cleared halt between them when the relay holds a DATA1, after a second configuration without a reset, and at high speed after any halt cleared over DATA1 |
| `EdgesProofs` | `ReplayAmongOthers`, `EndpointsInStep` | the same of the composition, with the same exceptions |
| | `TransfersWhole` | reports of the real device are taken at most once and in order, and at most two are lost for each answer thrown away at a connect change; of the packets counted as sent, at most one was not taken for each acknowledgement the host did not hear; a control transfer that succeeds moved exactly its bytes and took effect once, except a SET_ADDRESS whose status stage was not heard |
| | `OneDevice` | a capture that succeeds holds the descriptors of one device |
| | `PortWhole` | the parser gets every command byte and the PC every response byte once and in order, but for what resets of the PC's cost |
| | `NoSlotMissed` | the scanner returns exactly the slots whose bytes reached it in a row |
| | `DisplayCatchesUp` | three return slots without a publication, a lost word or a timeout bring the display up to date |
| | `AxesFound` | of every descriptor it follows, of any items in any order, the report parser finds each axis where the HID specification puts it |
| | `EdgesTyped` | every wire's tables, registers, buffers and counters keep to their ranges: no more repeats and resets than allowed, no transfer beyond what it asks for, no ring or window beyond its array |
| `PortsProofs` | `NoHole` | the parser never reads across a hole, and a clean line loses nothing |
| | `LeaveWhole` | admitted responses leave whole and in order, and no byte is cut by a change of rate |
| | `StagesWhole` | a descriptor read to its end is the one asked for; a published SET_REPORT is whole unless the PC repeated more than the driver can tell |
| | `PortsTyped` | rings, registers, packets and counters keep to their ranges; a descriptor is never asked for more than is left of it |

and the inductive invariants these rest on as theorems of their own (`Inductive`, `Told`,
`HoldsInductive`, `ParsersInductive`, `FramesInductive`, `CaptureInductive`, `RxInductive`, `TxInductive`,
`Ep0Inductive`). Hardly any of these safety statements is inductive alone. What carries
them:

- *Icc*, for every ring size and counter modulus of at least 2, assuming that `Torn`,
  which stands for words of different records put together, is no record.
  `InOrderExactlyOnce` says nothing of the mailbox, so a state with the wrong word in
  MSG[1] satisfies it and the next acknowledgement breaks it. `IInv` joins
  `Handshake` (at each pair of program points, which of published, seen, acknowledged
  and local seq are equal and which one apart), `RingHoldsUnpublished`, and `Custody`:
  the record on its way is in exactly one place, and the words already stored are its
  own. The counters need only `NextSeq(s) # s`, hence modulus 2. `Implements` uses
  `IInv` to show that delivery appends the head of the abstract queue. The boot race is
  part of the model: the invariant covers the wedged state too.
- *IccStatus*: the word in the register and the word V3F holds are *honest*: except for
  the state, which the first of the two stores clears, what they say of the selected
  field is or was so.
- *TwoBoard*: nothing but the number of a slot tells Board A that a fragment is missing.
  `Chain` follows the slots from the report being rebuilt through the ring to the slot
  Board B sends next: each continuing fragment that Board A would accept follows one of
  the same report. At the end of the chain either Board B's counter is ahead of the last
  arrival by exactly the run of losses, or Board B has restarted and is still within its
  blob. `ShortBursts` is what makes the two distinguishable, and neither half can be
  dropped, as TLC shows: a run of `SeqMod - 1` losses brings the counter back to the
  number of the last arrival, which Board A takes for the same slot; and a run longer
  than the blob lets a restarted Board B arrive, unnoticed, at the very number at which
  the old one stopped. In the code the modulus is 256. `DistinctLengths` is needed
  because the reassembly compares nothing but the total (two_board.c:602). Order needs
  no assumption: ring, FIFO and what was taken are sorted and below the counters.
- *UsbMerge*, motion: at every program point of the relay, the flush and the synthesized
  report, where each unit is: accumulator, local report, saved copy for a roll-back,
  endpoint (`Books`). `Settled` states, which the property speaks of, are those without a
  saved copy. Buttons and keys: `ButtonsTold` and `KeysTold` say what the PC holds down
  or is about to be told, at each of those points; that a clean merge holds nothing
  back comes from `Books`.
- *Hurra*, *Ferrum*: the open window is the last request, the motion caught so far is
  that since it opened, what the callback takes for told is what the mouse holds, and
  every deadline is as far ahead of the clock, modulo its range, as is left of it
  (`Clocked`, `Shape`, `WindowIsLatest`, `ToldIsHeld`, `DeadlinesDue`; `FerrumInv`).
- *Actions*: no key has two slots and every timed press has one release due, so that the
  table has an entry at most for each key down and is never full when a timed press
  comes (`KeysInv`, `Room`). What a motion program counts as emitted is what it injected;
  that it ends where it should is then a matter of its curve. The hypothesis of
  `ProgramsLand` is the complement of finding 4.
- *Framing*: `MessagesObeyed` speaks of the bytes the parser will get, so its invariant
  speaks of both. In the ring a piece whose message counts follows the piece before it of
  the same message, or the end of a message the parser is done with (`Follows`); at the
  head of the ring it meets a parser that has just what precedes it, nothing at all, or a
  fragment it is about to give up (`Ready`). A piece waits in the
  ring until the loop comes round, so the silence a parser measures between two pieces
  and that on the line agree only to within `LoopLag`; hence a message is owed an answer
  when it pauses for no longer than the timeout less that lag, and a fragment is sure
  to be dropped only after the timeout and the lag (`RestInv`).
- *UsbDevice*: unless a bus reset cut into a replay, the buffer is in step with the
  transfer that fills it, a pending report is whole and the handler keeps away from it,
  and the relay has read a beginning of it. On the OUT side, a pending packet lies behind
  an endpoint that does not acknowledge, and so does the gap between the relay's taking
  one and opening the endpoint again, or else both are known to be exposed. The toggle in
  the register and the PC's are equal, and so is the copy the relay is about to store,
  which it has taken from an endpoint that does not acknowledge, so that nothing completes
  meanwhile; where a reset or a cleared halt has put that apart, the next report taken
  makes them equal again, for the PC drops it or not by its toggle. The high-speed driver
  takes the same steps but for one, a cleared halt that keeps the toggle.
- *HostPipes*, *HostControl*: the toggles tell whether the host is behind the report the
  device holds; they can be wrong about it only after an answer the host threw away, at
  most two reports for each. In a data stage the host has what the device gave, or all of
  it and the last packet once more.
- *Enumeration*: at every stage of a capture, each descriptor held came from the
  device whose first answer began the attempt, and that device alone can still answer at
  the assigned address.
- *HidLayout*: after every item the parser's state is what the reference finds by looking
  back from the next one (`LayoutRead`): the globals in force, the bits of the report so
  far, the usages named since the last main item, and a range that is its own or names
  nothing. Each operator of the reference is shown to stay as it is up to a place when the
  descriptor goes on, and what the item there adds; a field of an axis, being later than
  any before, is then the one that counts. The bits are a sum over a set that recursion
  defines; that an input adds its own rests on there being one function that sums
  (`OneTotal`), which each new input hands on.
- *UsbCdc*: bytes are numbered and rise through parser, ring and endpoint buffer; the
  endpoint is shut from the arrival of a packet until the loop has taken it, which it
  does into an empty ring; a response is armed over a closed endpoint only.
- *SpiStream*: the window is the end of the stream that got through, and the scanner is
  *patient*: no slot that may still become complete began before the window does.
  Sliding to the next SOF passes over the least place a slot could begin, which exists
  because the natural numbers are well-founded. *ReturnSlot*: the first return slot may
  end with words staged earlier, the second holds one turn of the ring but for a word;
  with the third, the words fed hold a whole slot, wherever exchanges cut them.
- *ParseInt*: as long as a text is digits whose number fits the word, the accumulator
  holds that number, and afterwards it has refused them; the text grows by a character a
  step, so each fold over it goes one step further.
- *UartRx*: while nothing is lost, parser, batch and ring count up to the last byte the
  interrupt took; a loss leaves them so, and all three are thrown away before anything
  new is fed. *UartTx*: the admitted bytes are, in order, on the line, in the shift and
  data registers, in the ring and in the response being published.
- *Endpoint 0*: by the toggles, how far the PC is with a descriptor - it has all the
  driver has armed, or all but the last packet - and how many packets of a SET_REPORT the
  driver has counted and kept: as many as the PC has written, or one less or more while an
  acknowledgement is on its way or lost. The two drivers differ in what they make of
  the toggle (`FsInv`, `HsInv`).

Only model-checked: liveness (`EveryRecordArrives`, `EventuallyShown`,
`EventuallyRelays`, `RecoveryEnds`, `EverythingSent`, `ControlFinishes`,
`InjectionDelivered`, `KeysDelivered`), which is out of TLAPS's reach under fairness.
Every invariant and action property of a run is also a theorem.

## 7. What is abstracted, and what is not modelled

Within the modelled components:

- *Icc*: the telemetry words of icc.c:186-202, which only a debugger reads. The
  record kinds CLICK_RELEASE and KB_RELEASE have no sender today: the command core
  times releases itself (src/README.md:359); a record is a value.
- *TwoBoard*: the CRC is part of "a slot arrives whole or not at all", which
  `SpiStream` checks. `send_descriptor_blob` drains the inject FIFO between chunks,
  but the FIFO is empty then, as commands are taken only later in the round. The
  USB sides, and the telemetry Board A returns, are left to their modules. A blob that
  Board A refuses stops it for good (two_board.c:620-626); as no property speaks of that,
  it is left out. The bound on bursts of losses stands in the guard of `Exchange`: with the
  receive ring full and a burst at its limit the model's Board B waits, where the SPI
  master never does; what a longer burst does is the subject of `ShortBursts`.
- *SpiStream*, *ReturnSlot*: pin and clock set-up, and the DMA the master may be built with
  (`SPI_LINK_DMA`).
- *UartRx*, *UartTx*: bytes that arrive while a baud change has the USART
  disabled; diagnostic counters.
- *Framing*: a frame's checksum is perfect, so a damaged frame is a fragment. *Hurra*,
  *Ferrum*: a message that only calls `actions.c` is an input of `Actions`; the
  statistics and screen size a host may read, and the key callbacks, which have no
  caller, are left out. `HostKnowsButtons` excepts a line that a full CDC ring cut
  short, until the next one, and, in Ferrum, a host that took another's place for as long
  as the buttons are those its predecessor was told last.
- *Actions*: one axis; no swap or inversion of axes, no saturating position, no
  tables of masked keys and buttons (they store what they are told). Action 2 of
  `act_button_set` has no caller. INIT clears the held buttons without sending a
  record, which the property names (`forgotten`). A Bezier that never ends would
  replay when `millis()` wraps; the model stops at its overshoot.
- *UsbMerge*, *KbMerge*: one axis. The sub-pixel residue is zero because every delta
  that reaches the filter is whole. Release timers and physical masks, whose records
  have no sender (src/README.md:367-368 of the latter), are not modelled. Which injected keys find a free slot of a keyboard
  report is left open. On Board A `device_run` drains after forwarding, which makes
  `merged_this_cycle` ineffective there; the model follows the single-board loop. A
  physical report that finds the endpoint busy is dropped, as in the code.
- *UsbDevice*, *UsbDeviceHs*: a wire transaction and its handler are one step since the
  controller answers NAK while its interrupt flag stands. An interrupt OUT packet that the
  PC repeats counts as a packet of its own, for the handler does not look at its toggle:
  `OutHandedOnce` promises that it is handed over once more, not that the real device gets
  the PC's data once. The properties name what they except: a reset or clear-halt over the
  arming of a report with DATA1, a PC that configures again without a reset, on the
  high-speed controller a halt cleared over DATA1 - each puts the toggles apart until one
  more report is taken, which the PC may drop -, a reset while a SET_REPORT is replayed,
  and a reset or clear-halt over an OUT packet that is pending or just being taken.
- *Ep0Host*, *Ep0Fs*, *Ep0Hs*: the controller is taken to interrupt for every OUT
  packet it receives and only to report whether the toggle matched. `PublishedWhole`
  excepts a packet of a SET_REPORT that the PC had to repeat: twice at full speed, once
  at high speed. Which bytes a descriptor request finds is a lookup; GET_IDLE and
  GET_PROTOCOL with a wLength other than 1, idle and protocol values, interface
  settings and suspend are left out.
- *HostPipes*: one endpoint each way. The device and the wire are assumptions taken
  from USB: a side flips its toggle when it sees the other's packet through, and a
  packet with the wrong toggle is acknowledged and dropped. A device that leaves
  ends the polls; that is in `Enumeration`. *HostControl*: the device behaves as USB
  prescribes; `TransferWhole` excepts SET_ADDRESS, which may have taken effect without
  the host having seen it.
- *Enumeration*: a control transfer with its stages and its time budget is one step.
  A device that has just been attached answers nothing before a bus reset, as USB
  prescribes; without that a swap between two transfers at address 0 could go
  unnoticed. One HID interface and one string stand for all. A received part that is
  too short or of the wrong type counts as failed.
- *HidLayout*: an item is a tag and a value that fits the parser's variable; items that
  save and restore or delimit others (Push, Pop, Delimiter), which the parser skips, and
  usages with a page of their own are not among them. `LayoutFound` excepts what the
  parser does not follow (`Followed`): usages of a feature or output item; a range that
  stands at the end of a collection; a report ID that occurs twice; more usages than its
  table holds; and main items with several ranges or a range beside usages. A run draws
  descriptors from a dozen pieces, the theorem from any. The byte positions of the fast
  path, and the reading of a bit field, are not modelled.
- *UsbCdc*: handshakes are not lost on this port; the handler does not look at the
  toggle of an OUT packet (usb_cdc_fs.c:443), so a repeat the controller let through
  would be fed twice. The exceptions `PortIntact` names are the PC's own doing: a
  reset, a new configuration or a cleared halt over a packet in flight.

Not modelled: serialization of the blob (`desc_serialize.c`, two pure functions whose
transfer is in `TwoBoard`), gesture filter, synthetic mouse, display, LEDs, sensors,
link self-test, start-up and vendored code; `PROJECT.json` gives the reason for each.

## 8. Plan

The order put first what all reports or commands pass through.

1. *Done*: all components through which a report or a command passes, from the real
   device's wire to the PC's and from the host's byte to the action; their runs; the
   proofs of section 6.
2. *Next models*: the path of a command through both boards (FIFO, slot, Board A's drain,
   merge) as a composition of `TwoBoard` and `UsbMerge`, with an abstract
   specification of a lossy relay; the time budget of a control transfer.
3. *Next proofs*: those of the next models.
