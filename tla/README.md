# The GD32 DMX512/RDM firmware in TLA+

TLA+ modules of the firmware in this repository, TLC configurations that check
them on small instances, and TLAPS proofs of every invariant those runs check, for
every instance. Paths below are relative to the repository.

Contents: [the system](#the-system), [modules](#the-modules-and-the-code),
[runs](#the-runs), [fairness](#fairness), [findings](#findings),
[proofs](#what-is-proved), [limits](#what-is-only-model-checked-what-is-left-out),
[plan](#plan).

## The system

Bare-metal firmware for GD32 microcontrollers. There is no operating system: a
main loop calls the `Run` of each part, interrupts do the rest. Two products are
in the repository, an Enttec-compatible DMX USB Pro widget
(`gd32_dmx_usb_pro`) and an RDM responder for pixels (`gd32_rdm_responder`).

| Component | State it keeps | Operations | Called by, talks to | What is hard | What makes it correct |
|---|---|---|---|---|---|
| DMX/RDM driver, transmit side (`lib-dmx/src/gd32/dmx.cpp`) | per port: direction, `sv_port_state`, output style, DMX and RDM transmit state machines, double buffer; `has_continuos_output_` | `SetPortDirection`, `SetOutputStyle`, `SetSendData`, `Sync`, `Blackout`, `FullOn`, `RdmTransmit...`; timer and DMA interrupts | node, widget, responder; USART, timer, DMA, direction pin | the main loop polls and writes what two interrupts advance; unbounded busy waits | no packet is stuck or cut, waits end, a stopped port is silent, a started one goes on, the direction pin is right |
| DMX/RDM driver, receive side (same file) | `sv_rx_buffer`: state, slot counts, DMX buffer, RDM buffer and index; counts per second | receive interrupts (break, byte, idle line); `GetDmxAvailable`, `RdmReceive`, `RdmReceiveTimeOut` | responder, widget, receiver, sniffer | buffers handed out in place while the interrupt may write them; messages cut short | every message handed out is one that was on the wire, once; the receiver finds back to the line |
| DMX node output (`lib-dmx/include/dmxsend.h`) | `started_`, data in `dmxnode::Data` | `Start`, `Stop`, `SetData`, `Sync`, `SetOutputStyle`, `Blackout`, `FullOn` | the network side of a node; the driver | calls in any order on ports in any state | as for the driver, port by port |
| DMX receiver (`dmxreceiver.h`) | active flag, output, disabled flag | `Run`, `SetOutput`, `SetDisableOutput` | driver; pixel output, config output | loss of signal, change of the output | data is current or the output stops; the right output is started |
| USB Pro widget (`lib-widget/src/widget.cpp`) | `send_rdm_packet_start_millis_`, `is_rdm_discovery_running_`, `send_state_`, `mode_` | one handler per message label; `ReceivedDmxPacket`, `ReceivedRdmPacket`, `RdmTimeout`, in turn in `Run` | host over USB; driver | half-duplex line shared by periodic output and RDM transactions | the line is turned round for each packet; transactions end |
| RDM sniffer (`widgetsniffer.cpp`) | statistics | `SnifferDmx`, `SnifferRdm` | driver, host | as the receive side | |
| Software timers (`lib-superloop/src/softwaretimers.cpp`) | pool of slots, count, cursor, next handle | `SoftwareTimerAdd`, `Delete`, `Change`, `Run` | every part that waits; callbacks | callbacks that call the other functions; the wrap of the clock; the swap of a deletion | each timer has its own countdown, none starves |
| Configuration store (`lib-configstore/include/configstore.h`) | store in RAM, state machine, timer handle | `Update...`, `Commit`, boot; `board::Reboot` | every part with settings; software timers, flash driver | changes during a commit, crashes during a commit | an idle store is in flash, nothing is lost by a restart, a change is committed |
| Flash driver (`lib-flashcode/src/gd32`) | state, address, length left | `Erase`, `Write`, a step each | store | two callers' operations interleaved | a word is programmed once after each erase |
| RDM responder (`lib-rdm/include/rdmresponder.h`) | factory-defaults flag | `Run`: receiver, then one RDM request | driver, handler | a request is handled in the receive buffer itself | each request is handled once, unchanged |
| RDM handler (`lib-rdm/src/handlers`) | identify, mute, lock | one handler per PID; discovery | root device, sub-devices, identify, self-test, store | settings kept in several places, sub-device fan-out | what is reported is what is in use |
| RDM devices, sub-devices, identify, personalities (`lib-rdm`, `lib-rdmsubdevice`, `gd32_rdm_responder/lib`) | address, footprint, personality, label, checksum of the defaults; identify mode; test pattern | setters and getters of each, `SetFactoryDefaults`, boot | handler, store, pixels, receiver | identify and self-test share the pixels with DMX; the defaults are recognised by a sum | a reset reaches the defaults; one source for the pixels |
| Pixels (`lib-pixel`) | start address, footprint, test pattern, started | `Start`, `Stop`, `SetData`, programming by DMX in the config mode | receiver, devices | | as for the devices |
| RDM queued messages, table of devices, sensors | message queue, table | | no product defines or calls them | | |
| Node data, display, clock, USB bytes, board | hardware set-up and data | | | | |

How they interact. Everything but the interrupts runs in the main loop, one call
at a time; `Widget::Run` and the node's handlers call the driver, which returns
only when it has brought the port to the state asked for. The interrupts and the
driver share tables marked `sv_` or `s_`. `ConfigStore` is driven by a software
timer whose callback, `ConfigStore::Timer`, deletes that timer itself. The
watchdog is fed once a round of the main loop: a call that does not return
resets the device.

PROJECT.json lists the hazards of this code, each at its line and with the
properties that cover it.

## The modules and the code

**`DmxTransmit`** is the transmit side of the driver. `port[p]` is the record of
everything a port's tables and hardware hold; `continuous` is
`has_continuos_output_`. The program counter of the main loop is `todo`, a
sequence of *steps*: a call pushes its steps, and a step that stands for a
function that calls others replaces itself by theirs. A step boundary is where an
interrupt can make a difference; between two steps any number of interrupts may
run. The three parties are

- the main loop, `MainStep(p)`: one action per step (`SetPortDirectionStep`,
  `DataDisableStep`, `WaitIdleStep`, `WaitTcStep`, `ForceIdleStep`,
  `DataEnableStep`, ...). `DataDisable` is split at each of its reads and
  writes of what the interrupts change; the new direction is stored before
  `DataDisable`, as `SetPortDirection` does it;
- `TimerIrq(p)`, the compare event: the DMX state machine first, the RDM one if
  that is idle, as in `TIMER1_IRQHandler`;
- `DmaIrq(p)` and `Shifted(p)`, the end of a transfer and, two slots later, of
  the packet (`USART_FLAG_TC`). The interrupts of a USART, timer and DMA channel
  have one priority and do not nest: a handler is one action.

Time is abstracted to order. The one place where the order depends on the
configured time is the inter-packet time of a continuous output, which may be shorter
than the two slots (88 us) still in the shift register at the end of a transfer. With
`LongInter = FALSE` its compare event may come before they are out; with `TRUE` it
does not, which is so if the transmit period exceeds the packet's time by more than 88 us,
as with 40 Hz, the widget's default. It is not so with a full universe and
`SetTransmitPeriodTime(0)`, the default of the driver, which leaves 44 us
(dmx.cpp:2406, 2883). A break, at least 92 us, and the direction time, 94 us, are longer
than the two slots whatever is set. Of the data the module has the buffer indices (`read`, `write`), and
`SetSendDataInternal` as three steps, `SetSendDataStep` (the test of the indices),
`SwitchBufferStep` (the toggle) and `CopyDataStep` (the copy), between which
packets may start; `ClearDataStep` is the level of `Blackout` and `FullOn`.

**`DmxTxPacket`** extends `DmxTransmit` by what is in the buffers: `data`, and in
`given` and `written` the universe that `SetTransmitData` is copying and how far
it is. It copies slot by slot, so that an interrupt may start the packet in the
middle. `Capped`, `LastCopied` and `PacketLength` are the lengths the code
computes, start code included or not. `latest` and `wire` are history: what the
program asked for last, and what that was when the packet under way was started.
A packet is `clean` if it was started outside `SetTransmitData` and no `Blackout`
has written to its buffer since. `Blackout` and `FullOn` choose the level port
by port, more than the code does. Every step is one of `DmxTransmit`'s or leaves
its variables alone: the theorem `ImplementsDriver`.

**`DmxReceive`** is the receive side of one port with its clients, `DMXReceiver::Run`
and the call of `RdmReceive` in `RDMResponder::Run`. The parties are

- the line: a message is started, sent byte by byte, followed by an idle line or
  (`BackToBack`, after a full packet) by the next break at once; it may be cut
  short or paused (`Faults` times). A reply to another responder, or to a discovery,
  comes without a break;
- the receive interrupt, `BreakIrq`, `ByteIrq`, `IdleIrq`: each action of the line
  contains the interrupt it raises, if the port listens (`Hear`);
- the main loop, `MainStep`: `GetDmxAvailable` (test, then write back: `reader.hit`
  lets one interrupt in between, there is no time for two), `TakePacket`,
  `ReadLength`, `CopyPacket`, then `RdmReceive`, `ClearIndex`, `CheckMessage`,
  `HandleMessage`; `DataDisable` and `DataEnable` while a call turns the port;
- the one-second timer, `Second`.

A byte is the message and the position it comes from; a byte found where it does
not belong may be taken for anything (`StartCodes`, `MessageLengths`). What an
older message has left behind in a buffer is replaced by `Zero` when the next
one starts (`First`): it is behind the length, which the code does not read.
`Contents = FALSE` leaves the bytes out altogether. `Prompt` says that the main
loop has taken what is in the buffers before the first byte of the next message
comes, which is what the firmware relies on: a break and its mark take about 100 us.
**`RdmInbox`** is what `Rdm::Receive` promises its caller: the last message, once,
unchanged while it is in use. `ImplementsInbox` is the refinement.

**`RdmResponder`** is the responder above the driver, as `gd32_rdm_responder` builds
it: root device, sub-devices, personality 1 (pixels) and 2 (config mode). The whole
of it runs in the main loop, so an action is a request
(`SetDeviceLabel`, `SetPersonality`, `SetDmxStartAddress`, `SetFactoryDefaults`,
`GetFactoryDefaults`, `SetIdentifyDevice`, `SetIdentifyMode`, `SetPerformSelfTest`,
`SetResetDevice`, a SET to all sub-devices `AllCall`), an outcome of
`DMXReceiver::Run` (`ReceiveData`, `ReceiveProgram`, `SignalLost`) or a `Restart`.
`GetFactoryDefaults` is there because it writes: a sub-device's flag, and it
is asked only until one has answered no. Requests that a handler refuses or that
only read are not actions.

**`DmxSend`** is the node: one action per method, `DmxTransmit`'s steps as the
calls they make. `Received(p)` is `dmxnode::Data` taking a universe from the
network side, which is not in the repository. `MCDmxSend` has no extra calls.

**`Widget`** is the USB Pro widget on port 0: one action per group of labels
that do the same to the port (`ParamsSnNameRequest`: labels 4, 10, 77, 78; label 3
touches nothing modelled), one per part of `Run`. `timing` abstracts `send_rdm_packet_start_millis_` to
whether it is 0; `SecondOver` is the second that has passed. `answer` is what
`Rdm::Receive` would return. Three constants say how the host and the responders
behave, because the widget relies on it: `Patient` (the host waits for the answer
or the time-out before it sends anything but DMX), `Switches` (it sends RDM
requests while DMX is being output) and `LateAnswers` (responders answer late or
without being asked).

**`SoftwareTimers`** has the pool as a sequence and the cursor as in the code;
one action per function, the callback inside `RunExpired`. A callback may do
nothing, add a timer, or change or delete any timer, its own included; one such call
each, as the callbacks of the repository do. Handles are numbered up to `MaxId`, the
clock counts modulo `Wrap`. **`TimerService`** is what it promises: every timer
has a countdown of its own, which a callback may restart (`ExpiredRestarting`), and there
are no more than the pool holds (`Capacity`). `OwnCountdown` is the refinement. With `Disturbed`, a callback
that deletes a timer may cost one other timer its countdown and nothing else may:
`CountdownKept` is the refinement of that, which is what the code does.

**`FlashCode`** is the flash driver, one action per case of `Erase` and of
`Write` and the flash controller's completion. A word that is programmed twice, or
whose programming is interrupted, is `"torn"`. `H7` selects the GD32H7xx variant,
whose `switch` lacks the cases that abandon the other operation.
**`ConfigStore`** is the store on top of it: `Update` by the program, `Timer` (one
`Commit`), `board::Reboot` with its loop over `ConfigstoreCommit`, `Crash` at any
moment with every flash content it may leave.

**`DmxTransmitProof`**, **`DmxTxPacketProof`**, **`DmxSendProof`**, **`WidgetProof`**,
**`DmxReceiveProof`**, **`RdmResponderProof`**, **`ConfigStoreProof`** and
**`SoftwareTimersProof`** hold the theorems; **`MC...`** modules the values of
constants that a `.cfg` cannot write.

Definitions whose comment begins with *Mutant* are erroneous variants of the
definition that follows them: with one of them in its place, TLC finds a
property violated. They show that each property depends on the code it is about.

## The runs

| Run | Question | Instance, and why it is enough |
|---|---|---|
| `driver_any_calls` | With calls in any order whatever: is a packet ever left half-way, can a wait for `USART_FLAG_TC` hang, is `has_continuos_output_` ever wrong? | Every call on port 0, any time; port 1 restyled, which restarts port 0. Ports share only `has_continuos_output_` and the main loop, so a third adds nothing; the theorems hold for every number. 801,204 states, short inter-packet times included (`LongInter = FALSE`, here and in every other run but `node_continuous`) |
| `tx_packet` | Is a packet ever torn by what is written during it, does an old universe show up again, is the newest one always sent in the end? | One port (the buffers are per port), two slots, a universe shorter and one longer than `transmit_slots_`, each of a value of its own, so that a mixed packet shows. 505,908 states |
| `tx_packet_start_code` | *violated*: every slot of a universe with its start code is sent | As `tx_packet`, with full universes |
| `node_triggered` | Two triggered outputs: are packets cut, is a stopped port silent, does every triggered packet go out, is `DataEnable`'s assertion right as long as no output is blacked out while stopped? | Two ports, so that `Sync` and `Blackout` go over ports in different states. 293,932 states |
| `node_continuous` | One continuous output: is it cut, does it go on and pick up new data? | One port; with two, restarting one cuts the packet of the other (see below). `LongInter = TRUE`: with a shorter time the packet is cut (see below). 3,902 states |
| `receive_prompt` | With a main loop that keeps up: are packets and RDM messages handed out whole and once, does the receiver find back after a message cut short, a pause, a reply without a break, a change of direction? | Two DMX slots (a short packet and a full one), an RDM message, another start code, a reply; one fault, which may come at any byte |
| `receive_any_time` | With a main loop of any speed: does the interrupt stay inside its buffers, is a count ever below zero, does the output stop when the packets do? | As above without the contents, with the one-second timer |
| `responder` | Under any order of requests, packets, loss of signal, resets and restarts: one source for the pixels, identify shown at once and until it ends or a self-test is set, the reported address that of the output, the label stored, the defaults reached? | One sub-device, a universe of two slots, footprints 1 and 2 (the second leaves no room behind address 1), two labels with different sums. 340,480 states |
| `widget` | Is the direction pin right for each packet, does output stop and start again as the protocol says, do transactions and calls end? | The port the widget has; patient host, answers within the second. 9,687 states |
| `timers` | Additions, changes and deletions, in callbacks too: is the cursor on an active slot, is no timer starved, does a timer keep its countdown until a callback deletes one? | Three slots, four handles, clock modulo 6: the pool fills, the last slot moves to a slot before, at and behind the cursor, the clock wraps. 133,596 states |
| `timers_delete_in_callback` | *violated*: independent countdowns when callbacks delete | Two slots are enough |
| `config_store` | With changes and crashes at any step: is an idle store saved, is no word programmed twice, does a reboot lose nothing, is a change committed? | Two pages, three words, three values: the area is larger than the store, the second page is written in part, a value may change and change back |

Every bound is a constant: `N`, `Calls` (`DmxTransmit`), `Channels`,
`TransmitSlots`, `Universes` (`DmxTxPacket`), `Messages`, `Faults`, `RdmSize`
(`DmxReceive`), `UniverseSize`, `Footprints`, `SubCount` (`RdmResponder`), `MaxId`,
`Max`, `Wrap` (`SoftwareTimers`), `Size`, `Words`, `Pages`, `Value` (`FlashCode`).
Two of them cut the behaviour of the code: `MaxId` (no timer is added any more; four
handles are enough to fill the pool and reuse each slot) and `Faults` (one fault, at
any byte of any message; what several in a row do is left to the theorems, which
need at most one of them only where it matters). `RdmSize = 6` and `RdmMin = 3`
keep the two facts that matter of 257 and 24: the longest length, a byte, leaves
room for the checksum, and the shortest is longer than the header that is read.

The properties, in the words of the code, are stated in a comment at each
definition. The ones that matter most:

- `NoLostWakeup`: a transmit state machine that is not idle has a compare event
  or a DMA transfer ahead of it.
- `BusyWaitEnds`: whoever waits for `USART_FLAG_TC` finds it set, or a packet is
  on the wire, or one is about to be ("Do we need a timeout just to be safe?",
  asks the code: not for these).
- `FrameNotCut`, `LineReleased`, `StoppedIsQuiet`, `TriggeredFrameSent`,
  `ContinuousOutput`: what a DMX receiver sees.
- `PacketWhole`, `LatestGoesOut`: a packet started outside `SetTransmitData` is one
  universe, the newest; what is asked for last is sent in the end.
- `PacketIntact`, `RequestIntact`, `ImplementsInbox`: what the responder is handed
  is what was on the line, once. `DmxRecovers`, `RdmRecovers`: whatever
  went wrong before, whoever goes on hearing whole messages goes on handing
  them out. `IndexInRoom`, `SignalLoss`: without any assumption on the main loop.
- `OnePixelSource`, `AddressAgrees`, `OutputFollows`, `LabelStored`, `FactoryReset`:
  the settings that are kept in more than one place agree, whatever the order of
  requests. `IdentifyShown`: the pixels fade from the request that makes the device
  identify itself, nothing but a self-test takes them away meanwhile, and what ran
  before comes back.
- `RdmOnTheWire`, `RdmThenListens`, `PinAgrees`, `OutputStops`, `PeriodicOutput`,
  `TransactionEnds`: the half-duplex discipline of the widget.
- `CountdownKept`, `CursorOnActive`, `Served`: the timers.
- `Saved`, `ErasedFirst`, `RestartKeeps`, `Settles`: the store.

## Fairness

The main loop runs whenever no interrupt does, and the timer, the DMA and the
USART go on whatever the program does: weak fairness of `MainStep`, `TimerIrq`,
`DmaIrq` and `Shifted`, port by port. A polling loop (`PollStep`) reads every few
instructions something that holds for tens of microseconds, the gap between two
packets or the flag between two transfers: it cannot miss it for ever, hence strong
fairness. The loop in `DataDisable` needs it: a continuous output passes through
the states it polls for again and again. The main loop itself calls `Run`
again and again: weak fairness of the parts of `Widget::Run`, of
`SoftwareTimerRun`, of the store's `Timer` (which rests on `Served`), and of the
flash controller, whose operations end. `TxFairness` is that of the driver's parties
over the steps with data; the receive side has weak fairness of the main loop's
step and of the one-second timer, none of the line: `DmxRecovers` and `RdmRecovers`
say in their premise that messages go on coming. Nothing is assumed of the host or of the
network: no request is ever bound to come. That a second passes
(`SecondOver`) is strong fairness because an answer that comes at the same time
takes precedence.

## Findings

Two disagreements between the code and what it says of itself, each shown by a
violated run and described with the lines in PROJECT.json:

- a callback that deletes a timer spoils the countdown of another
  (`timers_delete_in_callback`);
- of a full universe that comes with its start code, as the widget's host sends it,
  the last slot is not copied but is sent (`tx_packet_start_code`).

Observations. The first six are contradicted by a line of the repository too and
are found by TLC with the constants given; no run is kept for them:

- A blackout while an output is stopped reaches `DataEnable`'s assertion
  (dmx.cpp:1537): `DataEnableAssert` of `DmxSend` with `BlackoutStopped = TRUE`.
- An RDM request during periodic output is never sent: `DataDisable` returns early
  (dmx.cpp:1570), the DMX state machine goes on and takes its turn: in `Widget` with
  `Switches = TRUE`, an accepted request is not followed by an RDM packet
  (`RdmRequestSent`, widget.cpp:300).
- `is_rdm_discovery_running_` stays set after an answer that is not a unique-branch
  one, and received DMX is then not forwarded (widget.cpp:217): `DmxForwarded` of
  `Widget`.
- `Erase` in the middle of a write reaches an assertion on the H7
  (h7xx/flashcode.cpp:140): `EraseAssert` of `ConfigStore` with `H7 = TRUE`.
- With two input buffers, `BreakIrq` swaps them and goes on with the old one
  (dmx.cpp:325): `WritesActiveOnly` of `DmxReceive` with `DoubleInput = TRUE`.
  `PacketIntact`, `RequestIntact` and `IndexInRoom` do not hold then either. Two
  build variants of the responder set `CONFIG_DMX_DOUBLE_INPUT_BUFFER`
  (`gd32_rdm_responder/Makefile-double_input.GD32`,
  `Makefile-personality-double_input.GD32`); the default ones do not.
- A SET of the label, personality or address to all sub-devices (0xFFFF) passes the
  range check (rdmhandler.cpp:432) and reaches handlers that assert
  `sub_device <= count_` (rdmsubdevices.h:184): `SubDeviceAssert` of `RdmResponder`.

Others, about which the code says nothing that could be checked:

- `Blackout` and `FullOn` write `data[0]` whichever buffer is sent next
  (dmx.cpp:1606), so the level may not be sent, and on a continuous output that was
  restarted `data[0]` may be on the wire meanwhile. `PacketWhole` makes no claim
  about such packets.
- `SetTransmitPeriodTime` (dmx.cpp:2375) computes the inter-packet time from the
  length of `data[0]` only, may leave 0 of it, and stores up to a second in a
  16-bit timer's period.
- A packet that ends neither by its length nor by an idle line before the next break
  runs into the next one (dmx.cpp:328); the line of `DmxReceive` sends an idle line
  behind such packets. Two packets of no slots at all in a row, within one
  `GetDmxAvailable`, could bring its count below zero (dmx.cpp:2129).
- `SET DMX_START_ADDRESS` and `SET FACTORY_DEFAULTS` are acknowledged although the
  output may refuse the address; the test at pixeldmx.h:297 also refuses the address
  at which the footprint would just fit.
- `SET FACTORY_DEFAULTS` skips a sub-device that was changed but not asked since
  (rdmsubdevice.h:145). After a restart the root device compares with the settings
  it booted with, its label among them, and the defaults are recognised by a sum,
  so that settings with the same sum count as defaults.
- `SET PERSONALITY` and `SET SELF_TEST` acknowledge broadcasts, refusals answer
  broadcasts, and `SET DISPLAY_INVERT` with the value 2 refuses and acknowledges.
- A self-test that is set while the device identifies itself shows its own pattern, or
  DMX, while identify stays on (rdm_selftest.cpp:43), and identify that is switched on
  again does not bring the fade pattern back (`s_is_on` is still set); when identify ends,
  the pattern from before it comes back and the self-test is lost. `IdentifyVisible` of
  `RdmResponder`, that the pixels show identify all the time, does not hold.
- A start in the config mode leaves the DMX output enabled while a stored test
  pattern runs: `OnePixelSource` excludes it.
- `FrameNotCut` does not hold with two continuous outputs or when the style
  is changed at run time: the restart in `SetOutputStyle` finds `sv_port_state`
  idle while the DMX state machine is running. For the same reason
  `StoppedIsQuiet` holds for triggered outputs only.
- With the inter-packet time of 44 us that a full universe and no refresh rate leave
  (dmx.cpp:2406, 2883), a continuous output cuts its own packets: the DMA interrupt sets
  the compare event to 44 us later with two slots, 88 us, left to send (1140-1146), and
  the event drives the TX pin low (548-553). `FrameNotCut` does not hold in
  `node_continuous` with `LongInter = FALSE`; `ContinuousOutput` does. The widget with a
  refresh rate of 0, which its parameters do not exclude, does the same.
- In the handlers of all ports but the first, a compare event that finds both state
  machines idle is `assert(false)`; with `NDEBUG`, and in the models, it does nothing. `DataDisable`
  forces a continuous output idle between two packets and leaves such an event behind.
- With a short inter-packet time the compare event can also come between `USART_FLAG_TC`
  and the forced idle state of `DataDisable` (dmx.cpp:1579), and the line stays low.
  A node gets there with an output that became continuous while it was started
  (`Restyle`), for which `LineReleased` does not hold anyway; for triggered outputs
  it is a theorem whatever the inter-packet time is.
- With a host that is not patient, or answers that come after the time-out, most of
  `widget`'s properties fail; the calls still return (`BusyWaitEnds` holds
  for any calls). Change of the port from input to output never disables the
  receive interrupts.
- `Widget::ReceiveDmxOnChange` calls `ClearData`, which clears the transmit buffer,
  not the received data that its comment speaks of.
- The comment of `SoftwareTimerChange` calls a period of 0 a one-shot; such a timer
  is due again in every round, and `ConfigStore` relies on that.
- `ConfigStore::IsValid` looks at the first words only, so a store that a crash
  left torn further on is accepted at the next boot. `ConfigStore::Reset`, which
  would make later updates be lost, has no caller.

## What is proved

Every invariant that a passing run checks is a theorem, and so are the three action
properties of the store and the responder and the refinements `CountdownKept` and
`ImplementsInbox`. All theorems are proved for every value of the constants that
satisfies the named assumptions, which say no more than the types of the constants
(`ParametersAssumption`: some ports, calls made of the driver's steps;
`TimersAssumption`: intervals of less than half the clock's range;
`FlashAssumption`, `StoreAssumption`: the store fits the area, every word is in a
page, the magic number is not zero). Some theorems need more, as an `ASSUME` of
their own, because without it the property is false; TLC shows the
counterexamples:

| Hypothesis | Of | Says | Without it |
|---|---|---|---|
| `Triggered` | `DmxSendProof` | every style is `kDelta`; no `Blackout` while an output is stopped | continuous outputs cut each other's packets and go on after `Stop`; `DataEnable`'s assertion fails |
| `Lone` | `SingleFrameNotCut` | one output, of any styles, not restyled after its first start, with an inter-packet time longer than two slots (`LongInter`) | the same; a continuous output with a shorter time cuts its own packets |
| `Orderly` | `WidgetProof` | a patient host, no RDM request while DMX is output, answers in time | an RDM packet is on a line that was turned round |
| `PromptReader` | `DmxReceiveProof` | one buffer, with its contents; the main loop has taken a message before the first byte of the next | a buffer is handed out while the next message is written into it |
| `SingleBuffer`, `Faults <= 1` or `LongPackets` | `IndexStaysInRoom...` | one buffer; at most one message cut short, or none of them right behind its first byte | the start code is subtracted from a packet of no slots |

(`WidgetOutputStops` would hold with late answers too, says TLC; `WidgetInv`, which it is
proved from, does not.) `DoubleInput` is false in the default builds, and outputs are
triggered unless a node is told otherwise; the other hypotheses are about the host,
the line and the main loop, and are what the firmware relies on.

`DmxTransmitProof`, for any number of ports and any set of calls:
`TypeCorrect`, `WakeupSafe` (`NoLostWakeup`), `WaitsEnd` (`BusyWaitEnds`) and
`ContinuousFlagAgrees`. The invariant is
`IInv == TypeOK /\ NoLostWakeup /\ DmaShifts /\ TcComes`. `BusyWaitEnds` is not
inductive: that a wait can end at `StartDmxOutput` depends on why the flag is
missing. `TcComes` says why: the USART is sending, or `DataDisable` has cleared
the flag in the gap before a packet and is waiting for it at this very moment; in
that case `NoLostWakeup` provides the compare event. `DmaShifts`, that a transfer
keeps the USART busy, carries `TcComes` over the end of a transfer. One lemma per
party (`MainInv`, `IrqInv`, `CallInv`), one step per action in each.
`ContinuousFlag` is inductive given `TypeOK`: only `SetOutputStyleStep` touches
either side of it.

`DmxTxPacketProof`, for any number of ports and slots, any universes and any calls
that start outside `SetTransmitData` (`TxAssumption`): `ImplementsDriver`, that
`DmxTxPacket` implements `DmxTransmit` (each step is one of the driver's or a
stutter, lemma `StepSimulation`), so that everything above holds with data too;
`TxTypeCorrect`, and `PacketIsWhole` (`PacketWhole`). The invariant is
`Inner == TxTypeOK /\ TodoOuter /\ AtRest /\ PortInv`: the two inner steps of
`SetTransmitData` are at the head of `todo` only, nothing is written between calls,
and, port by port, `Fresh` (when does the buffer that is read next hold
the newest universe), `Written` (the part of `given` that is in the buffer written)
and `Sending` (the packet on the wire holds what it was started with). That a
packet on the wire is never written to rests on `SetSendDataStep`: it toggles the
write index only if the two agree, and the interrupt flips the read index only if
they do not, before it starts a packet.

`DmxSendProof`, for any number of ports: `NodeTypeCorrect` (any styles); with
`Triggered`, `NodeFrameNotCut`, `NodeLineReleased`, `NodeStoppedIsQuiet` and
`NodeDataEnableAssert`; with `Lone`, `SingleFrameNotCut`. The steps of the node are
the driver's, so that `IInv` carries over (lemma `CallTypes`). The invariant `NodeInv`
says of `todo` what shape it has (`Programmed`: at most three steps of one function
at its head, calls that wait behind; `Enabling`: what ends in `DataEnable` began with a
disabled port of `started`), of each call that waits that it will still be right
when its turn comes (`Calling`: no two starts of one port, no start of a port that is
not idle), and of each port that what it does agrees with the step the
main loop is at (`Doing`, `Sending`, `Stopped`). `FrameNotCut` is in `Sending`: slots
on the wire mean that the flag is clear and the pin is the USART's, so that
`StartDmxOutput`, which waits for the flag, cannot drive its break into them. For one
output of any style `todo` is described by its steps instead of its shape (`LoneInv`):
a step that starts a packet by hand is the first, or waits behind one that
disables the port (`Ready`, `Queued`), since there is no other port to wait for.

`WidgetProof`, for any sequence of requests: `WidgetTypeCorrect` (any host), and with
`Orderly`, `WidgetRdmOnTheWire`, `WidgetPinAgrees` and `WidgetOutputStops`. The argument
is that everything the port is in follows from the request that is carried out
(`output`, `timing`) and from the step of it the main loop is at. `Requested` says which
steps belong to a request and that only one of it turns the port; `Turned` ties the
direction, its pin and the receive interrupts to the step; `OnWire` says that the
packet on the wire is of the transaction, and that the DMX state machine is idle, or
`DataDisable` still on its way to make it so, once there is one; `Answering` that an answer
passed on is that of the transaction.

`DmxReceiveProof`, in two parts. With `PromptReader`, for any sizes, messages and
any number of faults: `PromptTypeCorrect`, `PacketStaysIntact` (`PacketIntact`),
`RequestStaysIntact` (`RequestIntact`) and `InboxImplemented` (`ImplementsInbox`). The
invariant follows a packet from the line (`Collecting`: the buffer holds the first
bytes of the message on the line, or the message is over and was cut short) to
the complete buffer (`Complete`) and through the main loop (`Taken`); and an RDM
message likewise (`Receiving`, `Discovering`, `Received`). A message that is
interrupted and continued by another is dealt with by `Stray`: once a byte
does not belong, no later byte makes the checksum right. For a main loop of any
speed, `IndexStaysInRoom` and `IndexStaysInRoomLong` (`IndexInRoom`): `RoomInv` keeps
of the contents only what the lengths depend on. Between the test of
`GetDmxAvailable` and its write back the interrupt may complete another packet; a
length below 1 then needs two packets in a row that end with their start code, the
first of which leaves a length of 1 and the second of which loses its own to the
write back. `Slack` counts the fault that is used up by the first; `LongPackets`
excludes both. That two such faults do it is found by TLC with `Faults = 2`.

`RdmResponderProof`, for any universe size, footprints, labels, patterns and
sub-devices (`ResponderAssumption`): `ResponderTypeCorrect`, `DisabledWithPattern`
(`OnePixelSource`), `AddressOfPersonality` (`AddressAgrees`),
`OutputStartedWithReceiver` (`OutputFollows`), `StoreHasLabel` (`LabelStored`) and the
action properties `ResetRestoresDefaults` (`FactoryReset`) and `IdentifyOnPixelsShown`
(`IdentifyShown`). The invariants and the types are inductive together (`Invariants`), not
one by one: what identify does depends on who has the pixels, the output that a packet
starts on the personality. `IdentifyFlag`, that the firmware's flag `s_is_on` is set
exactly while the device identifies itself, is why what it has saved is what ran
before; `EveryStepPixels` has one step per request for what becomes of the pixels. There is one lemma per request (`LabelStep`,
`PersonalityStep`, `AddressStep`, ...), and `BootStep` for what a power-up restores.

`ConfigStoreProof`, for any size of the store and any layout of pages:
`TypeCorrect`, `FlashHoldsStore` (`Saved`), `ProgramErasedOnly` (`ErasedFirst`),
`WritesAfterErase` (`WriteAfterErase`: a write never finds the driver in the middle of
an erase) and the action property `NothingLost` (`RestartKeeps`). `Saved`
says something about the end of a commit only; the invariant says what holds
in each phase of one: `ErasedSoFar` (the pages done are blank, or the last of them
is being erased), `BlankBetween` (the whole area is blank between erase and write),
`WrittenSoFar` (the words done hold the store, or the last of them is being
programmed; the rest is blank, or the state has left `kWriting`), `Quiet` (nothing
but an erase erases). A change of the store leaves `kWriting` at once, which is
why `WrittenSoFar` may speak of the store of now.

`SoftwareTimersProof`, for any pool, clock and callbacks: `TypeCorrect` (the pool
never exceeds its slots) and `CursorSafe` (`CursorOnActive`). That a handle names one
timer rests on the handles being older than `nextId`, hence `Pool(s, n)`, which the
functions preserve one by one (`AddedPool`, `DeletedPool`, `ChangedPool`,
`RescheduledPool`), inside a callback too; `AfterCallbackInv` says that `SoftwareTimerRun` restores the
cursor from whatever a callback leaves. That the cursor is safe does not make the
reschedule right: it may be on another timer than the one called, which is what
`timers_delete_in_callback` shows. `CountdownImplemented` is the refinement
`CountdownKept`: the countdowns are read off the pool by handle, so that a deletion
that moves the last slot, and a cursor that wraps, are steps of `TimerService`
that leave the other timers alone; only a callback that deletes may disturb one.

## What is only model-checked, what is left out

Only model-checked: every liveness property (`TriggeredFrameSent`, `ContinuousOutput`,
`LatestGoesOut`, `CallsReturn`, `RdmThenListens`, `PeriodicOutput`, `TransactionEnds`,
`DmxRecovers`, `RdmRecovers`, `SignalLoss`, `Served`, `Settles`), since it rests on
fairness, which the prover cannot reason about; and the two violations, which need a
counterexample and not a proof. The theorems with a hypothesis of the table above say
nothing of what lies outside it: a node with several continuous outputs, a host that is
not patient.

Left out, and why:

- time: microseconds, the 16-bit wrap of the timer counter, the arithmetic of the
  transmit period (the models have order, not time);
- `RdmReceiveTimeOut` (a loop around `RdmReceive` up to a time), `GetDmxChanged`,
  the statistics and the sniffer that prints them;
- discovery and mute, and the requests that only read: what an answer contains is
  formatting of the state the model has;
- queued messages and the table of devices: no product defines
  `ENABLE_RDM_QUEUED_MSG` or calls the table; sensors and their drivers;
- the widget's modes other than DMX/RDM and RDM, and the assembly of a message from
  bytes; the wrap of the timers' 31-bit handles; the merging of sources in the node's
  data; the mapping of slots to pixels; display, clock, LEDs, board, USB.

By far the most lines of the repository are the vendor's peripheral library, CMSIS,
a C library, register set-up for several microcontroller families and drivers of
displays and sensors: straight-line hardware access, with no state of its own that
could be checked. The models cover the parts that decide something. The complete list
is in PROJECT.json.

## Plan

Done, in this order: `DmxTransmit` (the core: everything else calls it),
`DmxTransmitProof`, `DmxSend`, `Widget`, `TimerService` and `SoftwareTimers`,
`FlashCode` and `ConfigStore`, `ConfigStoreProof`, `SoftwareTimersProof`,
`DmxReceive` and `RdmInbox`, `DmxTxPacket`, `RdmResponder`, `RdmResponderProof`,
`DmxTxPacketProof`, `DmxReceiveProof`, `DmxSendProof`, `WidgetProof`, the refinement of
`TimerService`.

Next:

1. `DmxSendProof`: `StoppedIsQuiet` and `DataEnableAssert` in the form in which they hold
   with continuous outputs, of the triggered outputs among them.
2. `WidgetProof`: `WidgetOutputStops` without the assumption on late answers, which it
   does not need.
3. `DmxReceiveProof`: `IndexInRoom` for two faults that are not in a row.
4. Discovery and mute in `RdmResponder`, on the driver's two sides: an answer only
   when asked, direction restored.
5. The arithmetic of the transmit period (`SetTransmitPeriodTime`) against its
   definition over bounded inputs.
