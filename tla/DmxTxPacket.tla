----------------------------- MODULE DmxTxPacket -----------------------------
(***************************************************************************)
(* The contents of the transmit double buffer, s_DmxTxBuffer[].dmx of      *)
(* lib-dmx/src/gd32/dmx.cpp, on top of the driver's steps in DmxTransmit:  *)
(* the main loop writes a universe into data[write_index] slot by slot     *)
(* while the timer interrupt may flip read_index and start the DMA from    *)
(* there.                                                                  *)
(*                                                                         *)
(* `latest' and `wire' are history: what the program has asked for last,   *)
(* and what it had asked for when the packet under way was started.        *)
(***************************************************************************)
EXTENDS DmxTransmit

CONSTANTS
  Channels,       \* dmx::kChannelsMax
  TransmitSlots,  \* transmit_slots_, set by SetTransmitSlots at start-up
  Values,         \* the values of a slot, 0 (off) and 255 (full) among them
  Universes       \* what the program may pass to SetTransmitData

Index  == 0 .. Channels              \* slot 0 holds the start code
Packet == [slot : [Index -> Values], length : 0 .. (Channels + 1)]

\* The data and length arguments; with `sc' the data begins with the start code.
Universe == [sc : BOOLEAN, length : 1 .. (Channels + 1), slot : [Index -> Values]]

\* The steps inside SetTransmitData, which no call starts with.
OuterStep == {s \in Step : s.op \notin {"SwitchBuffer", "CopyData"}}

ASSUME TxAssumption ==
  /\ Channels \in Nat
  /\ TransmitSlots \in 2 .. Channels
  /\ {0, 255} \subseteq Values
  /\ Calls \subseteq Seq(OuterStep)
  /\ Universes \subseteq Universe
  /\ \A u \in Universes : u.sc \/ (u.slot[0] = 0 /\ u.length <= Channels)

VARIABLES
  data,      \* dmx.data: the two packets of each port
  given,     \* the argument of the SetTransmitData that runs
  written,   \* how far its length and slots are written into the buffer
  latest,    \* per port, the last universe and the last level asked for
  wire       \* per port, `latest' when the packet under way was started

dataVars == <<data, given, written, latest, wire>>
txVars   == <<port, continuous, todo, data, given, written, latest, wire>>

-----------------------------------------------------------------------------
Capped(u) == IF u.length < TransmitSlots THEN u.length ELSE TransmitSlots

\* memcpy copies kCappedLength bytes; the start code is one of them with `sc'.
LastCopied(u) == IF u.sc THEN Capped(u) - 1 ELSE Capped(u)

PacketLength(u) == Capped(u) + 1

\* What ClearData (0) and FullOn (255) write.
Level(v) == [slot |-> [i \in Index |-> IF i = 0 THEN 0 ELSE v], length |-> Channels + 1]

\* SetSendDataInternal is between its first test and the end of its memcpy.
Writing(p) == At("SetSendData", p) \/ At("SwitchBuffer", p) \/ At("CopyData", p)

\* A universe and, if it came after it, the level of a Blackout or FullOn.
Asked == [universe : Universe, level : SUBSET {0, 255}]

\* The tables of the driver and the history have their types.
TxTypeOK ==
  /\ TypeOK
  /\ data \in [Ports -> [{0, 1} -> Packet]]
  /\ given \in Universe
  /\ written \in 0 .. (Channels + 2)
  /\ latest \in [Ports -> Asked]
  /\ wire \in [Ports -> [clean : BOOLEAN, asked : Asked]]

NoUniverse == [sc |-> FALSE, length |-> 1, slot |-> Level(0).slot]
NoWire == [clean |-> FALSE, asked |-> [universe |-> NoUniverse, level |-> {0}]]

\* The constructor clears data[0]; data[1] is zero from the start.
TxInit ==
  /\ Init
  /\ data = [p \in Ports |->
       [i \in {0, 1} |-> IF i = 0 THEN Level(0) ELSE [Level(0) EXCEPT !.length = 0]]]
  /\ given = NoUniverse
  /\ written = 0
  /\ latest = [p \in Ports |-> NoWire.asked]
  /\ wire = [p \in Ports |-> NoWire]

-----------------------------------------------------------------------------
(***************************************************************************)
(* The steps that write the buffers.                                       *)
(***************************************************************************)
SetSendData(p) ==
  /\ SetSendDataStep(p)
  /\ \E u \in Universes : given' = u
  /\ UNCHANGED <<data, written, latest, wire>>

WriteLength(p) ==
  /\ At("CopyData", p) /\ written = 0
  /\ data' = [data EXCEPT ![p][port[p].write].length = PacketLength(given)]
  /\ written' = 1
  /\ UNCHANGED <<port, continuous, todo, given, latest, wire>>

WriteSlot(p) ==
  /\ At("CopyData", p) /\ written \in 1 .. (LastCopied(given) + 1)
  /\ data' = [data EXCEPT ![p][port[p].write].slot[written - 1] = given.slot[written - 1]]
  /\ written' = written + 1
  /\ UNCHANGED <<port, continuous, todo, given, latest, wire>>

CopyDone(p) ==
  /\ written = LastCopied(given) + 2
  /\ CopyDataStep(p)
  /\ written' = 0
  /\ given' = NoUniverse
  /\ latest' = [latest EXCEPT ![p] = [universe |-> given, level |-> {}]]
  /\ UNCHANGED <<data, wire>>

\* Blackout and FullOn write data[0], whichever buffer is to be sent next; on
\* a restarted continuous output, for which DataDisable does not wait, also
\* while it is being sent.
ClearData(p) ==
  /\ ClearDataStep(p)
  /\ \E v \in {0, 255} :
       /\ data' = [data EXCEPT ![p][0] = Level(v)]
       /\ latest' = [latest EXCEPT ![p].level = {v}]
  /\ wire' = [wire EXCEPT ![p].clean = FALSE]
  /\ UNCHANGED <<given, written>>

\* DmaRestartDmxTx: the packet is read from data[read_index] from now on.
StartsPacket(p) == port[p].dmx = "kDmxMab" /\ port'[p].dma = "dmx"

Timer(p) ==
  /\ TimerIrq(p)
  /\ wire' = IF StartsPacket(p)
               THEN [wire EXCEPT ![p] = [clean |-> ~Writing(p), asked |-> latest[p]]]
               ELSE wire
  /\ UNCHANGED <<data, given, written, latest>>

DataOp == {"SetSendData", "CopyData", "ClearData"}

OtherStep(p) ==
  /\ MainStep(p) /\ Head(todo).op \notin DataOp
  /\ UNCHANGED dataVars

Dma(p) ==
  /\ DmaIrq(p)
  /\ wire' = [wire EXCEPT ![p] = NoWire]
  /\ UNCHANGED <<data, given, written, latest>>

TxMain(p) ==
  \/ SetSendData(p) \/ WriteLength(p) \/ WriteSlot(p) \/ CopyDone(p)
  \/ ClearData(p) \/ OtherStep(p)

TxNext ==
  \/ \E steps \in Calls : Call(steps) /\ UNCHANGED dataVars
  \/ \E p \in Ports : TxMain(p) \/ Timer(p) \/ Dma(p) \/ (Shifted(p) /\ UNCHANGED dataVars)

(***************************************************************************)
(* The fairness of DmxSend: the main loop runs, the interrupts come, and   *)
(* polling does not miss the same event for ever.                          *)
(***************************************************************************)
TxFairness ==
  \A p \in Ports :
    /\ WF_txVars(TxMain(p))
    /\ SF_txVars(PollStep(p) /\ UNCHANGED dataVars)
    /\ WF_txVars(Timer(p))
    /\ WF_txVars(Dma(p))
    /\ WF_txVars(Shifted(p) /\ UNCHANGED dataVars)

TxSpec == TxInit /\ [][TxNext]_txVars /\ TxFairness
-----------------------------------------------------------------------------
\* The packet a universe makes: its slots as far as they are copied.
Carries(packet, u) ==
  /\ packet.length = PacketLength(u)
  /\ \A i \in 0 .. LastCopied(u) : packet.slot[i] = u.slot[i]

Holds(packet, asked) ==
  Carries(packet, asked.universe) \/ \E v \in asked.level : packet = Level(v)

Sent(p) == data[p][port[p].read]

\* A packet that was started outside SetTransmitData carries what the program
\* had asked for last at that moment, whole: a universe, or the level of a
\* Blackout or FullOn after it.  No universe that is written while the packet
\* is on the wire gets into it, and none that came before shows up again.
PacketWhole ==
  \A p \in Ports :
    port[p].dma = "dmx" /\ wire[p].clean => Holds(Sent(p), wire[p].asked)

\* New data is never lost: once the program is quiet, a continuous output that
\* goes on sending sends whole packets of what was asked for last.
LatestGoesOut ==
  \A p \in Ports :
    <>[](todo = << >> /\ port[p].dmx # "kIdle")
      => []<>(port[p].dma = "dmx" /\ wire[p].clean /\ wire[p].asked = latest[p])

\* "DMX data to send, beginning with the start code" (lib-widget's
\* SendDmxPacketRequestOutputOnly): a packet of a universe that came with its
\* start code carries every slot of it, as far as transmit_slots_ allows.
AllSlotsSent ==
  \A p \in Ports :
    LET asked == wire[p].asked IN
    port[p].dma = "dmx" /\ wire[p].clean /\ asked.level = {} /\ asked.universe.sc =>
      \A i \in 0 .. TransmitSlots :
        i < asked.universe.length => Sent(p).slot[i] = asked.universe.slot[i]
=============================================================================
