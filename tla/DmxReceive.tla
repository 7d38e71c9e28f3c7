----------------------------- MODULE DmxReceive -----------------------------
(***************************************************************************)
(* The receive side of the DMX512/RDM driver, lib-dmx/src/gd32/dmx.cpp, for *)
(* one port, with its client DMXReceiver (lib-dmx/include/dmxreceiver.h)   *)
(* and the call of RdmReceive that RDMResponder::Run makes after it.       *)
(*                                                                         *)
(* Three parties share sv_rx_buffer: the receive interrupt, once for each  *)
(* break, byte and idle line; the main loop, which tests the buffers and   *)
(* hands them out in place; and the one-second timer.  An interrupt is one *)
(* action; the main loop can be interrupted between any two of its reads   *)
(* and writes of what the interrupt changes.                               *)
(*                                                                         *)
(* A byte is not a number but the place it was sent at: the message it     *)
(* belongs to and its position in it.  What a byte that is not where it    *)
(* belongs may be taken for is chosen nondeterministically.                *)
(***************************************************************************)
EXTENDS Integers

CONSTANTS
  DoubleInput,  \* CONFIG_DMX_DOUBLE_INPUT_BUFFER
  Channels,     \* dmx::kChannelsMax, 512 in the code
  RdmMin,       \* the shortest RDM message, 24 in the code
  RdmSize,      \* sizeof(struct TRdmMessage), 257 in the code
  Messages,     \* what is sent on the line: records [kind, length]
  Faults,       \* bound of the model: messages cut short, pauses, port changes
  BackToBack,   \* TRUE: a full packet may be followed by a break at once
  Prompt,       \* TRUE: the main loop is done with what is in the buffers
                \* before the first byte of the next message
  Contents,     \* FALSE: bytes are not told apart
  Clock         \* FALSE: the one-second timer is left out

Kinds == {"dmx", "rdm", "other", "reply"}   \* "reply" is sent without a break

ASSUME ReceiveAssumption ==
  /\ DoubleInput \in BOOLEAN /\ BackToBack \in BOOLEAN /\ Prompt \in BOOLEAN
  /\ Contents \in BOOLEAN /\ Clock \in BOOLEAN
  /\ Channels \in Nat \ {0}
  /\ RdmMin \in Nat /\ RdmMin > 2
  /\ RdmSize \in Nat /\ RdmSize >= RdmMin + 2
  /\ Faults \in Nat
  /\ Messages \subseteq [kind : Kinds, length : Nat \ {0}]
  /\ \A m \in Messages :
       /\ m.kind = "dmx" => m.length \in 2 .. (Channels + 1)
       /\ m.kind = "rdm" => m.length \in RdmMin .. (RdmSize - 2)

VARIABLES
  state,      \* sv_rx_buffer.state
  dmx,        \* buffer_a and buffer_b; dmx.current is dmx[0]
  active,     \* the buffer the interrupt writes
  rdm,        \* sv_rx_buffer.rdm
  counted,    \* sv_rx_dmx_packets.count # count_previous
  rate,       \* sv_rx_dmx_packets.per_second # 0
  output,     \* DMXReceiver::is_active_
  reader,     \* the main loop: its place, and its local variables
  listening,  \* the RBNE and IDLE interrupts are enabled
  line,       \* the line: the message being sent and how far
  faults,     \* messages cut short, pauses and port changes so far
  due         \* history: the last RDM message sent, until it is handed out

irqVars == <<state, dmx, active, rdm, counted>>
vars == <<state, dmx, active, rdm, counted, rate, output, reader, listening,
          line, faults, due>>

States == {"kIdle", "kDmxBreak", "kDmxData", "kRdmData", "kRdmChecksumh",
           "kRdmChecksuml", "kRdmdisc"}

NoMessage == [kind |-> "none", length |-> 0, id |-> 0]

\* Two messages in a row differ in `id'.
Sent == {[kind |-> m.kind, length |-> m.length, id |-> i] :
           m \in Messages, i \in {0, 1}}

\* The bytes of a message on the line: two of checksum after an RDM message.
Bytes(m) == IF m.kind = "rdm" THEN m.length + 2 ELSE m.length

\* A byte of a message; Zero is what memory holds at the start.
Zero == [message |-> NoMessage, at |-> 0]
At(m, i) == IF Contents THEN [message |-> m, at |-> i] ELSE Zero
Byte == [message : Sent \cup {NoMessage}, at : Nat]

Buffer == [data  : [0 .. Channels -> Byte],
           slots : 0 .. (Channels + 1),       \* slots_in_packet, without ...
           full  : BOOLEAN]                   \* ... kDmxSlotsCompleteFlag

\* data[RdmSize] is the padding behind the array.
Rdm == [data  : [0 .. RdmSize -> Byte],
        index : Nat,                          \* index, without ...
        end   : BOOLEAN]                      \* ... kRdmSlotsCompleteFlag

Places == {"available", "take", "length", "copy",      \* DMXReceiver::Run
           "receive", "clear", "check", "handle"}      \* RdmReceive, its caller

Reader == [at : Places, buffer : {0, 1}, slots : 0 .. (Channels + 1),
           length : 0 .. (Channels + 1), hit : BOOLEAN]

Line == [message : Sent, next : Nat, whole : BOOLEAN, idle : BOOLEAN]

\* Every variable holds what its declaration says.
TypeOK ==
  /\ state \in States
  /\ dmx \in [{0, 1} -> Buffer] /\ active \in {0, 1}
  /\ rdm \in Rdm
  /\ counted \in BOOLEAN /\ rate \in BOOLEAN /\ output \in BOOLEAN
  /\ reader \in Reader
  /\ listening \in BOOLEAN
  /\ line \in Line
  /\ faults \in 0 .. Faults
  /\ due \in Sent \cup {NoMessage}

-----------------------------------------------------------------------------
(***************************************************************************)
(* The receive interrupt, IrqHandlerDmxRdmInput                            *)
(***************************************************************************)
ReadBuffer == IF DoubleInput THEN 1 - active ELSE 0

\* What the start code after a break may be taken for.
StartCodes(c) == IF c.at = 0 /\ c.message.kind # "none"
                 THEN {c.message.kind} ELSE {"dmx", "rdm", "other"}

\* What the handler may read as message_length, which is byte 2: 255, the
\* largest byte, is RdmSize - 2.
MessageLengths(c) == IF c.message.kind = "rdm" /\ c.at = 2
                     THEN {c.message.length} ELSE 0 .. (RdmSize - 2)

\* The first byte.  The code leaves the bytes of the message before behind it;
\* here they become Zero: like them, no part of the new message.
First(data, c) == [i \in DOMAIN data |-> IF i = 0 THEN c ELSE Zero]

\* Mutant: the handler does not forget the packet before.
DmxStartAppends(b, c) ==
  /\ dmx' = [dmx EXCEPT ![b].data = First(@, c), ![b].full = FALSE]
  /\ counted' = TRUE
  /\ state' = "kDmxData"
  /\ UNCHANGED rdm

DmxStart(b, c) ==
  /\ dmx' = [dmx EXCEPT ![b].data = First(@, c), ![b].slots = 1,
                        ![b].full = FALSE]
  /\ counted' = TRUE
  /\ state' = "kDmxData"
  /\ UNCHANGED rdm

RdmStart(c, s) ==
  /\ rdm' = [rdm EXCEPT !.data = First(@, c), !.index = 1, !.end = FALSE]
  /\ state' = s
  /\ UNCHANGED <<dmx, counted>>

NoStart(b) ==
  /\ dmx' = [dmx EXCEPT ![b].slots = 0, ![b].full = FALSE]
  /\ rdm' = [rdm EXCEPT !.index = 0, !.end = FALSE]
  /\ state' = "kIdle"
  /\ UNCHANGED counted

StartCode(b, c) ==
  \E kind \in StartCodes(c) :
    \/ kind = "dmx" /\ DmxStart(b, c)
    \/ kind = "rdm" /\ RdmStart(c, "kRdmData")
    \/ kind \notin {"dmx", "rdm"} /\ NoStart(b)

\* Mutant: the slot behind the last one is still taken.
DmxSlotBehind(b, c) ==
  LET n == dmx[b].slots + 1 IN
  /\ dmx' = [dmx EXCEPT ![b].data[dmx[b].slots] = c, ![b].slots = n,
                        ![b].full = n > Channels + 1]
  /\ state' = IF n > Channels + 1 THEN "kIdle" ELSE state
  /\ UNCHANGED <<rdm, counted>>

DmxSlot(b, c) ==
  LET n == dmx[b].slots + 1 IN
  /\ dmx' = [dmx EXCEPT ![b].data[dmx[b].slots] = c, ![b].slots = n,
                        ![b].full = n > Channels]
  /\ state' = IF n > Channels THEN "kIdle" ELSE state
  /\ UNCHANGED <<rdm, counted>>

\* Mutant: a message that never reaches its length is never given up.
RdmByteForEver(c) ==
  LET n    == IF rdm.index < RdmSize THEN rdm.index + 1 ELSE rdm.index
      data == [rdm.data EXCEPT ![rdm.index] = c]
  IN /\ rdm' = [rdm EXCEPT !.data = data, !.index = n]
     /\ \E length \in MessageLengths(data[2]) :
          state' = IF n >= RdmMin /\ n = length THEN "kRdmChecksumh" ELSE state
     /\ UNCHANGED <<dmx, counted>>

RdmByte(c) ==
  LET n    == rdm.index + 1
      data == [rdm.data EXCEPT ![rdm.index] = c]
  IN /\ rdm' = [rdm EXCEPT !.data = data, !.index = n]
     /\ \E length \in MessageLengths(data[2]) :
          state' = IF n >= RdmMin /\ n <= RdmSize /\ n = length
                   THEN "kRdmChecksumh"
                   ELSE IF n > RdmSize THEN "kIdle" ELSE state
     /\ UNCHANGED <<dmx, counted>>

RdmChecksumh(c) ==
  /\ rdm' = [rdm EXCEPT !.data[rdm.index] = c, !.index = rdm.index + 1]
  /\ state' = "kRdmChecksuml"
  /\ UNCHANGED <<dmx, counted>>

RdmChecksuml(c) ==
  /\ rdm' = [rdm EXCEPT !.data[rdm.index] = c, !.end = TRUE]
  /\ state' = "kIdle"
  /\ UNCHANGED <<dmx, counted>>

RdmDisc(c) ==
  /\ rdm' = IF rdm.index < RdmMin /\ ~rdm.end
            THEN [rdm EXCEPT !.data[rdm.index] = c, !.index = rdm.index + 1]
            ELSE rdm
  /\ UNCHANGED <<state, dmx, counted>>

\* The switch on the state, for byte c in state s; b is the buffer that was
\* active when the interrupt began.
ByteIn(s, b, c) ==
  \/ s = "kIdle" /\ RdmStart(c, "kRdmdisc")
  \/ s = "kDmxBreak" /\ StartCode(b, c)
  \/ s = "kDmxData" /\ DmxSlot(b, c)
  \/ s = "kRdmData" /\ RdmByte(c)
  \/ s = "kRdmChecksumh" /\ RdmChecksumh(c)
  \/ s = "kRdmChecksuml" /\ RdmChecksuml(c)
  \/ s = "kRdmdisc" /\ RdmDisc(c)

ByteIrq(c) == ByteIn(state, active, c) /\ UNCHANGED active

\* The frame error flag of a break.
BreakIrqSingle ==
  /\ state' = IF state = "kIdle" THEN "kDmxBreak" ELSE state
  /\ UNCHANGED <<dmx, active, rdm, counted>>

\* With two buffers: no return after the swap, the data register is read once
\* more and its value handled as a byte.
BreakIrqDouble ==
  \/ /\ \/ state \in {"kRdmdisc", "kIdle"}
        \/ state = "kDmxData" /\ dmx[active].full
        \/ state = "kRdmData" /\ rdm.end
     /\ active' = 1 - active
     /\ ByteIn("kDmxBreak", active, Zero)
  \/ /\ \/ state = "kDmxData" /\ ~dmx[active].full
        \/ state = "kRdmData" /\ ~rdm.end
     /\ UNCHANGED irqVars
  \/ /\ state \in {"kDmxBreak", "kRdmChecksumh", "kRdmChecksuml"}
     /\ state' = "kIdle"
     /\ UNCHANGED <<dmx, active, rdm, counted>>

BreakIrq == IF DoubleInput THEN BreakIrqDouble ELSE BreakIrqSingle

\* Mutant: the packet is complete, but the state stays.
IdleKeepsState ==
  /\ \/ /\ state = "kDmxData"
        /\ dmx' = [dmx EXCEPT ![active].full = TRUE]
        /\ UNCHANGED <<state, rdm>>
     \/ /\ state = "kRdmdisc"
        /\ state' = "kIdle"
        /\ rdm' = [rdm EXCEPT !.end = TRUE]
        /\ UNCHANGED dmx
     \/ /\ state \notin {"kDmxData", "kRdmdisc"}
        /\ UNCHANGED <<state, dmx, rdm>>
  /\ UNCHANGED <<active, counted>>

\* The idle flag.
IdleIrq ==
  /\ \/ /\ state = "kDmxData"
        /\ state' = IF DoubleInput THEN state ELSE "kIdle"
        /\ dmx' = [dmx EXCEPT ![active].full = TRUE]
        /\ UNCHANGED rdm
     \/ /\ state = "kRdmdisc"
        /\ state' = "kIdle"
        /\ rdm' = [rdm EXCEPT !.end = TRUE]
        /\ UNCHANGED dmx
     \/ /\ state \notin {"kDmxData", "kRdmdisc"}
        /\ state' = IF DoubleInput /\ state # "kDmxBreak" THEN "kIdle" ELSE state
        /\ UNCHANGED <<dmx, rdm>>
  /\ UNCHANGED <<active, counted>>

Hear(Irq) == IF listening THEN Irq ELSE UNCHANGED irqVars

\* GetDmxAvailable is some instructions between its test and its write: one
\* interrupt of the port at most, as these are a slot time or more apart.
Interrupts ==
  /\ reader.at = "take" => ~reader.hit
  /\ reader' = [reader EXCEPT !.hit = reader.at = "take"]

-----------------------------------------------------------------------------
(***************************************************************************)
(* The line                                                                *)
(***************************************************************************)
Over == line.next = Bytes(line.message)

\* The main loop is between two calls and there is nothing for it to take.
Settled == /\ reader.at \in {"available", "receive"}
           /\ ~dmx[ReadBuffer].full /\ ~rdm.end

\* A break, or the pause before a message that has none.  A packet of all
\* slots ends by its length; the others need the line idle.
StartMessage(m) ==
  /\ Over /\ Interrupts
  /\ \/ line.idle
     \/ /\ BackToBack /\ m.kind # "reply" /\ line.whole
        /\ line.message.kind = "dmx" /\ line.message.length > Channels
  /\ line' = [message |-> [kind |-> m.kind, length |-> m.length,
                           id |-> 1 - line.message.id],
              next |-> 0, whole |-> listening, idle |-> m.kind = "reply"]
  /\ IF m.kind = "reply" THEN UNCHANGED irqVars ELSE Hear(BreakIrq)
  /\ UNCHANGED <<rate, output, listening, faults, due>>

NextByte ==
  /\ ~Over /\ Interrupts
  /\ Prompt /\ line.next = 0 => Settled
  /\ line' = [line EXCEPT !.next = @ + 1, !.idle = FALSE,
                          !.whole = @ /\ listening]
  /\ Hear(ByteIrq(At(line.message, line.next)))
  /\ due' = IF line.message.kind = "rdm" /\ line.next + 1 = Bytes(line.message)
            THEN line.message ELSE due
  /\ UNCHANGED <<rate, output, listening, faults>>

\* A frame's time without a byte, after a message or after a break.
GoIdle ==
  /\ ~line.idle /\ (Over \/ line.next = 0)
  /\ Interrupts
  /\ line' = [line EXCEPT !.idle = TRUE, !.whole = @ /\ listening]
  /\ Hear(IdleIrq)
  /\ UNCHANGED <<rate, output, listening, faults, due>>

\* The same between two bytes: for the handler, the end of the packet.
Pause ==
  /\ faults < Faults
  /\ ~line.idle /\ ~Over /\ line.next # 0
  /\ Interrupts
  /\ line' = [line EXCEPT !.idle = TRUE, !.whole = FALSE]
  /\ Hear(IdleIrq)
  /\ faults' = faults + 1
  /\ UNCHANGED <<rate, output, listening, due>>

\* The sender stops in the middle.
CutShort ==
  /\ faults < Faults
  /\ ~Over
  /\ line' = [line EXCEPT !.next = Bytes(line.message), !.whole = FALSE]
  /\ faults' = faults + 1
  /\ UNCHANGED <<irqVars, rate, output, reader, listening, due>>

-----------------------------------------------------------------------------
(***************************************************************************)
(* The main loop                                                           *)
(***************************************************************************)
Go(place) == reader' = [reader EXCEPT !.at = place]
Resting(place) == [at |-> place, buffer |-> 0, slots |-> 0, length |-> 0,
                   hit |-> FALSE]

\* Mutant: DMXReceiver::Run does not look for the end of the packets.
NeverStops ==
  /\ reader.at = "available"
  /\ IF dmx[ReadBuffer].full
     THEN reader' = [reader EXCEPT !.at = "take", !.buffer = ReadBuffer,
                                   !.slots = dmx[ReadBuffer].slots]
     ELSE Go("receive")
  /\ UNCHANGED <<irqVars, rate, output, listening, line, faults, due>>

\* GetDmxAvailable up to the test of the flag.  Without a packet,
\* DMXReceiver::Run looks at GetDmxUpdatesPerSecond.
GetDmxAvailable ==
  /\ reader.at = "available"
  /\ IF dmx[ReadBuffer].full
     THEN /\ reader' = [reader EXCEPT !.at = "take", !.buffer = ReadBuffer,
                                      !.slots = dmx[ReadBuffer].slots,
                                      !.hit = FALSE]
          /\ UNCHANGED output
     ELSE /\ Go("receive")
          /\ output' = (output /\ rate)
  /\ UNCHANGED <<irqVars, rate, listening, line, faults, due>>

\* slots_in_packet is written back without the flag and the start code; 0 - 1
\* has the bit of the flag.
TakePacket ==
  /\ reader.at = "take"
  /\ dmx' = [dmx EXCEPT ![reader.buffer].slots = reader.slots - 1,
                        ![reader.buffer].full = reader.slots = 0]
  /\ Go("length")
  /\ UNCHANGED <<state, active, rdm, counted, rate, output, listening, line,
                 faults, due>>

\* DMXReceiver::Run reads the length behind the data, calls SetData ...
ReadLength ==
  /\ reader.at = "length"
  /\ reader' = [reader EXCEPT !.at = "copy", !.length = dmx[reader.buffer].slots]
  /\ UNCHANGED <<irqVars, rate, output, listening, line, faults, due>>

\* ... which copies the slots, and Start.
CopyPacket ==
  /\ reader.at = "copy"
  /\ output' = TRUE
  /\ reader' = Resting("receive")
  /\ UNCHANGED <<irqVars, rate, listening, line, faults, due>>

RdmReceive ==
  /\ reader.at = "receive"
  /\ Go(IF rdm.end THEN "clear" ELSE "available")
  /\ UNCHANGED <<irqVars, rate, output, listening, line, faults, due>>

\* Mutant: the index keeps its flag.
ClearNothing ==
  /\ reader.at = "clear"
  /\ Go("check")
  /\ UNCHANGED <<irqVars, rate, output, listening, line, faults, due>>

ClearIndex ==
  /\ reader.at = "clear"
  /\ rdm' = [rdm EXCEPT !.index = 0, !.end = FALSE]
  /\ Go("check")
  /\ UNCHANGED <<state, dmx, active, counted, rate, output, listening, line,
                 faults, due>>

\* The bytes of message m are where RdmReceive looks for them.
Holds(data, m) == \A i \in 0 .. (Bytes(m) - 1) : data[i] = At(m, i)

\* Mutant: the checksum is not looked at.
CheckNothing ==
  /\ reader.at = "check"
  /\ Go("handle")
  /\ due' = IF due = rdm.data[0].message THEN NoMessage ELSE due
  /\ UNCHANGED <<irqVars, rate, output, listening, line, faults>>

\* What the first byte is taken for; the checksum is right for a message and
\* wrong for anything put together from several.  A message of another start
\* code, a discovery response, is returned too, but RDMResponder::Run leaves
\* it at that (rdmresponder.h:122): for the responder it is as if it had none.
CheckMessage ==
  /\ reader.at = "check"
  /\ LET m == rdm.data[0].message IN
     IF m.kind = "rdm" /\ Holds(rdm.data, m)
     THEN /\ Go("handle")
          /\ due' = IF due = m THEN NoMessage ELSE due
     ELSE /\ Go("available")
          /\ UNCHANGED due
  /\ UNCHANGED <<irqVars, rate, output, listening, line, faults>>

\* The caller has read the message; it may have changed the port's direction.
HandleMessage ==
  /\ reader.at = "handle"
  /\ Go("available")
  /\ UNCHANGED <<irqVars, rate, output, listening, line, faults, due>>

MainStep ==
  \/ GetDmxAvailable \/ TakePacket \/ ReadLength \/ CopyPacket
  \/ RdmReceive \/ ClearIndex \/ CheckMessage \/ HandleMessage

\* SetPortDirection: DataDisable and DataEnable for an input.
DataDisable ==
  /\ listening /\ reader.at \in {"available", "handle"}
  /\ faults < Faults
  /\ faults' = faults + 1
  /\ listening' = FALSE
  /\ state' = "kIdle"
  /\ line' = [line EXCEPT !.whole = FALSE]
  /\ UNCHANGED <<dmx, active, rdm, counted, rate, output, reader, due>>

DataEnable ==
  /\ ~listening /\ reader.at \in {"available", "handle"}
  /\ listening' = TRUE
  /\ state' = "kIdle"
  /\ UNCHANGED <<dmx, active, rdm, counted, rate, output, reader, line, faults,
                 due>>

\* TIMER6_IRQHandler
Second ==
  /\ Clock
  /\ rate' = counted
  /\ counted' = FALSE
  /\ UNCHANGED <<state, dmx, active, rdm, output, reader, listening, line,
                 faults, due>>

-----------------------------------------------------------------------------
\* The port is enabled at any moment of what is going on on the line.
Init ==
  /\ state = "kIdle"
  /\ dmx = [b \in {0, 1} |-> [data |-> [i \in 0 .. Channels |-> Zero],
                              slots |-> 0, full |-> FALSE]]
  /\ active = 0
  /\ rdm = [data |-> [i \in 0 .. RdmSize |-> Zero], index |-> 0, end |-> FALSE]
  /\ counted = FALSE /\ rate = FALSE /\ output = FALSE
  /\ reader = Resting("available")
  /\ listening = TRUE
  /\ \E m \in Messages : \E n \in 1 .. Bytes(m) :
       line = [message |-> [kind |-> m.kind, length |-> m.length, id |-> 0],
               next |-> n, whole |-> FALSE, idle |-> n = Bytes(m)]
  /\ faults = 0
  /\ due = NoMessage

Next ==
  \/ \E m \in Messages : StartMessage(m)
  \/ NextByte \/ GoIdle \/ Pause \/ CutShort
  \/ MainStep
  \/ DataDisable \/ DataEnable
  \/ Second

\* The main loop and the clock go on; nothing is assumed of the line.
Fairness == WF_vars(MainStep) /\ WF_vars(Second)

Spec == Init /\ [][Next]_vars /\ Fairness

-----------------------------------------------------------------------------
(***************************************************************************)
(* Properties                                                              *)
(***************************************************************************)
\* Whenever it runs: the interrupt never writes outside its buffers (the one
\* byte behind rdm.data is padding), and GetDmxAvailable never subtracts the
\* start code from a packet of no slots.
IndexInRoom ==
  /\ state = "kDmxData" => dmx[active].slots \in 0 .. Channels
  /\ state \in {"kRdmData", "kRdmChecksumh", "kRdmChecksuml"}
       => rdm.index \in 0 .. RdmSize
  /\ \A b \in {0, 1} : dmx[b].full => dmx[b].slots >= 1

\* What SetData copies is the beginning of one packet, slot for slot, and all
\* of it when the packet came whole.  (A message of which nothing was heard yet
\* is another one: only two ids are used.)
PacketIntact ==
  reader.at = "copy" =>
    LET data == dmx[reader.buffer].data
        m    == data[0].message
    IN /\ reader.length \in 0 .. Channels
       /\ m.kind = "dmx" => \A i \in 0 .. reader.length : data[i] = At(m, i)
       /\ (line.message = m /\ line.whole /\ line.next # 0)
            => reader.length = m.length - 1

\* An RDM message stays what it was when its checksum was found right, until
\* its reader is done with it.
RequestIntact ==
  reader.at = "handle" => /\ rdm.data[0].message.kind = "rdm"
                          /\ Holds(rdm.data, rdm.data[0].message)

\* To RDMResponder::Run, the port is an inbox: it gets the last message sent,
\* once, and nobody changes it while it is used.
Inbox == INSTANCE RdmInbox WITH
  Message <- {m \in Sent : m.kind = "rdm"},
  None    <- NoMessage,
  last    <- due,
  reading <- IF reader.at = "handle" THEN rdm.data[0].message ELSE NoMessage

ImplementsInbox == Inbox!Spec

\* A message has been heard from its break to the idle line behind it.
Heard(kind) == line.message.kind = kind /\ Over /\ line.idle /\ line.whole

GoesOnHearing(kind) == []<>Heard(kind) /\ []<>~Heard(kind)

\* Whatever came before, cut short or paused or half heard: a receiver that
\* goes on hearing whole packets goes on handing out whole packets ...
DmxRecovers ==
  GoesOnHearing("dmx") =>
  []<>(/\ reader.at = "copy"
       /\ reader.length = dmx[reader.buffer].data[0].message.length - 1)

\* ... and one that goes on hearing RDM messages goes on handing them out.
RdmRecovers == GoesOnHearing("rdm") => []<>(reader.at = "handle")

\* When the packets stop, DMXReceiver stops the output.
SignalLoss == <>[]~counted => <>[]~output

\* With two buffers the interrupt writes the active one only; the other is
\* for the reader ("The non-active DMX data buffer for reads").  It does not
\* hold with DoubleInput = TRUE; no run claims it.
WritesActiveOnly ==
  [][line' # line => dmx'[1 - active'] = dmx[1 - active']]_vars
=============================================================================
