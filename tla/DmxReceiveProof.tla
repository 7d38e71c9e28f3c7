-------------------------- MODULE DmxReceiveProof --------------------------
(***************************************************************************)
(* The receiver with one input buffer, for every size of the buffers,      *)
(* every set of messages on the line, and any number of messages cut short *)
(* or paused and of port changes.                                          *)
(*                                                                         *)
(* The first part is about a main loop that has taken what is in the       *)
(* buffers before the first byte of the next message comes: what it hands  *)
(* out is what was sent.  The second is about one that may be late: the    *)
(* interrupt still writes inside its buffers.                              *)
(***************************************************************************)
EXTENDS DmxReceive, TLAPS

PromptReader == ~DoubleInput /\ Prompt /\ Contents

Packet  == dmx[0].data[0].message
Request == rdm.data[0].message

\* Nothing of a message is on its way.
Quiet == Over \/ line.next = 0

LineInv ==
  /\ line.next \in 0 .. Bytes(line.message)
  /\ ~listening => state = "kIdle"
  /\ state = "kDmxBreak" => Quiet

\* The second buffer is not used.
OneBuffer == active = 0 /\ reader.buffer = 0 /\ ~dmx[1].full

\* The buffer begins with k bytes of one packet ...
BeginsWith(k) == /\ Packet.kind = "dmx"
                 /\ \A i \in 0 .. (k - 1) : dmx[0].data[i] = At(Packet, i)

\* ... and these are all of it, when it came whole.
AllOf(k) == (line.message = Packet /\ line.whole /\ line.next # 0)
              => k = Packet.length

\* A packet that is being received is the one on the line.
Collecting ==
  state = "kDmxData" =>
    /\ listening /\ ~line.idle /\ ~dmx[0].full
    /\ reader.at \notin {"take", "length", "copy"}
    /\ Packet = line.message
    /\ dmx[0].slots \in 1 .. Channels /\ dmx[0].slots <= line.next
    /\ dmx[0].slots = line.next \/ (Over /\ ~line.whole)
    /\ BeginsWith(dmx[0].slots)

Complete ==
  dmx[0].full => /\ state # "kDmxData"
                 /\ dmx[0].slots \in 1 .. (Channels + 1)
                 /\ BeginsWith(dmx[0].slots) /\ AllOf(dmx[0].slots)

\* From GetDmxAvailable until SetData has copied it.
Taken ==
  /\ reader.at = "take" => dmx[0].full /\ reader.slots = dmx[0].slots
  /\ reader.at \in {"length", "copy"} =>
       /\ ~dmx[0].full /\ state # "kDmxData" /\ dmx[0].slots \in 0 .. Channels
       /\ BeginsWith(dmx[0].slots + 1) /\ AllOf(dmx[0].slots + 1)
  /\ reader.at = "copy" => reader.length = dmx[0].slots

PacketInv == Collecting /\ Complete /\ Taken

\* RdmReceive has a message, or will find one.
Pending == rdm.end \/ reader.at \in {"clear", "check", "handle"}

\* The first n bytes are not the beginning of message m.
StrayIn(data, n, m) == \E i \in 0 .. (n - 1) : i < Bytes(m) /\ data[i] # At(m, i)

Stray == StrayIn(rdm.data, rdm.index, Request)

Receiving ==
  state \in {"kRdmData", "kRdmChecksumh", "kRdmChecksuml"} =>
    /\ listening /\ ~Pending
    /\ Request.kind = "rdm" /\ Request \in Sent
    /\ rdm.index \in 1 .. RdmSize
    /\ state = "kRdmChecksumh" => rdm.index <= RdmSize - 2
    /\ state = "kRdmChecksuml" => rdm.index <= RdmSize - 1
    /\ Stray \/ Quiet \/ (line.message = Request /\ line.next = rdm.index)
    /\ \/ Stray
       \/ state = "kRdmData" /\ rdm.index < Request.length
       \/ state = "kRdmChecksumh" /\ rdm.index = Request.length
       \/ state = "kRdmChecksuml" /\ rdm.index = Request.length + 1

\* A discovery response is too short for a message.
Discovering ==
  state = "kRdmdisc" => rdm.index <= RdmMin /\ rdm.data[RdmMin] = Zero

\* What RdmReceive will find right is the last message, and it is alone.
Received ==
  /\ (Pending /\ Request.kind = "rdm" /\ Holds(rdm.data, Request))
       => /\ Quiet
          /\ reader.at # "handle" => due = Request
          /\ reader.at = "check" => ~rdm.end
  /\ reader.at = "handle" =>
       ~rdm.end /\ Request.kind = "rdm" /\ Holds(rdm.data, Request)

RequestInv == Receiving /\ Discovering /\ Received

IInv == TypeOK /\ LineInv /\ OneBuffer /\ PacketInv /\ RequestInv

-----------------------------------------------------------------------------
\* The lengths of messages, and their bytes.
LEMMA SentFacts ==
  ASSUME NEW m \in Sent
  PROVE  /\ m.kind \in Kinds /\ m.length \in Nat \ {0} /\ m.id \in {0, 1}
         /\ m # NoMessage
         /\ Bytes(m) \in Nat /\ Bytes(m) >= m.length
         /\ m.kind # "rdm" => Bytes(m) = m.length
         /\ m.kind = "dmx" => m.length \in 2 .. (Channels + 1)
         /\ m.kind = "rdm" => /\ m.length \in RdmMin .. (RdmSize - 2)
                              /\ Bytes(m) = m.length + 2
<1>1. PICK n \in Messages, i \in {0, 1} :
        m = [kind |-> n.kind, length |-> n.length, id |-> i]
  BY DEF Sent
<1>2. n \in [kind : Kinds, length : Nat \ {0}]
  BY ReceiveAssumption
<1>3. /\ n.kind = "dmx" => n.length \in 2 .. (Channels + 1)
      /\ n.kind = "rdm" => n.length \in RdmMin .. (RdmSize - 2)
  BY ReceiveAssumption
<1>4. m.kind = n.kind /\ m.length = n.length /\ m.id = i
  BY <1>1
<1>5. m.kind # "none"
  BY <1>2, <1>4 DEF Kinds
<1> QED
  BY <1>2, <1>3, <1>4, <1>5, ReceiveAssumption DEF Bytes, NoMessage

LEMMA ByteFacts ==
  ASSUME NEW m \in Sent \cup {NoMessage}, NEW i \in Nat
  PROVE  /\ At(m, i) \in Byte
         /\ Zero \in Byte
BY DEF At, Byte, Zero

LEMMA AtFacts ==
  ASSUME PromptReader, NEW m, NEW i
  PROVE  At(m, i).message = m /\ At(m, i).at = i
BY DEF At, PromptReader

LEMMA FirstFacts ==
  ASSUME NEW n \in Nat, NEW data \in [0 .. n -> Byte], NEW c \in Byte
  PROVE  /\ First(data, c) \in [0 .. n -> Byte]
         /\ First(data, c)[0] = c
         /\ \A i \in 1 .. n : First(data, c)[i] = Zero
<1>1. Zero \in Byte
  BY DEF Byte, Zero
<1> QED
  BY <1>1 DEF First

LEMMA LineType ==
  ASSUME NEW l \in Line,
         NEW n \in Nat, NEW w \in BOOLEAN, NEW i \in BOOLEAN
  PROVE  [l EXCEPT !.next = n, !.idle = i, !.whole = w] \in Line
BY DEF Line

LEMMA BufferType ==
  ASSUME NEW b \in Buffer, NEW data \in [0 .. Channels -> Byte],
         NEW n \in 0 .. (Channels + 1), NEW f \in BOOLEAN
  PROVE  /\ [b EXCEPT !.data = data, !.slots = n, !.full = f] \in Buffer
         /\ [b EXCEPT !.slots = n, !.full = f] \in Buffer
BY DEF Buffer

\* The message that StartMessage puts on the line.
LEMMA NextSent ==
  ASSUME TypeOK, NEW m \in Messages
  PROVE  [kind |-> m.kind, length |-> m.length, id |-> 1 - line.message.id] \in Sent
<1>1. line.message \in Sent
  BY DEF TypeOK, Line
<1>2. 1 - line.message.id \in {0, 1}
  BY <1>1, SentFacts
<1> QED
  BY <1>2 DEF Sent

-----------------------------------------------------------------------------
(***************************************************************************)
(* A byte                                                                  *)
(***************************************************************************)
\* What every byte does, heard or not.
LEMMA ByteMoves ==
  ASSUME TypeOK, LineInv, OneBuffer, NextByte
  PROVE  /\ line.message \in Sent /\ line'.message = line.message
         /\ line.next \in Nat /\ line.next < Bytes(line.message)
         /\ line'.next = line.next + 1
         /\ line' \in Line
         /\ ~line'.idle /\ line'.whole = (line.whole /\ listening)
         /\ line'.next \in 0 .. Bytes(line'.message) /\ line'.next # 0
         /\ reader' \in Reader
         /\ reader'.at = reader.at /\ reader'.buffer = 0
         /\ reader'.slots = reader.slots /\ reader'.length = reader.length
         /\ reader.at = "take" => ~reader.hit /\ reader'.hit
         /\ due' \in Sent \cup {NoMessage}
         /\ listening' = listening /\ faults' = faults
         /\ output' = output /\ rate' = rate
<1>1. line \in Line
  BY DEF TypeOK
<1>2. line.next \in 0 .. Bytes(line.message) /\ line.next # Bytes(line.message)
  BY DEF NextByte, LineInv, Over
<1>3. line.message \in Sent /\ line.next \in Nat /\ Bytes(line.message) \in Nat
  BY <1>1, SentFacts DEF Line
<1>4. line' = [line EXCEPT !.next = @ + 1, !.idle = FALSE, !.whole = @ /\ listening]
  BY DEF NextByte
<1>5. /\ reader' = [reader EXCEPT !.hit = reader.at = "take"]
      /\ reader.at = "take" => ~reader.hit
  BY DEF NextByte, Interrupts
<1>6. reader \in Reader /\ reader.buffer = 0
  BY DEF TypeOK, OneBuffer
<1>7. due' \in Sent \cup {NoMessage}
  BY <1>1 DEF NextByte, TypeOK, Line
<1>8. listening \in BOOLEAN /\ UNCHANGED <<rate, output, listening, faults>>
  BY DEF TypeOK, NextByte
<1>9. /\ reader' \in Reader
      /\ reader'.at = reader.at /\ reader'.buffer = 0
      /\ reader'.slots = reader.slots /\ reader'.length = reader.length
      /\ reader.at = "take" => reader'.hit
  BY <1>5, <1>6 DEF Reader
<1>10. /\ line'.message = line.message /\ line'.next = line.next + 1
       /\ ~line'.idle /\ line'.whole = (line.whole /\ listening)
  BY <1>1, <1>4 DEF Line
<1>11. line.next + 1 \in Nat /\ (line.whole /\ listening) \in BOOLEAN /\ FALSE \in BOOLEAN
  BY <1>1 DEF Line
<1>12. line' \in Line
  BY <1>1, <1>4, <1>11, LineType
<1> QED
  BY <1>2, <1>3, <1>5, <1>7, <1>8, <1>9, <1>10, <1>12

LEMMA ByteLine ==
  ASSUME PromptReader, IInv, NextByte
  PROVE  /\ line.message \in Sent /\ line'.message = line.message
         /\ line.next \in Nat /\ line.next < Bytes(line.message)
         /\ line'.next = line.next + 1
         /\ line' \in Line
         /\ ~line'.idle /\ line'.whole = (line.whole /\ listening)
         /\ line'.next \in 0 .. Bytes(line'.message) /\ line'.next # 0
         /\ reader' \in Reader
         /\ reader'.at = reader.at /\ reader'.buffer = 0
         /\ reader'.slots = reader.slots /\ reader'.length = reader.length
         /\ due' \in Sent \cup {NoMessage}
         /\ line.next = 0 => ~Pending /\ ~dmx[0].full
                             /\ reader.at \in {"available", "receive"}
         /\ listening' = listening /\ faults' = faults
         /\ output' = output /\ rate' = rate
<1>1. line.next = 0 => ~Pending /\ ~dmx[0].full /\ reader.at \in {"available", "receive"}
  BY DEF NextByte, Settled, ReadBuffer, Pending, PromptReader
<1> QED
  BY <1>1, ByteMoves DEF IInv

LEMMA ByteDmxSlot ==
  ASSUME PromptReader, IInv, NextByte, state = "kDmxData",
         DmxSlot(0, At(line.message, line.next)), active' = active
  PROVE  IInv'
<1> DEFINE c == At(line.message, line.next)
<1>1. /\ listening /\ dmx[0].slots = line.next /\ dmx[0].slots \in 1 .. Channels
      /\ ~dmx[0].full /\ Packet = line.message /\ BeginsWith(dmx[0].slots)
      /\ reader.at \notin {"take", "length", "copy"}
  BY DEF IInv, PacketInv, Collecting, NextByte
<1>2. dmx \in [{0, 1} -> Buffer] /\ rdm \in Rdm /\ active = 0 /\ ~dmx[1].full
      /\ counted \in BOOLEAN
  BY DEF IInv, TypeOK, OneBuffer
<1>3. c \in Byte
  BY ByteLine, ByteFacts
<1>4. Channels \in Nat
  BY ReceiveAssumption
<1>5. /\ dmx' \in [{0, 1} -> Buffer]
      /\ dmx'[0].slots = dmx[0].slots + 1
      /\ dmx'[0].full = (dmx[0].slots + 1 > Channels)
      /\ dmx'[0].data = [dmx[0].data EXCEPT ![dmx[0].slots] = c]
      /\ dmx'[1] = dmx[1]
  BY <1>1, <1>2, <1>3, <1>4 DEF DmxSlot, Buffer
<1>6. /\ dmx'[0].data[0] = dmx[0].data[0]
      /\ \A i \in 0 .. (dmx[0].slots - 1) : dmx'[0].data[i] = dmx[0].data[i]
      /\ dmx'[0].data[dmx[0].slots] = c
  BY <1>1, <1>2, <1>4, <1>5 DEF Buffer
<1>7. Packet' = Packet /\ BeginsWith(dmx[0].slots)'
  BY <1>1, <1>4, <1>5, <1>6 DEF Packet, BeginsWith
<1>8. state' = IF dmx[0].slots + 1 > Channels THEN "kIdle" ELSE "kDmxData"
  BY DEF DmxSlot
<1>9. rdm' = rdm /\ counted' = counted
  BY DEF DmxSlot
<1>10. line.message.length \in 2 .. (Channels + 1) /\ Bytes(line.message) = line.message.length
  BY <1>1, ByteLine, SentFacts DEF BeginsWith
<1>11. TypeOK'
  BY <1>2, <1>5, <1>8, <1>9, ByteLine DEF TypeOK, States, IInv
<1>12. LineInv' /\ OneBuffer'
  BY <1>1, <1>2, <1>5, <1>8, ByteLine DEF LineInv, OneBuffer, IInv
<1>13. Collecting'
  BY <1>1, <1>4, <1>5, <1>7, <1>8, ByteLine DEF Collecting, Line
<1>14. Complete'
  BY <1>1, <1>4, <1>5, <1>7, <1>8, <1>10, ByteLine DEF Complete, AllOf, Line
<1>15. Taken'
  BY <1>1, ByteLine DEF Taken
<1>16. RequestInv'
  <2>1. Receiving' /\ Discovering'
    BY <1>8 DEF Receiving, Discovering
  <2>2. line.next # 0 /\ ~Quiet
    BY <1>1, <1>4, ByteLine DEF Quiet, Over
  <2>3. ~(Pending /\ Request.kind = "rdm" /\ Holds(rdm.data, Request)) /\ reader.at # "handle"
    BY <2>2 DEF IInv, RequestInv, Received, Pending
  <2>4. Pending' = Pending /\ Request' = Request
    BY <1>9, ByteLine DEF Pending, Request
  <2>5. Received'
    BY <2>3, <2>4, <1>9, ByteLine DEF Received
  <2> QED
    BY <2>1, <2>5 DEF RequestInv
<1> QED
  BY <1>11, <1>12, <1>13, <1>14, <1>15, <1>16 DEF IInv, PacketInv

\* A message that RdmReceive will find right is not followed by a byte.
LEMMA ByteNoRequest ==
  ASSUME PromptReader, IInv, NextByte
  PROVE  /\ ~(Pending /\ Request.kind = "rdm" /\ Holds(rdm.data, Request))
         /\ reader.at # "handle"
         /\ rdm' = rdm => Received'
<1>1. line.next # Bytes(line.message) /\ (line.next = 0 => ~Pending)
  BY ByteLine
<1>2. ~(Pending /\ Request.kind = "rdm" /\ Holds(rdm.data, Request))
  BY <1>1 DEF IInv, RequestInv, Received, Quiet, Over
<1>3. reader.at # "handle"
  BY <1>2 DEF IInv, RequestInv, Received, Pending
<1>4. rdm' = rdm => Pending' = Pending /\ Request' = Request
  BY ByteLine DEF Pending, Request
<1>5. rdm' = rdm => Received'
  BY <1>2, <1>3, <1>4, ByteLine DEF Received
<1> QED
  BY <1>2, <1>3, <1>5

\* Nor is a complete packet changed by the byte of another message.
LEMMA ByteKeepsPacket ==
  ASSUME PromptReader, IInv, NextByte, dmx' = dmx, state' # "kDmxData"
  PROVE  PacketInv'
<1>1. Packet' = Packet /\ \A k : BeginsWith(k) => BeginsWith(k)'
  BY DEF Packet, BeginsWith
<1>2. ASSUME NEW k, AllOf(k), line.next # 0  PROVE AllOf(k)'
  BY <1>1, <1>2, ByteLine DEF AllOf
<1>3. dmx[0].full \/ reader.at \in {"take", "length", "copy"} => line.next # 0
  BY ByteLine
<1>4. Collecting'
  BY DEF Collecting
<1>5. Complete'
  <2>1. SUFFICES ASSUME dmx[0].full
                 PROVE  /\ dmx[0].slots \in 1 .. (Channels + 1)
                        /\ BeginsWith(dmx[0].slots)' /\ AllOf(dmx[0].slots)'
    BY DEF Complete
  <2>2. /\ dmx[0].slots \in 1 .. (Channels + 1)
        /\ BeginsWith(dmx[0].slots) /\ AllOf(dmx[0].slots)
    BY <2>1 DEF IInv, PacketInv, Complete
  <2> QED
    BY <1>1, <1>2, <1>3, <2>1, <2>2
<1>6. Taken'
  <2>1. reader'.at = "take" => dmx'[0].full /\ reader'.slots = dmx'[0].slots
    BY ByteLine DEF IInv, PacketInv, Taken
  <2>2. reader'.at = "copy" => reader'.length = dmx'[0].slots
    BY ByteLine DEF IInv, PacketInv, Taken
  <2>3. SUFFICES ASSUME reader.at \in {"length", "copy"}
                 PROVE  /\ ~dmx[0].full /\ dmx[0].slots \in 0 .. Channels
                        /\ BeginsWith(dmx[0].slots + 1)' /\ AllOf(dmx[0].slots + 1)'
    BY <2>1, <2>2, ByteLine DEF Taken
  <2>4. /\ ~dmx[0].full /\ dmx[0].slots \in 0 .. Channels
        /\ BeginsWith(dmx[0].slots + 1) /\ AllOf(dmx[0].slots + 1)
    BY <2>3 DEF IInv, PacketInv, Taken
  <2> QED
    BY <1>1, <1>2, <1>3, <2>3, <2>4
<1> QED
  BY <1>4, <1>5, <1>6 DEF PacketInv

\* A byte that is not heard.
LEMMA ByteUnheard ==
  ASSUME PromptReader, IInv, NextByte, ~listening
  PROVE  IInv'
<1>1. state' = state /\ dmx' = dmx /\ rdm' = rdm /\ active' = active /\ counted' = counted
  BY DEF NextByte, Hear, irqVars
<1>2. state = "kIdle"
  BY DEF IInv, LineInv
<1>3. PacketInv'
  BY <1>1, <1>2, ByteKeepsPacket
<1>4. RequestInv'
  BY <1>1, <1>2, ByteNoRequest DEF RequestInv, Receiving, Discovering
<1>5. TypeOK'
  BY <1>1, ByteLine DEF IInv, TypeOK
<1>6. LineInv' /\ OneBuffer'
  BY <1>1, <1>2, ByteLine DEF IInv, LineInv, OneBuffer
<1> QED
  BY <1>3, <1>4, <1>5, <1>6 DEF IInv

\* RDM data with a byte missing where the shortest message has one.
LEMMA TooShort ==
  ASSUME PromptReader, NEW data \in [0 .. RdmSize -> Byte], data[RdmMin] = Zero,
         data[0].message.kind = "rdm"
  PROVE  ~Holds(data, data[0].message)
<1> DEFINE m == data[0].message
<1>1. RdmMin \in Nat /\ RdmMin > 2 /\ RdmSize \in Nat /\ RdmSize >= RdmMin + 2
  BY ReceiveAssumption
<1>2. data[0] \in Byte
  BY <1>1
<1>3. m \in Sent \cup {NoMessage}
  BY <1>2 DEF Byte
<1>4. m \in Sent
  BY <1>3 DEF NoMessage
<1>5. RdmMin \in 0 .. (Bytes(m) - 1)
  BY <1>1, <1>4, SentFacts
<1>6. At(m, RdmMin) # Zero
  BY <1>4, SentFacts, AtFacts DEF Zero
<1> QED
  BY <1>5, <1>6 DEF Holds

LEMMA RdmStartFacts ==
  ASSUME TypeOK, NEW c \in Byte, NEW s \in States, RdmStart(c, s)
  PROVE  /\ rdm' \in Rdm /\ rdm'.index = 1 /\ ~rdm'.end /\ rdm'.data[0] = c
         /\ rdm'.data[RdmMin] = Zero
         /\ state' = s /\ dmx' = dmx /\ counted' = counted
<1>1. RdmMin \in Nat /\ RdmMin > 2 /\ RdmSize \in Nat /\ RdmSize >= RdmMin + 2
  BY ReceiveAssumption
<1>2. rdm \in Rdm
  BY DEF TypeOK
<1>3. /\ First(rdm.data, c) \in [0 .. RdmSize -> Byte]
      /\ First(rdm.data, c)[0] = c
      /\ First(rdm.data, c)[RdmMin] = Zero
  BY <1>1, <1>2, FirstFacts DEF Rdm
<1>4. rdm' = [rdm EXCEPT !.data = First(rdm.data, c), !.index = 1, !.end = FALSE]
  BY DEF RdmStart
<1>5. rdm' \in Rdm /\ rdm'.index = 1 /\ ~rdm'.end /\ rdm'.data = First(rdm.data, c)
  BY <1>2, <1>3, <1>4 DEF Rdm
<1> QED
  BY <1>3, <1>5 DEF RdmStart

LEMMA DmxStartFacts ==
  ASSUME TypeOK, NEW c \in Byte, DmxStart(0, c)
  PROVE  /\ dmx' \in [{0, 1} -> Buffer] /\ dmx'[0].slots = 1 /\ ~dmx'[0].full
         /\ dmx'[0].data[0] = c /\ dmx'[1] = dmx[1]
<1> DEFINE data == First(dmx[0].data, c)
           b == [dmx[0] EXCEPT !.data = data, !.slots = 1, !.full = FALSE]
<1>1. dmx \in [{0, 1} -> Buffer] /\ dmx[0] \in Buffer
  BY DEF TypeOK
<1>2. Channels \in Nat /\ 1 \in 0 .. (Channels + 1) /\ FALSE \in BOOLEAN
  BY ReceiveAssumption
<1>3. dmx[0].data \in [0 .. Channels -> Byte]
  BY <1>1 DEF Buffer
<1>4. data \in [0 .. Channels -> Byte] /\ data[0] = c
  BY <1>2, <1>3, FirstFacts
<1>5. b \in Buffer
  BY <1>1, <1>2, <1>4, BufferType
<1>6. dmx' = [dmx EXCEPT ![0] = b]
  BY <1>1 DEF DmxStart
<1>7. b.slots = 1 /\ ~b.full /\ b.data = data
  BY <1>1 DEF Buffer
<1> HIDE DEF b
<1>8. dmx' \in [{0, 1} -> Buffer] /\ dmx'[0] = b /\ dmx'[1] = dmx[1]
  BY <1>1, <1>5, <1>6
<1> QED
  BY <1>4, <1>7, <1>8

\* A byte without a break in front: of a discovery response, or half heard.
LEMMA ByteIdle ==
  ASSUME PromptReader, IInv, NextByte, listening, state = "kIdle",
         RdmStart(At(line.message, line.next), "kRdmdisc"), active' = active
  PROVE  IInv'
<1> DEFINE c == At(line.message, line.next)
<1>0. TypeOK /\ c \in Byte /\ RdmMin \in Nat /\ RdmMin > 2 /\ RdmSize \in Nat
  BY ByteLine, ByteFacts, ReceiveAssumption DEF IInv
<1>1. /\ rdm' \in Rdm /\ rdm'.index = 1 /\ ~rdm'.end /\ rdm'.data[RdmMin] = Zero
      /\ state' = "kRdmdisc" /\ dmx' = dmx /\ counted' = counted
  BY <1>0, RdmStartFacts DEF States
<1>2. PacketInv'
  BY <1>1, ByteKeepsPacket
<1>3. Request'.kind = "rdm" => ~Holds(rdm'.data, Request')
  BY <1>1, TooShort DEF Rdm, Request
<1>4. RequestInv'
  BY <1>0, <1>1, <1>3, ByteLine, ByteNoRequest
     DEF RequestInv, Receiving, Discovering, Received
<1>5. TypeOK'
  BY <1>1, ByteLine DEF IInv, TypeOK, States
<1>6. LineInv' /\ OneBuffer'
  BY <1>1, ByteLine DEF IInv, LineInv, OneBuffer
<1> QED
  BY <1>2, <1>4, <1>5, <1>6 DEF IInv

\* The byte behind a break.
LEMMA ByteStart ==
  ASSUME PromptReader, IInv, NextByte, state = "kDmxBreak",
         StartCode(0, At(line.message, line.next)), active' = active
  PROVE  IInv'
<1> DEFINE c == At(line.message, line.next)
           m == line.message
<1>0. TypeOK /\ c \in Byte /\ RdmMin \in Nat /\ RdmMin > 2 /\ RdmSize \in Nat
      /\ RdmSize >= RdmMin + 2 /\ Channels \in Nat /\ Channels >= 1
  BY ByteLine, ByteFacts, ReceiveAssumption DEF IInv
<1>1. line.next = 0
  BY ByteLine DEF IInv, LineInv, Quiet, Over
<1>2. /\ ~Pending /\ ~dmx[0].full /\ reader.at \in {"available", "receive"}
      /\ reader'.at \in {"available", "receive"} /\ line'.next = 1 /\ line'.message = m
      /\ ~line'.idle /\ m \in Sent
  BY <1>1, ByteLine
<1>3. listening
  BY DEF IInv, LineInv
<1>4. c.message = m /\ c.at = 0 /\ StartCodes(c) = {m.kind}
  BY <1>1, <1>2, AtFacts, SentFacts DEF StartCodes, Kinds
<1>5. dmx \in [{0, 1} -> Buffer] /\ rdm \in Rdm /\ active = 0 /\ counted \in BOOLEAN
      /\ ~dmx[1].full /\ dmx[0] \in Buffer
  BY DEF IInv, TypeOK, OneBuffer
<1>6. CASE m.kind = "dmx" /\ DmxStart(0, c)
  <2>3. /\ dmx' \in [{0, 1} -> Buffer] /\ dmx'[0].slots = 1 /\ ~dmx'[0].full
        /\ dmx'[0].data[0] = c /\ dmx'[1] = dmx[1]
    BY <1>0, <1>6, DmxStartFacts
  <2>4. state' = "kDmxData" /\ counted' = TRUE /\ rdm' = rdm
    BY <1>6 DEF DmxStart
  <2>5. Packet' = m /\ BeginsWith(dmx[0].slots)'
    BY <1>1, <1>4, <1>6, <2>3 DEF Packet, BeginsWith
  <2>6. PacketInv'
    BY <1>0, <1>2, <1>3, <2>3, <2>4, <2>5, ByteLine DEF PacketInv, Collecting, Complete, Taken
  <2>7. RequestInv'
    BY <2>4, ByteNoRequest DEF RequestInv, Receiving, Discovering
  <2>8. TypeOK'
    BY <1>5, <2>3, <2>4, ByteLine DEF IInv, TypeOK, States
  <2>9. LineInv' /\ OneBuffer'
    BY <1>3, <1>5, <2>3, <2>4, ByteLine DEF IInv, LineInv, OneBuffer
  <2> QED
    BY <2>6, <2>7, <2>8, <2>9 DEF IInv
<1>7. CASE m.kind = "rdm" /\ RdmStart(c, "kRdmData")
  <2>1. /\ rdm' \in Rdm /\ rdm'.index = 1 /\ ~rdm'.end /\ rdm'.data[0] = c
        /\ state' = "kRdmData" /\ dmx' = dmx /\ counted' = counted
    BY <1>0, <1>7, RdmStartFacts DEF States
  <2>2. PacketInv'
    BY <2>1, ByteKeepsPacket
  <2>3. Request' = m /\ ~Pending'
    BY <1>2, <1>4, <2>1 DEF Request, Pending
  <2>4. m.length >= RdmMin
    BY <1>0, <1>2, <1>7, SentFacts
  <2>5. RequestInv'
    <3>1. 1 < m.length
      BY <1>0, <1>2, <1>7, SentFacts
    <3>2. Receiving'
      BY <1>0, <1>2, <1>3, <1>7, <2>1, <2>3, <3>1, ByteLine DEF Receiving
    <3>3. Discovering' /\ Received'
      BY <1>2, <2>1, <2>3 DEF Discovering, Received
    <3> QED
      BY <3>2, <3>3 DEF RequestInv
  <2>6. TypeOK'
    BY <1>5, <2>1, ByteLine DEF IInv, TypeOK, States
  <2>7. LineInv' /\ OneBuffer'
    BY <1>3, <1>5, <2>1, ByteLine DEF IInv, LineInv, OneBuffer
  <2> QED
    BY <2>2, <2>5, <2>6, <2>7 DEF IInv
<1>8. CASE NoStart(0)
  <2>1. dmx' = [dmx EXCEPT ![0].slots = 0, ![0].full = FALSE]
        /\ rdm' = [rdm EXCEPT !.index = 0, !.end = FALSE]
        /\ state' = "kIdle" /\ counted' = counted
    BY <1>8 DEF NoStart
  <2>2. dmx' \in [{0, 1} -> Buffer] /\ ~dmx'[0].full /\ dmx'[1] = dmx[1]
    <3> DEFINE b == [dmx[0] EXCEPT !.slots = 0, !.full = FALSE]
    <3>1. 0 \in 0 .. (Channels + 1) /\ FALSE \in BOOLEAN
      BY <1>0
    <3>2. b \in Buffer
      BY <1>5, <3>1, BufferType DEF Buffer
    <3>3. dmx' = [dmx EXCEPT ![0] = b]
      BY <1>5, <2>1
    <3>4. ~b.full
      BY <1>5 DEF Buffer
    <3> HIDE DEF b
    <3> QED
      BY <1>5, <3>2, <3>3, <3>4
  <2>3. rdm' \in Rdm /\ ~rdm'.end
    BY <1>5, <2>1 DEF Rdm
  <2>4. PacketInv'
    BY <1>2, <2>1, <2>2 DEF PacketInv, Collecting, Complete, Taken
  <2>5. RequestInv'
    BY <1>2, <2>1, <2>3 DEF RequestInv, Receiving, Discovering, Received, Pending
  <2>6. TypeOK'
    BY <1>5, <2>1, <2>2, <2>3, ByteLine DEF IInv, TypeOK, States
  <2>7. LineInv' /\ OneBuffer'
    BY <1>3, <1>5, <2>1, <2>2, ByteLine DEF IInv, LineInv, OneBuffer
  <2> QED
    BY <2>4, <2>5, <2>6, <2>7 DEF IInv
<1> QED
  BY <1>4, <1>6, <1>7, <1>8 DEF StartCode

\* Byte c is put behind those of the RDM message: they are not one message any
\* more, or the line is at this very byte of it.
LEMMA RdmAppend ==
  ASSUME PromptReader, IInv, NextByte,
         state \in {"kRdmData", "kRdmChecksumh", "kRdmChecksuml"},
         NEW data,
         data = [rdm.data EXCEPT ![rdm.index] = At(line.message, line.next)]
  PROVE  /\ data \in [0 .. RdmSize -> Byte] /\ data[0] = rdm.data[0]
         /\ \/ StrayIn(data, rdm.index + 1, Request)
            \/ /\ ~Stray /\ ~StrayIn(data, rdm.index + 1, Request)
               /\ line.message = Request /\ line.next = rdm.index
<1> DEFINE c == At(line.message, line.next)
           n == rdm.index
<1>1. /\ Request \in Sent /\ Request.kind = "rdm" /\ n \in 1 .. RdmSize
      /\ Stray \/ Quiet \/ (line.message = Request /\ line.next = n)
      /\ Stray \/ n <= Request.length + 1
  <2>1. /\ Request \in Sent /\ Request.kind = "rdm" /\ n \in 1 .. RdmSize
        /\ Stray \/ Quiet \/ (line.message = Request /\ line.next = n)
    BY DEF IInv, RequestInv, Receiving
  <2>2. Request.length \in Nat
    BY <2>1, SentFacts
  <2>3. \/ Stray
        \/ state = "kRdmData" /\ n < Request.length
        \/ state = "kRdmChecksumh" /\ n = Request.length
        \/ state = "kRdmChecksuml" /\ n = Request.length + 1
    BY DEF IInv, RequestInv, Receiving
  <2>4. Stray \/ n <= Request.length + 1
    BY <2>1, <2>2, <2>3
  <2> QED
    BY <2>1, <2>4
<1>2. rdm.data \in [0 .. RdmSize -> Byte]
  BY DEF IInv, TypeOK, Rdm
<1>3. RdmSize \in Nat /\ c \in Byte
  BY ReceiveAssumption, ByteLine, ByteFacts
<1>4. /\ data \in [0 .. RdmSize -> Byte] /\ data[n] = c
      /\ \A i \in 0 .. (n - 1) : data[i] = rdm.data[i]
  BY <1>1, <1>2, <1>3
<1>5. data[0] = rdm.data[0]
  BY <1>1, <1>4
<1>6. CASE Stray
  BY <1>1, <1>4, <1>6 DEF Stray, StrayIn
<1>7. CASE ~Stray /\ Quiet
  <2>1. line.next = 0
    BY <1>7, ByteLine DEF Quiet, Over
  <2>2. n < Bytes(Request)
    BY <1>1, <1>7, SentFacts
  <2>3. c.at = 0
    BY <2>1, AtFacts
  <2>4. At(Request, n).at = n
    BY AtFacts
  <2>5. data[n] # At(Request, n)
    BY <1>1, <1>4, <2>3, <2>4
  <2> QED
    BY <1>1, <1>4, <1>5, <2>2, <2>5 DEF StrayIn
<1>8. CASE ~Stray /\ line.message = Request /\ line.next = n
  BY <1>1, <1>4, <1>5, <1>8 DEF StrayIn, Stray
<1> QED
  BY <1>1, <1>6, <1>7, <1>8

LEMMA RdmType ==
  ASSUME rdm \in Rdm, NEW data \in [0 .. RdmSize -> Byte], NEW n \in Nat
  PROVE  /\ [rdm EXCEPT !.data = data, !.index = n] \in Rdm
         /\ [rdm EXCEPT !.data = data, !.end = TRUE] \in Rdm
         /\ [rdm EXCEPT !.index = n, !.end = FALSE] \in Rdm
         /\ [rdm EXCEPT !.end = TRUE] \in Rdm
<1>1. TRUE \in BOOLEAN /\ FALSE \in BOOLEAN
  OBVIOUS
<1> QED
  BY <1>1 DEF Rdm

LEMMA ByteRdm ==
  ASSUME PromptReader, IInv, NextByte, state = "kRdmData",
         RdmByte(At(line.message, line.next)), active' = active
  PROVE  IInv'
<1> DEFINE c == At(line.message, line.next)
           n == rdm.index + 1
           data == [rdm.data EXCEPT ![rdm.index] = c]
           m == Request
<1>1. /\ listening /\ ~Pending /\ m.kind = "rdm" /\ m \in Sent /\ rdm.index \in 1 .. RdmSize
      /\ Stray \/ rdm.index < m.length
  BY DEF IInv, RequestInv, Receiving
<1>2. rdm \in Rdm /\ RdmMin \in Nat /\ RdmMin > 2 /\ RdmSize \in Nat
      /\ RdmSize >= RdmMin + 2 /\ m.length \in RdmMin .. (RdmSize - 2)
      /\ Bytes(m) = m.length + 2
  BY <1>1, SentFacts, ReceiveAssumption DEF IInv, TypeOK, Bytes
<1>3. /\ data \in [0 .. RdmSize -> Byte] /\ data[0] = rdm.data[0]
      /\ \/ StrayIn(data, n, m)
         \/ ~Stray /\ ~StrayIn(data, n, m) /\ line.message = m /\ line.next = rdm.index
  BY RdmAppend
<1>4. PICK length \in MessageLengths(data[2]) :
        state' = IF n >= RdmMin /\ n <= RdmSize /\ n = length
                 THEN "kRdmChecksumh"
                 ELSE IF n > RdmSize THEN "kIdle" ELSE state
  BY DEF RdmByte
<1>5. rdm' = [rdm EXCEPT !.data = data, !.index = n] /\ dmx' = dmx /\ counted' = counted
  BY DEF RdmByte
<1> HIDE DEF data
<1>6. /\ rdm' \in Rdm /\ rdm'.data = data /\ rdm'.index = n /\ rdm'.end = rdm.end
  <2>1. n \in Nat
    BY <1>1, <1>2
  <2>2. rdm' \in Rdm
    BY <1>2, <1>3, <1>5, <2>1, RdmType
  <2> QED
    BY <1>2, <1>5, <2>2 DEF Rdm
<1>7. Request' = m /\ ~Pending' /\ Stray' = StrayIn(data, n, m)
  BY <1>1, <1>3, <1>6, ByteLine DEF Request, Pending, Stray
<1>8. length <= RdmSize - 2
  <2>1. data[2] \in Byte
    BY <1>2, <1>3
  <2>2. data[2].message.kind = "rdm" => data[2].message \in Sent
    BY <2>1 DEF Byte, NoMessage
  <2> QED
    BY <1>2, <2>2, SentFacts DEF MessageLengths
<1>9. ASSUME ~StrayIn(data, n, m), n >= RdmMin  PROVE length = m.length
  <2>1. 2 < Bytes(m) /\ 2 \in 0 .. (n - 1)
    BY <1>1, <1>2, <1>9
  <2>2. data[2] = At(m, 2)
    BY <1>9, <2>1 DEF StrayIn
  <2>3. data[2].message = m /\ data[2].at = 2
    BY <2>2, AtFacts
  <2> QED
    BY <1>1, <2>3 DEF MessageLengths
<1>10. Stray' \/ Quiet' \/ (line'.message = Request' /\ line'.next = rdm'.index)
  BY <1>3, <1>6, <1>7, ByteLine
<1>11. Receiving'
  <2>1. CASE state' = "kRdmChecksumh"
    <3>1. n = length /\ n >= RdmMin
      BY <1>4, <2>1
    <3>2. Stray' \/ n = m.length
      BY <1>7, <1>9, <3>1
    <3>3. n \in 1 .. RdmSize /\ n <= RdmSize - 2
      BY <1>1, <1>2, <1>8, <3>1
    <3> QED
      BY <1>1, <1>6, <1>7, <1>10, <2>1, <3>2, <3>3, ByteLine DEF Receiving
  <2>2. CASE state' = "kRdmData"
    <3>1. n <= RdmSize /\ ~(n >= RdmMin /\ n = length)
      BY <1>1, <1>2, <1>4, <2>2
    <3>2. Stray' \/ n < m.length
      BY <1>1, <1>2, <1>3, <1>7, <1>9, <3>1
    <3>3. n \in 1 .. RdmSize
      BY <1>1, <1>2, <3>1
    <3> QED
      BY <1>1, <1>6, <1>7, <1>10, <2>2, <3>2, <3>3, ByteLine DEF Receiving
  <2>3. CASE state' = "kIdle"
    BY <2>3 DEF Receiving
  <2> QED
    BY <1>4, <2>1, <2>2, <2>3
<1>12. state' \in {"kRdmData", "kRdmChecksumh", "kIdle"}
  BY <1>4
<1>13. Discovering' /\ Received'
  <2>1. reader'.at # "handle"
    BY <1>7 DEF Pending
  <2> QED
    BY <1>7, <1>12, <2>1 DEF Discovering, Received
<1>14. PacketInv'
  BY <1>5, <1>12, ByteKeepsPacket
<1>15. TypeOK'
  BY <1>5, <1>6, <1>12, ByteLine DEF IInv, TypeOK, States
<1>16. LineInv' /\ OneBuffer'
  BY <1>1, <1>5, <1>12, ByteLine DEF IInv, LineInv, OneBuffer
<1> QED
  BY <1>11, <1>13, <1>14, <1>15, <1>16 DEF IInv, RequestInv

LEMMA ByteChecksumh ==
  ASSUME PromptReader, IInv, NextByte, state = "kRdmChecksumh",
         RdmChecksumh(At(line.message, line.next)), active' = active
  PROVE  IInv'
<1> DEFINE c == At(line.message, line.next)
           n == rdm.index + 1
           data == [rdm.data EXCEPT ![rdm.index] = c]
           m == Request
<1>1. /\ listening /\ ~Pending /\ m.kind = "rdm" /\ m \in Sent /\ rdm.index \in 1 .. RdmSize
      /\ rdm.index <= RdmSize - 2 /\ (Stray \/ rdm.index = m.length)
  BY DEF IInv, RequestInv, Receiving
<1>2. rdm \in Rdm /\ RdmSize \in Nat
  BY ReceiveAssumption DEF IInv, TypeOK
<1>3. /\ data \in [0 .. RdmSize -> Byte] /\ data[0] = rdm.data[0]
      /\ \/ StrayIn(data, n, m)
         \/ ~Stray /\ ~StrayIn(data, n, m) /\ line.message = m /\ line.next = rdm.index
  BY RdmAppend
<1>5. /\ rdm' = [rdm EXCEPT !.data = data, !.index = n] /\ dmx' = dmx
      /\ counted' = counted /\ state' = "kRdmChecksuml"
  BY DEF RdmChecksumh
<1> HIDE DEF data
<1>6. /\ rdm' \in Rdm /\ rdm'.data = data /\ rdm'.index = n /\ rdm'.end = rdm.end
  <2>1. n \in Nat
    BY <1>1, <1>2
  <2>2. rdm' \in Rdm
    BY <1>2, <1>3, <1>5, <2>1, RdmType
  <2> QED
    BY <1>2, <1>5, <2>2 DEF Rdm
<1>7. Request' = m /\ ~Pending' /\ Stray' = StrayIn(data, n, m)
  BY <1>1, <1>3, <1>6, ByteLine DEF Request, Pending, Stray
<1>10. Stray' \/ Quiet' \/ (line'.message = Request' /\ line'.next = rdm'.index)
  BY <1>3, <1>6, <1>7, ByteLine
<1>11. n \in 1 .. RdmSize /\ n <= RdmSize - 1 /\ (Stray' \/ n = m.length + 1)
  BY <1>1, <1>2, <1>3, <1>7
<1>12. Receiving'
  BY <1>1, <1>5, <1>6, <1>7, <1>10, <1>11, ByteLine DEF Receiving
<1>13. Discovering' /\ Received'
  <2>1. reader'.at # "handle"
    BY <1>7 DEF Pending
  <2> QED
    BY <1>5, <1>7, <2>1 DEF Discovering, Received
<1>14. PacketInv'
  BY <1>5, ByteKeepsPacket
<1>15. TypeOK'
  BY <1>5, <1>6, ByteLine DEF IInv, TypeOK, States
<1>16. LineInv' /\ OneBuffer'
  BY <1>1, <1>5, ByteLine DEF IInv, LineInv, OneBuffer
<1> QED
  BY <1>12, <1>13, <1>14, <1>15, <1>16 DEF IInv, RequestInv

\* The last byte: what is put together now is the message on the line or not
\* a message.
LEMMA ByteChecksuml ==
  ASSUME PromptReader, IInv, NextByte, state = "kRdmChecksuml",
         RdmChecksuml(At(line.message, line.next)), active' = active
  PROVE  IInv'
<1> DEFINE c == At(line.message, line.next)
           n == rdm.index + 1
           data == [rdm.data EXCEPT ![rdm.index] = c]
           m == Request
<1>1. /\ listening /\ ~Pending /\ m.kind = "rdm" /\ m \in Sent /\ rdm.index \in 1 .. RdmSize
      /\ rdm.index <= RdmSize - 1 /\ (Stray \/ rdm.index = m.length + 1)
  BY DEF IInv, RequestInv, Receiving
<1>2. rdm \in Rdm /\ RdmSize \in Nat /\ Bytes(m) = m.length + 2 /\ m.length \in Nat
  BY <1>1, SentFacts, ReceiveAssumption DEF IInv, TypeOK, Bytes
<1>3. /\ data \in [0 .. RdmSize -> Byte] /\ data[0] = rdm.data[0]
      /\ \/ StrayIn(data, n, m)
         \/ ~Stray /\ ~StrayIn(data, n, m) /\ line.message = m /\ line.next = rdm.index
  BY RdmAppend
<1>5. /\ rdm' = [rdm EXCEPT !.data = data, !.end = TRUE] /\ dmx' = dmx
      /\ counted' = counted /\ state' = "kIdle"
  BY DEF RdmChecksuml
<1> HIDE DEF data
<1>6. /\ rdm' \in Rdm /\ rdm'.data = data
  BY <1>1, <1>2, <1>3, <1>5, RdmType DEF Rdm
<1>7. Request' = m
  BY <1>3, <1>6 DEF Request
<1>8. StrayIn(data, n, m) => ~Holds(data, m)
  BY <1>1, <1>2 DEF StrayIn, Holds
<1>9. reader'.at \notin {"check", "handle"}
  BY <1>1, ByteLine DEF Pending
<1>10. Received'
  <2>1. SUFFICES ASSUME Holds(data, m)  PROVE Quiet' /\ due' = m
    BY <1>6, <1>7, <1>9 DEF Received
  <2>2. ~Stray /\ line.message = m /\ line.next = rdm.index
    BY <1>3, <1>8, <2>1
  <2>3. line.next + 1 = Bytes(line.message)
    BY <1>1, <1>2, <2>2
  <2>4. due' = m
    BY <1>1, <2>2, <2>3 DEF NextByte
  <2>5. Quiet'
    BY <2>3, ByteLine DEF Quiet, Over
  <2> QED
    BY <1>9, <2>4, <2>5
<1>11. Receiving' /\ Discovering'
  BY <1>5 DEF Receiving, Discovering
<1>12. PacketInv'
  BY <1>5, ByteKeepsPacket
<1>13. TypeOK'
  BY <1>5, <1>6, ByteLine DEF IInv, TypeOK, States
<1>14. LineInv' /\ OneBuffer'
  BY <1>1, <1>5, ByteLine DEF IInv, LineInv, OneBuffer
<1> QED
  BY <1>10, <1>11, <1>12, <1>13, <1>14 DEF IInv, RequestInv

LEMMA ByteDisc ==
  ASSUME PromptReader, IInv, NextByte, listening, state = "kRdmdisc",
         RdmDisc(At(line.message, line.next)), active' = active
  PROVE  IInv'
<1> DEFINE c == At(line.message, line.next)
<1>1. /\ rdm \in Rdm /\ RdmSize \in Nat /\ RdmMin \in Nat /\ RdmMin < RdmSize
      /\ rdm.index <= RdmMin /\ rdm.data[RdmMin] = Zero /\ c \in Byte
  <2>1. c \in Byte
    BY ByteLine, ByteFacts
  <2> QED
    BY <2>1, ReceiveAssumption DEF IInv, TypeOK, RequestInv, Discovering
<1>2. state' = "kRdmdisc" /\ dmx' = dmx /\ counted' = counted
  BY DEF RdmDisc
<1>3. rdm' \in Rdm /\ rdm'.data[RdmMin] = Zero /\ rdm'.index <= RdmMin
  <2>1. CASE rdm.index < RdmMin /\ ~rdm.end
    <3> DEFINE data == [rdm.data EXCEPT ![rdm.index] = c]
    <3>1. rdm' = [rdm EXCEPT !.data = data, !.index = rdm.index + 1]
      BY <2>1 DEF RdmDisc
    <3>2. data \in [0 .. RdmSize -> Byte] /\ data[RdmMin] = Zero
          /\ rdm.index + 1 \in Nat /\ rdm.index + 1 <= RdmMin
      BY <1>1, <2>1 DEF Rdm
    <3> HIDE DEF data
    <3>3. rdm' \in Rdm
      BY <1>1, <3>1, <3>2, RdmType
    <3> QED
      BY <1>1, <3>1, <3>2, <3>3 DEF Rdm
  <2>2. CASE ~(rdm.index < RdmMin /\ ~rdm.end)
    BY <1>1, <2>2 DEF RdmDisc
  <2> QED
    BY <2>1, <2>2
<1>4. Request'.kind = "rdm" => ~Holds(rdm'.data, Request')
  BY <1>3, TooShort DEF Rdm, Request
<1>5. RequestInv'
  BY <1>2, <1>3, <1>4, ByteLine, ByteNoRequest
     DEF RequestInv, Receiving, Discovering, Received
<1>6. PacketInv'
  BY <1>2, ByteKeepsPacket
<1>7. TypeOK'
  BY <1>2, <1>3, ByteLine DEF IInv, TypeOK, States
<1>8. LineInv' /\ OneBuffer'
  BY <1>2, ByteLine DEF IInv, LineInv, OneBuffer
<1> QED
  BY <1>5, <1>6, <1>7, <1>8 DEF IInv

LEMMA NextByteInv == PromptReader /\ IInv /\ NextByte => IInv'
<1> SUFFICES ASSUME PromptReader, IInv, NextByte  PROVE IInv'
  OBVIOUS
<1> DEFINE c == At(line.message, line.next)
<1>1. CASE ~listening
  BY <1>1, ByteUnheard
<1>2. CASE listening
  <2>1. ByteIn(state, 0, c) /\ active' = active
    BY <1>2 DEF NextByte, Hear, ByteIrq, IInv, OneBuffer
  <2> QED
    BY <1>2, <2>1, ByteIdle, ByteStart, ByteDmxSlot, ByteRdm, ByteChecksumh,
       ByteChecksuml, ByteDisc DEF ByteIn
<1> QED
  BY <1>1, <1>2

-----------------------------------------------------------------------------
(***************************************************************************)
(* The rest of the line: breaks, pauses, and messages cut short            *)
(***************************************************************************)
\* What these steps do to the line.
LineStep ==
  /\ line' \in Line
  /\ line'.next \in 0 .. Bytes(line'.message)
  /\ reader' \in Reader
  /\ reader'.at = reader.at /\ reader'.buffer = reader.buffer
  /\ reader'.slots = reader.slots /\ reader'.length = reader.length
  /\ listening' = listening /\ faults' \in 0 .. Faults
  /\ output' = output /\ rate' = rate /\ due' = due
  /\ Quiet => Quiet'
  /\ \/ line'.next = 0 /\ line.next = Bytes(line.message)
     \/ ~line'.whole /\ line'.message = line.message /\ (Over' \/ line'.next = line.next)
     \/ /\ line'.message = line.message /\ line'.next = line.next
        /\ line'.whole => line.whole

LEMMA LineSteps ==
  ASSUME TypeOK, LineInv,
         (\E m \in Messages : StartMessage(m)) \/ GoIdle \/ Pause \/ CutShort
  PROVE  LineStep
<1>0. /\ line \in Line
      /\ reader \in Reader
      /\ line.next \in 0 .. Bytes(line.message) /\ listening \in BOOLEAN
      /\ faults \in 0 .. Faults /\ Bytes(line.message) \in Nat /\ Faults \in Nat
  BY SentFacts, ReceiveAssumption DEF TypeOK, LineInv, Line
<1>1. ASSUME Interrupts \/ reader' = reader
      PROVE  /\ reader' \in Reader
             /\ reader'.at = reader.at /\ reader'.buffer = reader.buffer
             /\ reader'.slots = reader.slots /\ reader'.length = reader.length
  BY <1>0, <1>1 DEF Interrupts, Reader
<1>2. ASSUME NEW m \in Messages, StartMessage(m)  PROVE LineStep
  <2> DEFINE n == [kind |-> m.kind, length |-> m.length, id |-> 1 - line.message.id]
  <2>1. n \in Sent /\ Bytes(n) \in Nat
    BY NextSent, SentFacts
  <2>2. line' = [message |-> n, next |-> 0, whole |-> listening, idle |-> m.kind = "reply"]
    BY <1>2 DEF StartMessage
  <2> HIDE DEF n
  <2>3. (m.kind = "reply") \in BOOLEAN
    OBVIOUS
  <2>4. line' \in Line
    BY <1>0, <2>1, <2>2, <2>3 DEF Line
  <2>5. line'.next = 0 /\ line'.message = n
    BY <2>2
  <2>6. line'.next \in 0 .. Bytes(line'.message)
    BY <2>1, <2>5
  <2>7. line.next = Bytes(line.message)
    BY <1>2 DEF StartMessage, Over
  <2> QED
    BY <1>0, <1>1, <1>2, <2>4, <2>5, <2>6, <2>7 DEF StartMessage, LineStep, Quiet
<1>3. CASE GoIdle
  <2>1. line' = [line EXCEPT !.idle = TRUE, !.whole = @ /\ listening]
    BY <1>3 DEF GoIdle
  <2>2. (line.whole /\ listening) \in BOOLEAN /\ TRUE \in BOOLEAN
    BY <1>0
  <2>3. line' \in Line
    BY <1>0, <2>1, <2>2 DEF Line
  <2>4. line'.message = line.message /\ line'.next = line.next /\ (line'.whole => line.whole)
    BY <1>0, <2>1 DEF Line
  <2> QED
    BY <1>0, <1>1, <1>3, <2>3, <2>4 DEF GoIdle, LineStep, Quiet, Over
<1>4. CASE Pause
  <2>1. line' = [line EXCEPT !.idle = TRUE, !.whole = FALSE]
    BY <1>4 DEF Pause
  <2>2. TRUE \in BOOLEAN /\ FALSE \in BOOLEAN
    OBVIOUS
  <2>3. line' \in Line
    BY <1>0, <2>1, <2>2 DEF Line
  <2>4. line'.message = line.message /\ line'.next = line.next /\ ~line'.whole
    BY <1>0, <2>1 DEF Line
  <2>5. faults' \in 0 .. Faults
    BY <1>0, <1>4 DEF Pause
  <2> QED
    BY <1>0, <1>1, <1>4, <2>3, <2>4, <2>5 DEF Pause, LineStep, Quiet, Over
<1>5. CASE CutShort
  <2>1. line' = [line EXCEPT !.next = Bytes(line.message), !.whole = FALSE]
    BY <1>5 DEF CutShort
  <2>2. FALSE \in BOOLEAN
    OBVIOUS
  <2>3. line' \in Line
    BY <1>0, <2>1, <2>2 DEF Line
  <2>4. line'.message = line.message /\ line'.next = Bytes(line.message) /\ ~line'.whole
    BY <1>0, <2>1 DEF Line
  <2>5. faults' \in 0 .. Faults
    BY <1>0, <1>5 DEF CutShort
  <2> QED
    BY <1>0, <1>1, <1>5, <2>3, <2>4, <2>5 DEF CutShort, LineStep, Quiet, Over
<1> QED
  BY <1>2, <1>3, <1>4, <1>5

LEMMA LineKeepsPacket ==
  ASSUME IInv, LineStep, dmx' = dmx, state' # "kDmxData"
  PROVE  PacketInv'
<1>1. Packet' = Packet /\ \A k : BeginsWith(k) => BeginsWith(k)'
  BY DEF Packet, BeginsWith
<1>2. ASSUME NEW k, AllOf(k)  PROVE AllOf(k)'
  BY <1>1, <1>2 DEF AllOf, LineStep
<1>3. Collecting'
  BY DEF Collecting
<1>4. Complete'
  BY <1>1, <1>2 DEF IInv, PacketInv, Complete
<1>5. Taken'
  BY <1>1, <1>2 DEF IInv, PacketInv, Taken, LineStep
<1> QED
  BY <1>3, <1>4, <1>5 DEF PacketInv

LEMMA LineKeepsRequest ==
  ASSUME IInv, LineStep, rdm' = rdm,
         state' = state \/ state' \in {"kIdle", "kDmxBreak", "kDmxData"}
  PROVE  RequestInv'
<1>1. Request' = Request /\ Stray' = Stray /\ Pending' = Pending
  BY DEF Request, Stray, Pending, LineStep
<1>2. Receiving'
  <2>1. SUFFICES ASSUME state \in {"kRdmData", "kRdmChecksumh", "kRdmChecksuml"},
                        state' = state
                 PROVE  Receiving'
    BY DEF Receiving
  <2>2. line.message = Request /\ line.next = rdm.index
          => Quiet' \/ (line'.message = Request /\ line'.next = rdm.index)
    BY DEF LineStep, Quiet
  <2> QED
    BY <1>1, <2>1, <2>2 DEF IInv, RequestInv, Receiving, LineStep
<1>3. Discovering'
  BY DEF IInv, RequestInv, Discovering
<1>4. Received'
  BY <1>1 DEF IInv, RequestInv, Received, LineStep
<1> QED
  BY <1>2, <1>3, <1>4 DEF RequestInv

\* A break never finds a packet that is still being received: it comes behind
\* the idle line, or behind a packet of all slots.
LEMMA StartMessageInv ==
  ASSUME PromptReader, IInv, NEW m \in Messages, StartMessage(m)
  PROVE  IInv'
<1>0. LineStep /\ line'.next = 0
  BY LineSteps DEF StartMessage, IInv
<1>1. state # "kDmxData"
  <2>1. SUFFICES ASSUME state = "kDmxData"  PROVE FALSE
    OBVIOUS
  <2>2. /\ ~line.idle /\ dmx[0].slots \in 1 .. Channels
        /\ dmx[0].slots = line.next \/ ~line.whole
    BY <2>1 DEF IInv, PacketInv, Collecting
  <2>3. /\ line.next = Bytes(line.message) /\ line.whole
        /\ line.message.kind = "dmx" /\ line.message.length > Channels
    BY <2>2 DEF StartMessage, Over
  <2> QED
    BY <2>2, <2>3, ReceiveAssumption DEF Bytes
<1>2. /\ dmx' = dmx /\ active' = active /\ rdm' = rdm /\ counted' = counted
      /\ state' = state \/ (state' = "kDmxBreak" /\ listening)
  BY DEF StartMessage, Hear, BreakIrq, BreakIrqSingle, PromptReader, irqVars
<1>3. PacketInv' /\ RequestInv'
  BY <1>0, <1>1, <1>2, LineKeepsPacket, LineKeepsRequest
<1>4. TypeOK'
  BY <1>0, <1>2 DEF IInv, TypeOK, LineStep, States
<1>5. LineInv' /\ OneBuffer'
  BY <1>0, <1>2 DEF IInv, LineInv, OneBuffer, LineStep, Quiet
<1> QED
  BY <1>3, <1>4, <1>5 DEF IInv

LEMMA CutShortInv ==
  ASSUME PromptReader, IInv, CutShort
  PROVE  IInv'
<1>0. LineStep
  BY LineSteps DEF IInv
<1>1. /\ dmx' = dmx /\ active' = active /\ rdm' = rdm /\ counted' = counted
      /\ state' = state /\ reader' = reader
  BY DEF CutShort, irqVars
<1>2. state # "kDmxData" => PacketInv'
  BY <1>0, <1>1, LineKeepsPacket
<1>3. ASSUME state = "kDmxData"  PROVE PacketInv'
  <2>1. /\ line'.message = line.message /\ line'.next = Bytes(line.message)
        /\ ~line'.whole /\ line'.idle = line.idle
    BY DEF CutShort, IInv, TypeOK, Line
  <2>2. line.next \in 0 .. Bytes(line.message) /\ Bytes(line.message) \in Nat
    BY SentFacts DEF IInv, TypeOK, LineInv, Line
  <2>3. Packet' = Packet /\ \A k : BeginsWith(k) => BeginsWith(k)'
    BY <1>1 DEF Packet, BeginsWith
  <2>4. Collecting'
    BY <1>0, <1>1, <1>3, <2>1, <2>2, <2>3, ReceiveAssumption
       DEF IInv, PacketInv, Collecting, LineStep, Over
  <2>5. Complete' /\ Taken'
    BY <1>1, <1>3 DEF IInv, PacketInv, Collecting, Complete, Taken
  <2> QED
    BY <2>4, <2>5 DEF PacketInv
<1>4. RequestInv'
  BY <1>0, <1>1, LineKeepsRequest
<1>5. TypeOK'
  BY <1>0, <1>1 DEF IInv, TypeOK, LineStep
<1>6. LineInv' /\ OneBuffer'
  BY <1>0, <1>1 DEF IInv, LineInv, OneBuffer, LineStep
<1> QED
  BY <1>2, <1>3, <1>4, <1>5, <1>6 DEF IInv

\* The idle line, behind a message or in the middle of it.
LEMMA IdleInv ==
  ASSUME PromptReader, IInv, GoIdle \/ Pause
  PROVE  IInv'
<1>0. LineStep /\ dmx \in [{0, 1} -> Buffer] /\ dmx[0] \in Buffer /\ active = 0
      /\ ~dmx[1].full /\ rdm \in Rdm /\ RdmMin \in Nat /\ RdmMin > 2 /\ RdmSize \in Nat
      /\ RdmSize >= RdmMin + 2
  BY LineSteps, ReceiveAssumption DEF IInv, TypeOK, OneBuffer
<1>1. active' = active /\ counted' = counted
  BY DEF GoIdle, Pause, Hear, IdleIrq, irqVars
<1>2. CASE /\ dmx' = dmx /\ rdm' = rdm /\ state' = state /\ state # "kDmxData"
  <2>1. PacketInv' /\ RequestInv'
    BY <1>0, <1>2, LineKeepsPacket, LineKeepsRequest
  <2>2. TypeOK' /\ LineInv' /\ OneBuffer'
    BY <1>0, <1>1, <1>2 DEF IInv, TypeOK, LineInv, OneBuffer, LineStep
  <2> QED
    BY <2>1, <2>2 DEF IInv
<1>3. CASE /\ state = "kDmxData" /\ state' = "kIdle" /\ rdm' = rdm
           /\ dmx' = [dmx EXCEPT ![0].full = TRUE]
  <2>1. /\ dmx' \in [{0, 1} -> Buffer] /\ dmx'[0].slots = dmx[0].slots
        /\ dmx'[0].data = dmx[0].data /\ dmx'[0].full /\ dmx'[1] = dmx[1]
    <3>1. TRUE \in BOOLEAN
      OBVIOUS
    <3>2. [dmx[0] EXCEPT !.full = TRUE] \in Buffer
      BY <1>0, <3>1 DEF Buffer
    <3> QED
      BY <1>0, <1>3, <3>2 DEF Buffer
  <2>2. Packet' = Packet /\ \A k : BeginsWith(k) => BeginsWith(k)'
    BY <2>1 DEF Packet, BeginsWith
  <2>3. /\ dmx[0].slots \in 1 .. Channels /\ Packet = line.message
        /\ reader.at \notin {"take", "length", "copy"}
        /\ BeginsWith(dmx[0].slots) /\ Packet.kind = "dmx"
        /\ dmx[0].slots = line.next \/ (Over /\ ~line.whole)
    BY <1>3 DEF IInv, PacketInv, Collecting, BeginsWith
  <2>4. AllOf(dmx[0].slots)'
    <3>1. SUFFICES ASSUME line'.whole, line'.message = Packet'
                   PROVE  dmx[0].slots = Packet.length
      BY <2>1, <2>2 DEF AllOf
    <3>2. GoIdle
      BY <3>1 DEF Pause, IInv, TypeOK, Line
    <3>3. line.whole
      BY <3>1, <3>2 DEF GoIdle, IInv, TypeOK, Line
    <3>4. Over
      BY <2>3, <3>2, <3>3, ReceiveAssumption DEF GoIdle
    <3> QED
      BY <2>3, <3>3, <3>4 DEF Over, Bytes
  <2>5. PacketInv'
    BY <1>0, <1>3, <2>1, <2>2, <2>3, <2>4, ReceiveAssumption
       DEF PacketInv, Collecting, Complete, Taken, LineStep
  <2>6. RequestInv'
    BY <1>0, <1>3, LineKeepsRequest
  <2>7. TypeOK' /\ LineInv' /\ OneBuffer'
    BY <1>0, <1>1, <1>3, <2>1 DEF IInv, TypeOK, LineInv, OneBuffer, LineStep, States
  <2> QED
    BY <2>5, <2>6, <2>7 DEF IInv
<1>4. CASE /\ state = "kRdmdisc" /\ state' = "kIdle" /\ dmx' = dmx
           /\ rdm' = [rdm EXCEPT !.end = TRUE]
  <2>1. rdm' \in Rdm /\ rdm'.data = rdm.data /\ rdm'.data[RdmMin] = Zero
    BY <1>0, <1>4, RdmType DEF IInv, RequestInv, Discovering, Rdm
  <2>2. Request'.kind = "rdm" => ~Holds(rdm'.data, Request')
    BY <2>1, TooShort DEF Rdm, Request
  <2>3. reader.at # "handle"
    BY <2>1, <2>2 DEF IInv, RequestInv, Received, Request
  <2>4. RequestInv'
    BY <1>0, <1>4, <2>2, <2>3 DEF RequestInv, Receiving, Discovering, Received, LineStep
  <2>5. PacketInv'
    BY <1>0, <1>4, LineKeepsPacket
  <2>6. TypeOK' /\ LineInv' /\ OneBuffer'
    BY <1>0, <1>1, <1>4, <2>1 DEF IInv, TypeOK, LineInv, OneBuffer, LineStep, States
  <2> QED
    BY <2>4, <2>5, <2>6 DEF IInv
<1>5. \/ dmx' = dmx /\ rdm' = rdm /\ state' = state /\ state # "kDmxData"
      \/ /\ state = "kDmxData" /\ state' = "kIdle" /\ rdm' = rdm
         /\ dmx' = [dmx EXCEPT ![0].full = TRUE]
      \/ /\ state = "kRdmdisc" /\ state' = "kIdle" /\ dmx' = dmx
         /\ rdm' = [rdm EXCEPT !.end = TRUE]
  BY <1>0 DEF GoIdle, Pause, Hear, IdleIrq, irqVars, PromptReader, IInv, LineInv
<1> QED
  BY <1>2, <1>3, <1>4, <1>5

-----------------------------------------------------------------------------
(***************************************************************************)
(* The main loop, the port's direction, and the clock                      *)
(***************************************************************************)
LEMMA ReaderType ==
  ASSUME NEW r \in Reader,
         NEW place \in Places, NEW n \in 0 .. (Channels + 1)
  PROVE  /\ [r EXCEPT !.at = place] \in Reader
         /\ [r EXCEPT !.at = place, !.length = n] \in Reader
         /\ [r EXCEPT !.at = place, !.buffer = 0, !.slots = n, !.hit = FALSE] \in Reader
<1>1. FALSE \in BOOLEAN /\ 0 \in {0, 1}
  OBVIOUS
<1> QED
  BY <1>1 DEF Reader

\* What the steps of the main loop leave alone.
LEMMA MainKeeps ==
  ASSUME LineInv, MainStep
  PROVE  /\ state' = state /\ active' = active /\ counted' = counted /\ rate' = rate
         /\ listening' = listening /\ line' = line /\ faults' = faults
         /\ LineInv'
<1>1. /\ state' = state /\ active' = active /\ counted' = counted /\ rate' = rate
      /\ listening' = listening /\ line' = line /\ faults' = faults
  BY DEF MainStep, GetDmxAvailable, TakePacket, ReadLength, CopyPacket, RdmReceive,
     ClearIndex, CheckMessage, HandleMessage, irqVars
<1>2. LineInv'
  BY <1>1 DEF LineInv, Quiet, Over
<1> QED
  BY <1>1, <1>2

LEMMA MainInv == PromptReader /\ IInv /\ MainStep => IInv'
<1> SUFFICES ASSUME PromptReader, IInv, MainStep  PROVE IInv'
  OBVIOUS
<1>0. /\ reader \in Reader /\ reader.buffer = 0 /\ dmx \in [{0, 1} -> Buffer] /\ dmx[0] \in Buffer
      /\ dmx[0].slots \in 0 .. (Channels + 1) /\ ~dmx[1].full /\ rdm \in Rdm /\ active = 0
      /\ Channels \in Nat /\ due \in Sent \cup {NoMessage} /\ output \in BOOLEAN /\ rate \in BOOLEAN
  BY ReceiveAssumption DEF IInv, TypeOK, OneBuffer, Buffer
<1>places. /\ "available" \in Places /\ "take" \in Places /\ "length" \in Places
          /\ "copy" \in Places /\ "receive" \in Places /\ "clear" \in Places
          /\ "check" \in Places /\ "handle" \in Places
  BY DEF Places
<1>1. /\ state' = state /\ active' = active /\ counted' = counted /\ rate' = rate
      /\ listening' = listening /\ line' = line /\ faults' = faults
      /\ LineInv'
  BY MainKeeps DEF IInv
<1>2. ASSUME dmx' = dmx
      PROVE  /\ Packet' = Packet
             /\ \A k : BeginsWith(k)' <=> BeginsWith(k)
             /\ \A k : AllOf(k)' <=> AllOf(k)
  BY <1>1, <1>2 DEF Packet, BeginsWith, AllOf
<1>3. ASSUME rdm' = rdm  PROVE Request' = Request /\ Stray' = Stray
  BY <1>3 DEF Request, Stray
<1>4. Quiet' = Quiet
  BY <1>1 DEF Quiet, Over
<1>5. CASE GetDmxAvailable
  <2>1. dmx' = dmx /\ rdm' = rdm /\ due' = due /\ output' \in BOOLEAN
    BY <1>0, <1>5 DEF GetDmxAvailable, irqVars
  <2>2. CASE dmx[0].full
    <3>1. reader' = [reader EXCEPT !.at = "take", !.buffer = 0, !.slots = dmx[0].slots,
                                   !.hit = FALSE]
      BY <1>5, <2>2 DEF GetDmxAvailable, ReadBuffer, PromptReader
    <3>2. reader' \in Reader
      BY <1>0, <1>places, <3>1, ReaderType
    <3>3. reader'.at = "take" /\ reader'.buffer = 0 /\ reader'.slots = dmx[0].slots
      BY <1>0, <3>1
    <3>4. PacketInv'
      BY <1>1, <1>2, <2>1, <2>2, <3>3
         DEF IInv, PacketInv, Collecting, Complete, Taken, Over
    <3>5. Pending' => Pending
      BY <2>1, <3>3 DEF Pending
    <3>6. RequestInv'
      BY <1>1, <1>3, <1>4, <1>5, <2>1, <3>3, <3>5
         DEF IInv, RequestInv, Receiving, Discovering, Received, GetDmxAvailable
    <3>7. TypeOK' /\ OneBuffer'
      BY <1>0, <1>1, <2>1, <3>2, <3>3 DEF IInv, TypeOK, OneBuffer
    <3> QED
      BY <1>1, <3>4, <3>6, <3>7 DEF IInv
  <2>3. CASE ~dmx[0].full
    <3>1. reader' = [reader EXCEPT !.at = "receive"]
      BY <1>5, <2>3 DEF GetDmxAvailable, ReadBuffer, PromptReader, Go
    <3>2. reader' \in Reader
      BY <1>0, <1>places, <3>1, ReaderType
    <3>3. reader'.at = "receive" /\ reader'.buffer = 0
      BY <1>0, <3>1
    <3>4. PacketInv'
      BY <1>1, <1>2, <2>1, <2>3, <3>3
         DEF IInv, PacketInv, Collecting, Complete, Taken, Over
    <3>5. Pending' => Pending
      BY <2>1, <3>3 DEF Pending
    <3>6. RequestInv'
      BY <1>1, <1>3, <1>4, <1>5, <2>1, <3>3, <3>5
         DEF IInv, RequestInv, Receiving, Discovering, Received, GetDmxAvailable
    <3>7. TypeOK' /\ OneBuffer'
      BY <1>0, <1>1, <2>1, <3>2, <3>3 DEF IInv, TypeOK, OneBuffer
    <3> QED
      BY <1>1, <3>4, <3>6, <3>7 DEF IInv
  <2> QED
    BY <2>2, <2>3
<1>6. CASE TakePacket
  <2>1. /\ reader.at = "take" /\ rdm' = rdm /\ due' = due /\ output' = output
        /\ reader' = [reader EXCEPT !.at = "length"]
        /\ dmx' = [dmx EXCEPT ![0].slots = reader.slots - 1, ![0].full = reader.slots = 0]
    BY <1>0, <1>6 DEF TakePacket, Go
  <2>2. reader' \in Reader /\ reader'.at = "length" /\ reader'.buffer = 0
    <3>1. reader' \in Reader
      BY <1>0, <1>places, <2>1, ReaderType
    <3> QED
      BY <1>0, <2>1, <3>1 DEF Reader
  <2>3. /\ dmx[0].full /\ reader.slots = dmx[0].slots /\ state # "kDmxData"
        /\ dmx[0].slots \in 1 .. (Channels + 1)
        /\ BeginsWith(dmx[0].slots) /\ AllOf(dmx[0].slots)
    BY <2>1 DEF IInv, PacketInv, Complete, Taken
  <2>4. /\ dmx' \in [{0, 1} -> Buffer] /\ dmx'[0].slots = dmx[0].slots - 1
        /\ dmx'[0].data = dmx[0].data /\ ~dmx'[0].full /\ dmx'[1] = dmx[1]
    <3> DEFINE n == reader.slots - 1
               f == reader.slots = 0
               b == [dmx[0] EXCEPT !.slots = n, !.full = f]
    <3>1. n \in 0 .. (Channels + 1) /\ f \in BOOLEAN /\ ~f
      BY <1>0, <2>3
    <3>2. dmx[0].data \in [0 .. Channels -> Byte]
      BY <1>0 DEF Buffer
    <3>3. dmx' = [dmx EXCEPT ![0] = b]
      BY <1>0, <2>1
    <3> HIDE DEF n, f
    <3>4. b \in Buffer
      BY <1>0, <3>1, <3>2, BufferType
    <3>5. b.slots = n /\ ~b.full /\ b.data = dmx[0].data
      BY <1>0, <3>1 DEF Buffer
    <3> HIDE DEF b
    <3>6. dmx' \in [{0, 1} -> Buffer] /\ dmx'[0] = b /\ dmx'[1] = dmx[1]
      BY <1>0, <3>3, <3>4
    <3>7. n = dmx[0].slots - 1
      BY <2>3 DEF n
    <3> QED
      BY <3>5, <3>6, <3>7
  <2>5. Packet' = Packet /\ (\A k : BeginsWith(k) => BeginsWith(k)')
        /\ (\A k : AllOf(k) => AllOf(k)')
    BY <1>1, <2>4 DEF Packet, BeginsWith, AllOf
  <2>6. dmx'[0].slots + 1 = dmx[0].slots /\ dmx'[0].slots \in 0 .. Channels
    BY <1>0, <2>3, <2>4
  <2>7. BeginsWith(dmx[0].slots + 1)' /\ AllOf(dmx[0].slots + 1)'
    BY <2>3, <2>5, <2>6
  <2>8. PacketInv'
    BY <1>1, <2>2, <2>3, <2>4, <2>6, <2>7 DEF PacketInv, Collecting, Complete, Taken
  <2>9. Pending' = Pending
    BY <2>1, <2>2 DEF Pending
  <2>10. RequestInv'
    BY <1>1, <1>3, <1>4, <2>1, <2>2, <2>9
       DEF IInv, RequestInv, Receiving, Discovering, Received
  <2>11. TypeOK' /\ OneBuffer'
    BY <1>0, <1>1, <2>1, <2>2, <2>4 DEF IInv, TypeOK, OneBuffer
  <2> QED
    BY <1>1, <2>8, <2>10, <2>11 DEF IInv
<1>7. CASE ReadLength
  <2>1. /\ reader.at = "length" /\ rdm' = rdm /\ due' = due /\ output' = output /\ dmx' = dmx
        /\ reader' = [reader EXCEPT !.at = "copy", !.length = dmx[0].slots]
    BY <1>0, <1>7 DEF ReadLength, irqVars
  <2>2. reader' \in Reader
    BY <1>0, <1>places, <2>1, ReaderType
  <2>3. reader'.at = "copy" /\ reader'.buffer = 0 /\ reader'.length = dmx[0].slots
    BY <1>0, <2>1
  <2>4. PacketInv'
    BY <1>1, <1>2, <2>1, <2>3 DEF IInv, PacketInv, Collecting, Complete, Taken, Over
  <2>5. Pending' = Pending
    BY <2>1, <2>3 DEF Pending
  <2>6. RequestInv'
    BY <1>1, <1>3, <1>4, <2>1, <2>3, <2>5
       DEF IInv, RequestInv, Receiving, Discovering, Received
  <2>7. TypeOK' /\ OneBuffer'
    BY <1>0, <1>1, <2>1, <2>2, <2>3 DEF IInv, TypeOK, OneBuffer
  <2> QED
    BY <1>1, <2>4, <2>6, <2>7 DEF IInv
<1>8. CASE CopyPacket
  <2>1. /\ reader.at = "copy" /\ rdm' = rdm /\ due' = due /\ output' = TRUE /\ dmx' = dmx
        /\ reader' = Resting("receive")
    BY <1>8 DEF CopyPacket, irqVars
  <2>2. reader' \in Reader
    BY <1>0, <1>places, <2>1 DEF Resting, Reader
  <2>3. reader'.at = "receive" /\ reader'.buffer = 0
    BY <2>1 DEF Resting
  <2>4. PacketInv'
    BY <1>1, <1>2, <2>1, <2>3 DEF IInv, PacketInv, Collecting, Complete, Taken, Over
  <2>5. Pending' = Pending
    BY <2>1, <2>3 DEF Pending
  <2>6. RequestInv'
    BY <1>1, <1>3, <1>4, <2>1, <2>3, <2>5
       DEF IInv, RequestInv, Receiving, Discovering, Received
  <2>7. TypeOK' /\ OneBuffer'
    BY <1>0, <1>1, <2>1, <2>2, <2>3 DEF IInv, TypeOK, OneBuffer
  <2> QED
    BY <1>1, <2>4, <2>6, <2>7 DEF IInv
<1>9. ASSUME dmx' = dmx, output' = output, due' \in Sent \cup {NoMessage},
             reader.at \in {"receive", "clear", "check", "handle"},
             NEW place \in {"available", "clear", "check", "handle"},
             reader' = [reader EXCEPT !.at = place], rdm' \in Rdm, RequestInv'
      PROVE  IInv'
  <2>1. reader' \in Reader
    BY <1>0, <1>places, <1>9, ReaderType
  <2>2. reader'.at = place /\ reader'.buffer = 0
    BY <1>0, <1>9
  <2>3. PacketInv'
    BY <1>1, <1>2, <1>9, <2>2 DEF IInv, PacketInv, Collecting, Complete, Taken, Over
  <2>4. TypeOK' /\ OneBuffer'
    BY <1>0, <1>1, <1>9, <2>1, <2>2 DEF IInv, TypeOK, OneBuffer
  <2> QED
    BY <1>1, <1>9, <2>3, <2>4 DEF IInv
<1>10. CASE RdmReceive
  <2>1. /\ reader.at = "receive" /\ rdm' = rdm /\ due' = due /\ output' = output /\ dmx' = dmx
        /\ reader' = [reader EXCEPT !.at = IF rdm.end THEN "clear" ELSE "available"]
    BY <1>10 DEF RdmReceive, Go, irqVars
  <2>2. reader'.at = IF rdm.end THEN "clear" ELSE "available"
    BY <1>0, <2>1
  <2>3. Pending' = Pending
    BY <2>1, <2>2 DEF Pending
  <2>4. RequestInv'
    BY <1>1, <1>3, <1>4, <2>1, <2>2, <2>3
       DEF IInv, RequestInv, Receiving, Discovering, Received
  <2> QED
    BY <1>0, <1>9, <2>1, <2>4
<1>11. CASE ClearIndex
  <2>1. /\ reader.at = "clear" /\ due' = due /\ output' = output /\ dmx' = dmx
        /\ rdm' = [rdm EXCEPT !.index = 0, !.end = FALSE]
        /\ reader' = [reader EXCEPT !.at = "check"]
    BY <1>11 DEF ClearIndex, Go
  <2>2. rdm' \in Rdm /\ rdm'.data = rdm.data /\ rdm'.index = 0 /\ ~rdm'.end
    BY <1>0, <2>1, RdmType DEF Rdm
  <2>3. reader'.at = "check" /\ Pending /\ Pending' /\ Request' = Request
    BY <1>0, <2>1, <2>2 DEF Pending, Request
  <2>4. RequestInv'
    BY <1>1, <1>4, <2>1, <2>2, <2>3, ReceiveAssumption
       DEF IInv, RequestInv, Receiving, Discovering, Received
  <2> QED
    BY <1>0, <1>9, <2>1, <2>2, <2>4
<1>12. CASE CheckMessage
  <2>1. reader.at = "check" /\ rdm' = rdm /\ output' = output /\ dmx' = dmx
    BY <1>12 DEF CheckMessage, irqVars
  <2>2. CASE Request.kind = "rdm" /\ Holds(rdm.data, Request)
    <3>1. /\ reader' = [reader EXCEPT !.at = "handle"]
          /\ due' = IF due = Request THEN NoMessage ELSE due
      BY <1>12, <2>2 DEF CheckMessage, Go, Request
    <3>2. reader'.at = "handle"
      BY <1>0, <3>1
    <3>3. Pending /\ Quiet /\ ~rdm.end
      BY <2>1, <2>2 DEF Pending, IInv, RequestInv, Received
    <3>4. RequestInv'
      BY <1>1, <1>3, <1>4, <2>1, <2>2, <3>2, <3>3
         DEF IInv, RequestInv, Receiving, Discovering, Received, Pending
    <3>5. due' \in Sent \cup {NoMessage}
      BY <1>0, <3>1
    <3> QED
      BY <1>0, <1>9, <2>1, <3>1, <3>4, <3>5
  <2>3. CASE ~(Request.kind = "rdm" /\ Holds(rdm.data, Request))
    <3>1. reader' = [reader EXCEPT !.at = "available"] /\ due' = due
      BY <1>12, <2>3 DEF CheckMessage, Go, Request
    <3>2. reader'.at = "available" /\ (Pending' => Pending)
      BY <1>0, <2>1, <3>1 DEF Pending
    <3>3. RequestInv'
      BY <1>1, <1>3, <1>4, <2>1, <2>3, <3>1, <3>2
         DEF IInv, RequestInv, Receiving, Discovering, Received
    <3> QED
      BY <1>0, <1>9, <2>1, <3>1, <3>3
  <2> QED
    BY <2>2, <2>3
<1>13. CASE HandleMessage
  <2>1. /\ reader.at = "handle" /\ rdm' = rdm /\ due' = due /\ output' = output /\ dmx' = dmx
        /\ reader' = [reader EXCEPT !.at = "available"]
    BY <1>13 DEF HandleMessage, Go, irqVars
  <2>2. reader'.at = "available" /\ ~Pending'
    BY <1>0, <2>1 DEF Pending, IInv, RequestInv, Received
  <2>3. RequestInv'
    BY <1>1, <1>3, <1>4, <2>1, <2>2
       DEF IInv, RequestInv, Receiving, Discovering, Received
  <2> QED
    BY <1>0, <1>9, <2>1, <2>3
<1> QED
  BY <1>5, <1>6, <1>7, <1>8, <1>10, <1>11, <1>12, <1>13 DEF MainStep

\* Here what RdmReceive finds right may be in the buffer, or be read, while the
\* port turns off or on: neither touches it.
LEMMA DirectionInv ==
  ASSUME PromptReader, IInv, DataDisable \/ DataEnable
  PROVE  IInv'
<1>1. /\ dmx' = dmx /\ active' = active /\ rdm' = rdm /\ counted' = counted /\ rate' = rate
      /\ output' = output /\ reader' = reader /\ due' = due /\ state' = "kIdle"
      /\ listening' \in BOOLEAN
  BY DEF DataDisable, DataEnable
<1>2. /\ line' \in Line /\ line'.message = line.message /\ line'.next = line.next
      /\ line'.whole => line.whole
  <2>1. FALSE \in BOOLEAN
    OBVIOUS
  <2> QED
    BY <2>1 DEF DataDisable, DataEnable, IInv, TypeOK, Line
<1>3. faults' \in 0 .. Faults
  BY ReceiveAssumption DEF DataDisable, DataEnable, IInv, TypeOK
<1>4. Packet' = Packet /\ \A k : BeginsWith(k) => BeginsWith(k)'
  BY <1>1 DEF Packet, BeginsWith
<1>5. \A k : AllOf(k) => AllOf(k)'
  BY <1>1, <1>2, <1>4 DEF AllOf
<1>6. PacketInv'
  BY <1>1, <1>4, <1>5 DEF IInv, PacketInv, Collecting, Complete, Taken
<1>7. Quiet' = Quiet /\ Pending' = Pending /\ Request' = Request
  BY <1>1, <1>2 DEF Quiet, Over, Pending, Request
<1>8. RequestInv'
  BY <1>1, <1>7 DEF IInv, RequestInv, Receiving, Discovering, Received
<1>9. TypeOK'
  BY <1>1, <1>2, <1>3 DEF IInv, TypeOK, States
<1>10. LineInv' /\ OneBuffer'
  BY <1>1, <1>2 DEF IInv, LineInv, OneBuffer
<1> QED
  BY <1>6, <1>8, <1>9, <1>10 DEF IInv

LEMMA ReceiverUnchanged ==
  ASSUME IInv, Second \/ UNCHANGED vars
  PROVE  IInv'
<1>1. /\ dmx' = dmx /\ active' = active /\ rdm' = rdm /\ reader' = reader /\ due' = due
      /\ state' = state /\ listening' = listening /\ line' = line /\ faults' = faults
      /\ output' = output /\ counted' \in BOOLEAN /\ rate' \in BOOLEAN
  BY DEF Second, vars, irqVars, IInv, TypeOK
<1>2. TypeOK'
  BY <1>1 DEF IInv, TypeOK
<1>3. LineInv' /\ OneBuffer'
  BY <1>1 DEF IInv, LineInv, OneBuffer, Quiet, Over
<1>4. PacketInv'
  BY <1>1 DEF IInv, PacketInv, Collecting, Complete, Taken, Over, Packet, BeginsWith, AllOf
<1>5. RequestInv'
  <2>1. Quiet' = Quiet /\ Pending' = Pending /\ Request' = Request /\ Stray' = Stray
    BY <1>1 DEF Quiet, Over, Pending, Request, Stray
  <2> QED
    BY <1>1, <2>1 DEF IInv, RequestInv, Receiving, Discovering, Received
<1> QED
  BY <1>2, <1>3, <1>4, <1>5 DEF IInv

LEMMA ReceiveInit ==
  ASSUME Init
  PROVE  TypeOK /\ LineInv /\ OneBuffer
<1>0. PICK m \in Messages : \E n \in 1 .. Bytes(m) :
        line = [message |-> [kind |-> m.kind, length |-> m.length, id |-> 0],
                next |-> n, whole |-> FALSE, idle |-> n = Bytes(m)]
  BY DEF Init
<1>1. PICK n \in 1 .. Bytes(m) :
        line = [message |-> [kind |-> m.kind, length |-> m.length, id |-> 0],
                next |-> n, whole |-> FALSE, idle |-> n = Bytes(m)]
  BY <1>0
<1> DEFINE l == [kind |-> m.kind, length |-> m.length, id |-> 0]
<1>2. l \in Sent /\ Bytes(l) = Bytes(m)
  BY DEF Sent, Bytes
<1>3. Bytes(l) \in Nat
  BY <1>2, SentFacts
<1>4. line.message = l /\ line.next = n
  BY <1>1
<1>5. line \in Line
  <2>1. (n = Bytes(m)) \in BOOLEAN /\ FALSE \in BOOLEAN /\ n \in Nat
    BY <1>2, <1>3
  <2> QED
    BY <1>1, <1>2, <2>1 DEF Line
<1>6. LineInv
  BY <1>2, <1>3, <1>4 DEF LineInv, Init
<1>7. TypeOK
  <2>1. Zero \in Byte /\ FALSE \in BOOLEAN /\ Channels \in Nat /\ RdmSize \in Nat /\ Faults \in Nat
    BY ReceiveAssumption DEF Byte, Zero
  <2>2. [data |-> [i \in 0 .. Channels |-> Zero], slots |-> 0, full |-> FALSE] \in Buffer
    BY <2>1 DEF Buffer
  <2>3. dmx \in [{0, 1} -> Buffer]
    BY <2>2 DEF Init
  <2>4. rdm \in Rdm
    BY <2>1 DEF Init, Rdm
  <2>5. reader \in Reader
    BY <2>1 DEF Init, Reader, Resting, Places
  <2>6. state \in States /\ active \in {0, 1} /\ counted \in BOOLEAN /\ rate \in BOOLEAN
        /\ output \in BOOLEAN /\ listening \in BOOLEAN /\ faults \in 0 .. Faults
        /\ due \in Sent \cup {NoMessage}
    <3>1. /\ state = "kIdle" /\ active = 0 /\ counted = FALSE /\ rate = FALSE
          /\ output = FALSE /\ listening = TRUE /\ faults = 0 /\ due = NoMessage
      BY DEF Init
    <3>2. state \in States /\ active \in {0, 1} /\ due \in Sent \cup {NoMessage}
      BY <3>1 DEF States
    <3>3. faults \in 0 .. Faults
      BY <2>1, <3>1
    <3>4. counted \in BOOLEAN /\ rate \in BOOLEAN /\ output \in BOOLEAN /\ listening \in BOOLEAN
      BY <3>1
    <3> QED
      BY <3>2, <3>3, <3>4
  <2> QED
    BY <1>5, <2>3, <2>4, <2>5, <2>6 DEF TypeOK
<1>8. OneBuffer
  BY DEF OneBuffer, Init, Resting
<1> QED
  BY <1>6, <1>7, <1>8

LEMMA ReceiveInitInv == Init => IInv
<1> SUFFICES ASSUME Init  PROVE IInv
  OBVIOUS
<1>1. PacketInv
  BY DEF PacketInv, Collecting, Complete, Taken, Init, Resting
<1>2. RequestInv
  BY DEF RequestInv, Receiving, Discovering, Received, Pending, Init, Resting
<1> QED
  BY <1>1, <1>2, ReceiveInit DEF IInv

LEMMA ReceiveStepInv == PromptReader /\ IInv /\ [Next]_vars => IInv'
<1> SUFFICES ASSUME PromptReader, IInv, [Next]_vars  PROVE IInv'
  OBVIOUS
<1> QED
  BY NextByteInv, StartMessageInv, IdleInv, CutShortInv, MainInv, DirectionInv,
     ReceiverUnchanged DEF Next

-----------------------------------------------------------------------------
\* The buffers of a receiver whose main loop keeps up hold what they are
\* declared to hold, whatever is cut short, paused or only half heard.
THEOREM PromptTypeCorrect ==
  ASSUME PromptReader
  PROVE  Spec => []TypeOK
<1>1. IInv => TypeOK
  BY DEF IInv
<1>2. Init => IInv
  BY ReceiveInitInv
<1>3. IInv /\ [Next]_vars => IInv'
  BY ReceiveStepInv
<1> QED
  BY <1>1, <1>2, <1>3, PTL DEF Spec

\* What SetData copies is the beginning of one packet, and all of one that came
\* whole, for every number of slots and every sequence of packets, RDM messages,
\* responses, pauses and port changes.
THEOREM PacketStaysIntact ==
  ASSUME PromptReader
  PROVE  Spec => []PacketIntact
<1>1. IInv => PacketIntact
  <2> SUFFICES ASSUME IInv, reader.at = "copy"
               PROVE  /\ reader.length \in 0 .. Channels
                      /\ Packet.kind = "dmx" =>
                           \A i \in 0 .. reader.length : dmx[0].data[i] = At(Packet, i)
                      /\ (line.message = Packet /\ line.whole /\ line.next # 0)
                           => reader.length = Packet.length - 1
    BY DEF PacketIntact, IInv, OneBuffer, Packet
  <2>1. /\ reader.length \in 0 .. Channels
        /\ BeginsWith(reader.length + 1) /\ AllOf(reader.length + 1)
    BY DEF IInv, PacketInv, Taken
  <2>2. line.message \in Sent
    BY DEF IInv, TypeOK, Line
  <2> QED
    BY <2>1, <2>2, SentFacts, ReceiveAssumption DEF BeginsWith, AllOf
<1>2. Init => IInv
  BY ReceiveInitInv
<1>3. IInv /\ [Next]_vars => IInv'
  BY ReceiveStepInv
<1> QED
  BY <1>1, <1>2, <1>3, PTL DEF Spec

\* A request that RdmReceive handed out is not changed while it is read,
\* whatever comes on the line meanwhile.
THEOREM RequestStaysIntact ==
  ASSUME PromptReader
  PROVE  Spec => []RequestIntact
<1>1. IInv => RequestIntact
  BY DEF IInv, RequestInv, Received, RequestIntact, Request
<1>2. Init => IInv
  BY ReceiveInitInv
<1>3. IInv /\ [Next]_vars => IInv'
  BY ReceiveStepInv
<1> QED
  BY <1>1, <1>2, <1>3, PTL DEF Spec

-----------------------------------------------------------------------------
(***************************************************************************)
(* The inbox: the last byte of an RDM message is its arrival, the checksum *)
(* found right takes it, and the caller's return is the end of its use.    *)
(***************************************************************************)
LEMMA InboxInit == Init => Inbox!Init
BY DEF Init, Inbox!Init, Resting

\* Steps of the inbox, and the stuttering ones.
LEMMA InboxStep ==
  ASSUME PromptReader, IInv, IInv', [Next]_vars
  PROVE  [Inbox!Next]_<<due, IF reader.at = "handle" THEN Request ELSE NoMessage>>
<1> DEFINE reading == IF reader.at = "handle" THEN Request ELSE NoMessage
<1>1. CASE NextByte
  <2>1. reader'.at # "handle" /\ reader.at # "handle"
    BY <1>1, ByteLine, ByteNoRequest
  <2>2. reading' = reading
    BY <2>1
  <2>3. due' = due \/ (line.message.kind = "rdm" /\ due' = line.message)
    BY <1>1 DEF NextByte
  <2>4. line.message \in Sent
    BY <1>1, ByteLine
  <2> QED
    BY <2>1, <2>2, <2>3, <2>4 DEF Inbox!Next, Inbox!Arrive
<1>2. CASE CheckMessage
  <2>1. /\ reader.at = "check" /\ rdm' = rdm /\ Request' = Request
        /\ reading = NoMessage
    BY <1>2 DEF CheckMessage, irqVars, Request
  <2>2. CASE Request.kind = "rdm" /\ Holds(rdm.data, Request)
    <3>1. reader' = [reader EXCEPT !.at = "handle"]
          /\ due' = IF due = Request THEN NoMessage ELSE due
      BY <1>2, <2>2 DEF CheckMessage, Go, Request
    <3>2. due = Request
      BY <2>1, <2>2 DEF IInv, RequestInv, Received, Pending
    <3>3. Request # NoMessage
      BY <2>2 DEF NoMessage
    <3>4. reader'.at = "handle"
      BY <3>1 DEF IInv, TypeOK, Reader
    <3>5. reading' = Request /\ due' = NoMessage /\ reading = NoMessage
      BY <2>1, <3>1, <3>2, <3>4
    <3> HIDE DEF reading
    <3>6. Inbox!Take
      BY <3>2, <3>3, <3>5 DEF Inbox!Take, reading, Request
    <3> QED
      BY <3>6 DEF Inbox!Next
  <2>3. CASE ~(Request.kind = "rdm" /\ Holds(rdm.data, Request))
    <3>1. reader' = [reader EXCEPT !.at = "available"] /\ due' = due
      BY <1>2, <2>3 DEF CheckMessage, Go, Request
    <3>2. reader'.at # "handle"
      BY <3>1 DEF IInv, TypeOK, Reader
    <3> QED
      BY <2>1, <3>1, <3>2
  <2> QED
    BY <2>2, <2>3
<1>3. CASE HandleMessage
  <2>1. /\ reader.at = "handle" /\ due' = due /\ reader' = [reader EXCEPT !.at = "available"]
    BY <1>3 DEF HandleMessage, Go
  <2>2. Request # NoMessage
    BY <2>1 DEF IInv, RequestInv, Received, NoMessage
  <2>3. reader'.at # "handle"
    BY <2>1 DEF IInv, TypeOK, Reader
  <2>4. Inbox!Done
    BY <2>1, <2>2, <2>3 DEF Inbox!Done, Request
  <2> QED
    BY <2>4 DEF Inbox!Next
<1>4. ASSUME due' = due,
             \/ reader.at # "handle" /\ reader'.at # "handle"
             \/ reader.at = "handle" /\ reader'.at = "handle" /\ rdm'.data = rdm.data
      PROVE  reading' = reading /\ due' = due
  BY <1>4 DEF Request
<1>5. CASE (\E m \in Messages : StartMessage(m)) \/ GoIdle \/ Pause \/ CutShort
  <2>1. due' = due /\ reader'.at = reader.at
    BY <1>5, LineSteps DEF LineStep, IInv
  <2>2. rdm'.data = rdm.data
    BY <1>5 DEF StartMessage, GoIdle, Pause, CutShort, Hear, BreakIrq, BreakIrqSingle,
                IdleIrq, irqVars, PromptReader, IInv, TypeOK, Rdm
  <2> QED
    BY <1>4, <2>1, <2>2
<1>6. CASE GetDmxAvailable \/ TakePacket \/ ReadLength \/ CopyPacket \/ RdmReceive \/ ClearIndex
  <2>1. due' = due /\ reader.at # "handle"
    BY <1>6 DEF GetDmxAvailable, TakePacket, ReadLength, CopyPacket, RdmReceive, ClearIndex
  <2>2. reader \in Reader
    BY DEF IInv, TypeOK
  <2>3. ASSUME GetDmxAvailable \/ TakePacket  PROVE reader'.at # "handle"
    BY <2>2, <2>3 DEF GetDmxAvailable, TakePacket, Go, Reader
  <2>4. ASSUME ReadLength \/ CopyPacket  PROVE reader'.at # "handle"
    <3>1. ReadLength => reader'.at = "copy"
      BY <2>2 DEF ReadLength, Reader
    <3>2. CopyPacket => reader'.at = "receive"
      BY DEF CopyPacket, Resting
    <3> QED
      BY <2>4, <3>1, <3>2
  <2>5. ASSUME RdmReceive \/ ClearIndex  PROVE reader'.at # "handle"
    BY <2>2, <2>5 DEF RdmReceive, ClearIndex, Go, Reader
  <2> QED
    BY <1>4, <1>6, <2>1, <2>3, <2>4, <2>5
<1>7. CASE DataDisable \/ DataEnable \/ Second \/ UNCHANGED vars
  <2>1. due' = due /\ reader' = reader /\ rdm' = rdm
    BY <1>7 DEF DataDisable, DataEnable, Second, vars, irqVars
  <2> QED
    BY <1>4, <2>1
<1> QED
  BY <1>1, <1>2, <1>3, <1>5, <1>6, <1>7 DEF Next, MainStep

\* To its caller, RdmReceive is an inbox that gets the last RDM message sent to
\* the port, once, and keeps it while it is used, whatever else is on the line.
THEOREM InboxImplemented ==
  ASSUME PromptReader
  PROVE  Spec => ImplementsInbox
<1>1. Init => IInv
  BY ReceiveInitInv
<1>2. IInv /\ [Next]_vars => IInv'
  BY ReceiveStepInv
<1>3. IInv /\ IInv' /\ [Next]_vars
        => [Inbox!Next]_<<due, IF reader.at = "handle" THEN Request ELSE NoMessage>>
  BY InboxStep
<1> QED
  BY <1>1, <1>2, <1>3, InboxInit, PTL DEF Spec, ImplementsInbox, Inbox!Spec, Request

-----------------------------------------------------------------------------
(***************************************************************************)
(* The second part: the main loop may be late by any time, and be          *)
(* interrupted anywhere.  The interrupt stays inside its buffers all the   *)
(* same, as long as not two packets in a row end with their start code:    *)
(* the first of them leaves a length of 1, and GetDmxAvailable may write   *)
(* its 0 over the length of the second, which then has no slot to subtract *)
(* the start code from.                                                    *)
(***************************************************************************)
SingleBuffer == ~DoubleInput /\ (Contents \/ \A m \in Messages : m.length >= 2)

\* The sender stopped behind the start code, and it cannot do so again.
Slack == Faults <= 1 /\ faults = Faults

\* No message is cut short or paused right behind its first byte.
LongPackets == [][Pause \/ CutShort => line.next # 1]_vars

RoomComplete ==
  dmx[0].full => /\ state # "kDmxData" /\ dmx[0].slots >= 1
                 /\ dmx[0].slots = 1 => Slack

\* GetDmxAvailable between its test and its write.
RoomTaken ==
  reader.at = "take" =>
    /\ reader.slots >= 1
    /\ reader.slots = 1 => Slack
    /\ state = "kDmxData" => /\ reader.hit
                             /\ line.next = 1 \/ Slack
                             /\ reader.slots = 1 => ~Over /\ line.next >= 1

RoomCollecting ==
  state = "kDmxData" =>
    /\ listening /\ ~line.idle /\ dmx[0].slots <= Channels
    /\ dmx[0].slots = 0 => Slack /\ ~Over /\ line.next >= 1
    /\ ~Slack => /\ line.next >= 1 /\ Bytes(line.message) >= 2
                 /\ \/ dmx[0].slots >= line.next
                    \/ Over /\ ~line.whole /\ dmx[0].slots >= 2

RoomPacket == RoomComplete /\ RoomTaken /\ RoomCollecting

RoomRequest ==
  /\ state = "kRdmData" => rdm.index <= RdmSize
  /\ state = "kRdmChecksumh" => rdm.index <= RdmSize - 2
  /\ state = "kRdmChecksuml" => rdm.index <= RdmSize - 1

RoomInv == TypeOK /\ LineInv /\ OneBuffer /\ RoomPacket /\ RoomRequest

LEMMA RoomKeepsPacket ==
  ASSUME RoomInv, dmx' = dmx, state' # "kDmxData", Slack => Slack',
         reader'.at = reader.at, reader'.slots = reader.slots
  PROVE  RoomPacket'
BY DEF RoomInv, RoomPacket, RoomComplete, RoomTaken, RoomCollecting

LEMMA RoomByteKeeps ==
  ASSUME RoomInv, NextByte, active' = active, dmx' = dmx, counted' = counted,
         state' \in States \ {"kDmxData"}, state' = "kIdle" \/ listening,
         state' # "kDmxBreak", rdm' \in Rdm, RoomRequest'
  PROVE  RoomInv'
<1>1. TypeOK /\ LineInv /\ OneBuffer
  BY DEF RoomInv
<1>2. Slack => Slack'
  BY <1>1, ByteMoves DEF Slack
<1>3. RoomPacket'
  BY <1>1, <1>2, ByteMoves, RoomKeepsPacket
<1>4. TypeOK'
  BY <1>1, ByteMoves DEF TypeOK
<1>5. LineInv' /\ OneBuffer'
  BY <1>1, ByteMoves DEF LineInv, OneBuffer
<1> QED
  BY <1>3, <1>4, <1>5 DEF RoomInv

LEMMA RoomByteStart ==
  ASSUME SingleBuffer, RoomInv, NextByte, state = "kDmxBreak", active' = active,
         StartCode(0, At(line.message, line.next))
  PROVE  RoomInv'
<1> DEFINE c == At(line.message, line.next)
<1>1. TypeOK /\ LineInv /\ OneBuffer
  BY DEF RoomInv
<1>2. /\ c \in Byte /\ listening /\ line.next = 0 /\ line.message \in Sent
      /\ RdmSize \in Nat /\ RdmSize >= 5 /\ Channels \in Nat /\ Channels >= 1
  BY <1>1, ByteMoves, ByteFacts, ReceiveAssumption DEF LineInv, Quiet, Over
<1>3. ASSUME "dmx" \in StartCodes(c)  PROVE Bytes(line.message) >= 2
  <2>1. CASE Contents
    <3>1. c.message = line.message /\ c.at = 0
      BY <1>2, <2>1 DEF At
    <3>2. line.message.kind = "dmx"
      BY <1>2, <1>3, <3>1, SentFacts DEF StartCodes, Kinds
    <3> QED
      BY <1>2, <3>2, SentFacts
  <2>2. CASE \A m \in Messages : m.length >= 2
    <3>1. line.message.length >= 2
      BY <1>2, <2>2 DEF Sent
    <3> QED
      BY <1>2, <3>1, SentFacts
  <2> QED
    BY <2>1, <2>2 DEF SingleBuffer
<1>4. PICK kind \in StartCodes(c) :
        \/ kind = "dmx" /\ DmxStart(0, c)
        \/ kind = "rdm" /\ RdmStart(c, "kRdmData")
        \/ kind \notin {"dmx", "rdm"} /\ NoStart(0)
  BY DEF StartCode
<1>5. CASE kind = "dmx" /\ DmxStart(0, c)
  <2>1. /\ dmx' \in [{0, 1} -> Buffer] /\ dmx'[0].slots = 1 /\ ~dmx'[0].full
        /\ dmx'[1] = dmx[1]
    BY <1>1, <1>2, <1>5, DmxStartFacts
  <2>2. state' = "kDmxData" /\ counted' = TRUE /\ rdm' = rdm
    BY <1>5 DEF DmxStart
  <2>3. line'.next = 1 /\ ~Over' /\ ~line'.idle /\ Bytes(line'.message) >= 2
    BY <1>1, <1>2, <1>3, <1>5, ByteMoves DEF Over
  <2>4. RoomComplete'
    BY <2>1 DEF RoomComplete
  <2>5. RoomTaken'
    BY <1>1, <2>3, ByteMoves DEF RoomTaken, RoomInv, RoomPacket, Slack
  <2>6. RoomCollecting'
    BY <1>1, <1>2, <2>1, <2>3, ByteMoves DEF RoomCollecting
  <2>7. TypeOK'
    BY <1>1, <2>1, <2>2, ByteMoves DEF TypeOK, States
  <2>8. LineInv' /\ OneBuffer' /\ RoomRequest'
    BY <1>1, <1>2, <2>1, <2>2, ByteMoves DEF LineInv, OneBuffer, RoomRequest
  <2> QED
    BY <2>4, <2>5, <2>6, <2>7, <2>8 DEF RoomInv, RoomPacket
<1>6. CASE RdmStart(c, "kRdmData")
  <2>1. /\ rdm' \in Rdm /\ rdm'.index = 1 /\ state' = "kRdmData" /\ dmx' = dmx
        /\ counted' = counted
    BY <1>1, <1>2, <1>6, RdmStartFacts DEF States
  <2>2. RoomRequest'
    BY <1>2, <2>1 DEF RoomRequest
  <2> QED
    BY <1>2, <2>1, <2>2, RoomByteKeeps DEF States
<1>7. CASE NoStart(0)
  <2>1. dmx' = [dmx EXCEPT ![0].slots = 0, ![0].full = FALSE]
        /\ rdm' = [rdm EXCEPT !.index = 0, !.end = FALSE]
        /\ state' = "kIdle" /\ counted' = counted
    BY <1>7 DEF NoStart
  <2>2. dmx' \in [{0, 1} -> Buffer] /\ ~dmx'[0].full /\ dmx'[1] = dmx[1]
    <3> DEFINE b == [dmx[0] EXCEPT !.slots = 0, !.full = FALSE]
    <3>0. dmx \in [{0, 1} -> Buffer] /\ dmx[0] \in Buffer
      BY <1>1 DEF TypeOK
    <3>1. 0 \in 0 .. (Channels + 1) /\ FALSE \in BOOLEAN
      BY <1>2
    <3>2. b \in Buffer
      BY <3>0, <3>1, BufferType DEF Buffer
    <3>3. dmx' = [dmx EXCEPT ![0] = b]
      BY <3>0, <2>1
    <3>4. ~b.full
      BY <3>0 DEF Buffer
    <3> HIDE DEF b
    <3> QED
      BY <3>0, <3>2, <3>3, <3>4
  <2>3. rdm' \in Rdm
    BY <1>1, <2>1 DEF TypeOK, Rdm
  <2>4. RoomPacket'
    BY <1>1, <2>1, <2>2, ByteMoves
       DEF RoomInv, RoomPacket, RoomComplete, RoomTaken, RoomCollecting, Slack
  <2>5. TypeOK'
    BY <1>1, <2>1, <2>2, <2>3, ByteMoves DEF TypeOK, States
  <2>6. LineInv' /\ OneBuffer' /\ RoomRequest'
    BY <1>1, <2>1, <2>2, ByteMoves DEF LineInv, OneBuffer, RoomRequest
  <2> QED
    BY <2>4, <2>5, <2>6 DEF RoomInv
<1> QED
  BY <1>4, <1>5, <1>6, <1>7

LEMMA RoomByteDmx ==
  ASSUME RoomInv, NextByte, state = "kDmxData", active' = active,
         DmxSlot(0, At(line.message, line.next))
  PROVE  RoomInv'
<1> DEFINE c == At(line.message, line.next)
           n == dmx[0].slots + 1
<1>1. TypeOK /\ LineInv /\ OneBuffer
  BY DEF RoomInv
<1>2. /\ c \in Byte /\ dmx \in [{0, 1} -> Buffer] /\ Channels \in Nat /\ Channels >= 1
      /\ dmx[0] \in Buffer /\ dmx[0].slots \in Nat
  BY <1>1, ByteMoves, ByteFacts, ReceiveAssumption DEF TypeOK, Buffer
<1>3. /\ listening /\ dmx[0].slots \in 0 .. Channels
      /\ ~Slack => line.next >= 1 /\ Bytes(line.message) >= 2 /\ dmx[0].slots >= line.next
  <2>1. ~Over
    BY DEF NextByte
  <2> QED
    BY <1>2, <2>1 DEF RoomInv, RoomPacket, RoomCollecting
<1>4. reader.at # "take"
  BY <1>1, ByteMoves DEF RoomInv, RoomPacket, RoomTaken
<1>5. /\ dmx' \in [{0, 1} -> Buffer]
      /\ dmx'[0].slots = n /\ dmx'[0].full = (n > Channels)
      /\ dmx'[1] = dmx[1]
  BY <1>2, <1>3 DEF DmxSlot, Buffer
<1>6. /\ state' = IF n > Channels THEN "kIdle" ELSE "kDmxData"
      /\ rdm' = rdm /\ counted' = counted
  BY DEF DmxSlot
<1>7. Slack' = Slack
  BY <1>1, ByteMoves DEF Slack
<1>8. RoomComplete'
  <2>1. SUFFICES ASSUME n > Channels
                 PROVE  state' # "kDmxData" /\ n >= 1 /\ n # 1
    BY <1>5 DEF RoomComplete
  <2> QED
    BY <1>2, <1>6, <2>1
<1>9. RoomTaken'
  BY <1>1, <1>4, ByteMoves DEF RoomTaken
<1>10. RoomCollecting'
  BY <1>1, <1>2, <1>3, <1>5, <1>6, <1>7, ByteMoves DEF RoomCollecting
<1>11. TypeOK'
  BY <1>1, <1>5, <1>6, ByteMoves DEF TypeOK, States
<1>12. LineInv' /\ OneBuffer' /\ RoomRequest'
  BY <1>1, <1>3, <1>5, <1>6, ByteMoves DEF LineInv, OneBuffer, RoomRequest
<1> QED
  BY <1>8, <1>9, <1>10, <1>11, <1>12 DEF RoomInv, RoomPacket

LEMMA WriteType ==
  ASSUME NEW D, NEW R, NEW f \in [D -> R], NEW x, NEW y \in R
  PROVE  [f EXCEPT ![x] = y] \in [D -> R]
OBVIOUS

LEMMA RoomByteRdm ==
  ASSUME RoomInv, NextByte, listening, active' = active,
         NEW c \in Byte,
         \/ state = "kRdmData" /\ RdmByte(c)
         \/ state = "kRdmChecksumh" /\ RdmChecksumh(c)
         \/ state = "kRdmChecksuml" /\ RdmChecksuml(c)
         \/ state = "kRdmdisc" /\ RdmDisc(c)
  PROVE  RoomInv'
<1> DEFINE n == rdm.index + 1
           data == [rdm.data EXCEPT ![rdm.index] = c]
<1>1. /\ rdm \in Rdm /\ rdm.index \in Nat /\ RdmSize \in Nat /\ RdmMin \in Nat
      /\ RdmMin > 2 /\ RdmSize >= RdmMin + 2 /\ TypeOK
  BY ReceiveAssumption DEF RoomInv, TypeOK, Rdm
<1>2. data \in [0 .. RdmSize -> Byte] /\ n \in Nat
  <2>1. rdm.data \in [0 .. RdmSize -> Byte]
    BY <1>1 DEF Rdm
  <2>2. data \in [0 .. RdmSize -> Byte]
    BY <2>1, WriteType
  <2> QED
    BY <1>1, <2>2
<1>3. CASE state = "kRdmData" /\ RdmByte(c)
  <2>1. PICK length \in MessageLengths(data[2]) :
          state' = IF n >= RdmMin /\ n <= RdmSize /\ n = length
                   THEN "kRdmChecksumh"
                   ELSE IF n > RdmSize THEN "kIdle" ELSE state
    BY <1>3 DEF RdmByte
  <2>2. rdm' = [rdm EXCEPT !.data = data, !.index = n] /\ dmx' = dmx /\ counted' = counted
    BY <1>3 DEF RdmByte
  <2>3. length <= RdmSize - 2
    <3>1. data[2] \in Byte
      BY <1>1, <1>2
    <3>2. data[2].message.kind = "rdm" => data[2].message \in Sent
      BY <3>1 DEF Byte, NoMessage
    <3> QED
      BY <1>1, <3>2, SentFacts DEF MessageLengths
  <2> HIDE DEF data
  <2>4. rdm' \in Rdm
    BY <1>1, <1>2, <2>2, RdmType
  <2>5. rdm'.index = n
    BY <1>1, <2>2 DEF Rdm
  <2>6. RoomRequest' /\ state' \in {"kRdmData", "kRdmChecksumh", "kIdle"}
    BY <1>1, <1>2, <1>3, <2>1, <2>3, <2>5 DEF RoomRequest
  <2> QED
    BY <2>2, <2>4, <2>6, RoomByteKeeps DEF States
<1>4. CASE state = "kRdmChecksumh" /\ RdmChecksumh(c)
  <2>1. /\ rdm' = [rdm EXCEPT !.data = data, !.index = n] /\ dmx' = dmx
        /\ counted' = counted /\ state' = "kRdmChecksuml"
    BY <1>4 DEF RdmChecksumh
  <2> HIDE DEF data
  <2>2. rdm' \in Rdm
    BY <1>1, <1>2, <2>1, RdmType
  <2>3. rdm'.index = n
    BY <1>1, <2>1 DEF Rdm
  <2>4. RoomRequest'
    BY <1>1, <1>4, <2>1, <2>3 DEF RoomInv, RoomRequest
  <2> QED
    BY <2>1, <2>2, <2>4, RoomByteKeeps DEF States
<1>5. CASE state = "kRdmChecksuml" /\ RdmChecksuml(c)
  <2>1. /\ rdm' = [rdm EXCEPT !.data = data, !.end = TRUE] /\ dmx' = dmx
        /\ counted' = counted /\ state' = "kIdle"
    BY <1>5 DEF RdmChecksuml
  <2> HIDE DEF data
  <2>2. rdm' \in Rdm
    BY <1>1, <1>2, <2>1, RdmType
  <2> QED
    BY <2>1, <2>2, RoomByteKeeps DEF States, RoomRequest
<1>6. CASE state = "kRdmdisc" /\ RdmDisc(c)
  <2>1. dmx' = dmx /\ counted' = counted /\ state' = "kRdmdisc"
    BY <1>6 DEF RdmDisc
  <2>2. rdm' = [rdm EXCEPT !.data = data, !.index = n] \/ rdm' = rdm
    BY <1>6 DEF RdmDisc
  <2> HIDE DEF data
  <2>3. rdm' \in Rdm
    BY <1>1, <1>2, <2>2, RdmType
  <2> QED
    BY <2>1, <2>3, RoomByteKeeps DEF States, RoomRequest
<1> QED
  BY <1>3, <1>4, <1>5, <1>6

LEMMA RoomByte ==
  ASSUME SingleBuffer, RoomInv, NextByte
  PROVE  RoomInv'
<1> DEFINE c == At(line.message, line.next)
<1>1. TypeOK /\ LineInv /\ OneBuffer /\ RoomRequest
  BY DEF RoomInv
<1>2. c \in Byte
  BY <1>1, ByteMoves, ByteFacts
<1>3. CASE ~listening
  <2>1. state' = state /\ dmx' = dmx /\ rdm' = rdm /\ active' = active /\ counted' = counted
    BY <1>3 DEF NextByte, Hear, irqVars
  <2>2. state = "kIdle"
    BY <1>1, <1>3 DEF LineInv
  <2>3. rdm' \in Rdm /\ RoomRequest'
    BY <1>1, <2>1, <2>2 DEF TypeOK, RoomRequest
  <2> QED
    BY <2>1, <2>2, <2>3, RoomByteKeeps DEF States
<1>4. CASE listening
  <2>1. ByteIn(state, 0, c) /\ active' = active
    BY <1>1, <1>4 DEF NextByte, Hear, ByteIrq, OneBuffer
  <2>2. CASE state = "kIdle" /\ RdmStart(c, "kRdmdisc")
    <3>1. /\ rdm' \in Rdm /\ state' = "kRdmdisc" /\ dmx' = dmx /\ counted' = counted
      BY <1>1, <1>2, <2>2, RdmStartFacts DEF States
    <3> QED
      BY <1>4, <2>1, <3>1, RoomByteKeeps DEF States, RoomRequest
  <2>3. CASE state = "kDmxBreak" /\ StartCode(0, c)
    BY <2>1, <2>3, RoomByteStart
  <2>4. CASE state = "kDmxData" /\ DmxSlot(0, c)
    BY <2>1, <2>4, RoomByteDmx
  <2> QED
    BY <1>2, <1>4, <2>1, <2>2, <2>3, <2>4, RoomByteRdm DEF ByteIn
<1> QED
  BY <1>3, <1>4

\* A break is not missed while a packet is received, except behind a full one
\* that has lost its start code.
LEMMA RoomStartMessage ==
  ASSUME SingleBuffer, RoomInv, NEW m \in Messages, StartMessage(m)
  PROVE  RoomInv'
<1>1. TypeOK /\ LineInv /\ OneBuffer
  BY DEF RoomInv
<1>2. LineStep /\ line'.next = 0
  BY <1>1, LineSteps DEF StartMessage
<1>3. /\ dmx' = dmx /\ active' = active /\ rdm' = rdm /\ counted' = counted
      /\ state' = state \/ (state' = "kDmxBreak" /\ listening /\ state = "kIdle")
  BY <1>1 DEF StartMessage, Hear, BreakIrq, BreakIrqSingle, SingleBuffer, irqVars
<1>4. Slack' = Slack
  BY DEF StartMessage, Slack
<1>5. reader'.at = reader.at /\ reader'.slots = reader.slots
      /\ (reader.at = "take" => ~reader.hit)
  BY <1>2 DEF LineStep, StartMessage, Interrupts
<1>6. ASSUME state # "kDmxData"  PROVE RoomPacket'
  BY <1>3, <1>4, <1>5, <1>6, RoomKeepsPacket
<1>7. ASSUME state = "kDmxData"  PROVE RoomPacket'
  <2>1. /\ listening /\ ~line.idle /\ dmx[0].slots \in Nat /\ dmx[0].slots <= Channels
        /\ dmx[0].slots # 0 /\ ~dmx[0].full /\ reader.at # "take" /\ Channels \in Nat
    BY <1>1, <1>5, <1>7, ReceiveAssumption
       DEF StartMessage, RoomInv, RoomPacket, RoomCollecting, RoomComplete, RoomTaken,
           TypeOK, Buffer
  <2>2. /\ m.kind # "reply" /\ line.whole /\ line.message.kind = "dmx"
        /\ line.message.length > Channels
    BY <2>1 DEF StartMessage
  <2>3. line.next > Channels /\ line.next \in Nat
    BY <1>1, <2>2 DEF StartMessage, Over, Bytes, TypeOK, Line
  <2>4. Slack
    BY <1>7, <2>1, <2>2, <2>3 DEF RoomInv, RoomPacket, RoomCollecting
  <2>5. ~line'.idle
    BY <2>2 DEF StartMessage
  <2>6. state' = "kDmxData" /\ dmx' = dmx /\ listening' = listening
    BY <1>2, <1>3, <1>7 DEF LineStep
  <2> QED
    BY <1>4, <1>5, <2>1, <2>4, <2>5, <2>6
       DEF RoomPacket, RoomCollecting, RoomComplete, RoomTaken
<1>8. TypeOK'
  BY <1>1, <1>2, <1>3 DEF TypeOK, LineStep, States
<1>9. LineInv' /\ OneBuffer' /\ RoomRequest'
  BY <1>1, <1>2, <1>3 DEF RoomInv, LineInv, OneBuffer, RoomRequest, LineStep, Quiet
<1> QED
  BY <1>6, <1>7, <1>8, <1>9 DEF RoomInv

\* The idle line ends a packet of which only the start code was heard, or the
\* start code and a length that GetDmxAvailable wrote, once at most.
LEMMA RoomIdle ==
  ASSUME SingleBuffer, RoomInv, GoIdle \/ Pause,
         Faults <= 1 \/ (Pause => line.next # 1)
  PROVE  RoomInv'
<1>1. /\ TypeOK /\ LineInv /\ OneBuffer /\ dmx \in [{0, 1} -> Buffer] /\ dmx[0] \in Buffer
      /\ dmx[0].slots \in Nat /\ active = 0 /\ ~dmx[1].full /\ rdm \in Rdm
      /\ line.next \in Nat /\ Channels \in Nat
  BY ReceiveAssumption DEF RoomInv, TypeOK, OneBuffer, Buffer, Line
<1>2. LineStep
  BY <1>1, LineSteps
<1>3. active' = active /\ counted' = counted
  BY DEF GoIdle, Pause, Hear, IdleIrq, irqVars
<1>4. Slack => Slack' /\ GoIdle
  BY ReceiveAssumption DEF Slack, GoIdle, Pause
<1>5. reader'.at = reader.at /\ reader'.slots = reader.slots
      /\ (reader.at = "take" => ~reader.hit)
  BY <1>2 DEF LineStep, GoIdle, Pause, Interrupts
<1>6. CASE /\ dmx' = dmx /\ state # "kDmxData" /\ rdm' \in Rdm
           /\ \/ state' = state /\ rdm' = rdm
              \/ state' = "kIdle"
  <2>1. RoomPacket'
    BY <1>4, <1>5, <1>6, RoomKeepsPacket
  <2>2. TypeOK'
    BY <1>1, <1>2, <1>3, <1>6 DEF TypeOK, LineStep, States
  <2>3. LineInv' /\ OneBuffer' /\ RoomRequest'
    BY <1>1, <1>2, <1>3, <1>6 DEF RoomInv, LineInv, OneBuffer, RoomRequest, LineStep
  <2> QED
    BY <2>1, <2>2, <2>3 DEF RoomInv
<1>7. CASE /\ state = "kDmxData" /\ state' = "kIdle" /\ rdm' = rdm
           /\ dmx' = [dmx EXCEPT ![0].full = TRUE]
  <2>1. /\ dmx' \in [{0, 1} -> Buffer] /\ dmx'[0].slots = dmx[0].slots
        /\ dmx'[0].full /\ dmx'[1] = dmx[1]
    <3>1. TRUE \in BOOLEAN
      OBVIOUS
    <3>2. [dmx[0] EXCEPT !.full = TRUE] \in Buffer
      BY <1>1, <3>1 DEF Buffer
    <3> DEFINE b == [dmx[0] EXCEPT !.full = TRUE]
    <3>3. dmx' = [dmx EXCEPT ![0] = b]
      BY <1>1, <1>7
    <3>4. b.full /\ b.slots = dmx[0].slots
      BY <1>1 DEF Buffer
    <3> HIDE DEF b
    <3>5. b \in Buffer
      BY <3>2 DEF b
    <3> QED
      BY <1>1, <3>3, <3>4, <3>5
  <2>2. reader.at # "take"
    BY <1>5, <1>7 DEF RoomInv, RoomPacket, RoomTaken
  <2>3. /\ dmx[0].slots = 0 => Slack /\ ~Over /\ line.next >= 1
        /\ ~Slack => /\ line.next >= 1 /\ Bytes(line.message) >= 2
                     /\ dmx[0].slots >= line.next \/ (Over /\ ~line.whole /\ dmx[0].slots >= 2)
    BY <1>7 DEF RoomInv, RoomPacket, RoomCollecting
  <2>4. dmx[0].slots >= 1
    BY <1>1, <1>4, <2>3 DEF GoIdle
  <2>5. dmx[0].slots = 1 => Slack'
    <3>1. SUFFICES ASSUME dmx[0].slots = 1, ~Slack  PROVE Slack'
      BY <1>4
    <3>2. line.next = 1 /\ Bytes(line.message) >= 2
      BY <1>1, <2>3, <3>1
    <3>3. Pause
      BY <3>2 DEF GoIdle, Over
    <3>4. Faults <= 1
      BY <3>2, <3>3
    <3>5. faults \in Nat /\ faults < Faults /\ faults' = faults + 1 /\ Faults \in Nat
      BY <1>1, <3>3, ReceiveAssumption DEF Pause, TypeOK
    <3> QED
      BY <3>4, <3>5 DEF Slack
  <2>6. RoomPacket'
    BY <1>5, <1>7, <2>1, <2>2, <2>4, <2>5
       DEF RoomPacket, RoomCollecting, RoomComplete, RoomTaken
  <2>7. TypeOK'
    BY <1>1, <1>2, <1>3, <1>7, <2>1 DEF TypeOK, LineStep, States
  <2>8. LineInv' /\ OneBuffer' /\ RoomRequest'
    BY <1>1, <1>2, <1>3, <1>7, <2>1 DEF RoomInv, LineInv, OneBuffer, RoomRequest, LineStep
  <2> QED
    BY <2>6, <2>7, <2>8 DEF RoomInv
<1>8. \/ dmx' = dmx /\ state # "kDmxData" /\ state' = state /\ rdm' = rdm
      \/ /\ dmx' = dmx /\ state # "kDmxData" /\ state' = "kIdle"
         /\ rdm' = [rdm EXCEPT !.end = TRUE]
      \/ /\ state = "kDmxData" /\ state' = "kIdle" /\ rdm' = rdm
         /\ dmx' = [dmx EXCEPT ![0].full = TRUE]
  BY <1>1 DEF GoIdle, Pause, Hear, IdleIrq, irqVars, SingleBuffer, LineInv
<1>9. [rdm EXCEPT !.end = TRUE] \in Rdm
  <2>1. TRUE \in BOOLEAN
    OBVIOUS
  <2> QED
    BY <1>1, <2>1 DEF Rdm
<1> QED
  BY <1>1, <1>6, <1>7, <1>8, <1>9

LEMMA RoomCutShort ==
  ASSUME RoomInv, CutShort, Faults <= 1 \/ line.next # 1
  PROVE  RoomInv'
<1>1. TypeOK /\ LineInv /\ OneBuffer /\ line \in Line /\ line.next \in Nat
      /\ Bytes(line.message) \in Nat /\ line.message \in Sent
      /\ dmx[0].slots \in Nat
  BY SentFacts DEF RoomInv, TypeOK, Line, Buffer
<1>2. LineStep
  BY <1>1, LineSteps
<1>3. /\ dmx' = dmx /\ active' = active /\ rdm' = rdm /\ counted' = counted
      /\ state' = state /\ reader' = reader /\ listening' = listening
  BY DEF CutShort, irqVars
<1>4. /\ ~Slack /\ line.next < Bytes(line.message)
      /\ faults \in Nat /\ Faults \in Nat /\ faults < Faults /\ faults' = faults + 1
  BY <1>1, ReceiveAssumption DEF Slack, CutShort, Over, LineInv, TypeOK
<1>5. line.next # 1 \/ Slack'
  BY <1>4 DEF Slack
<1>6. /\ line'.message = line.message /\ line'.next = Bytes(line.message)
      /\ ~line'.whole /\ line'.idle = line.idle
  BY <1>1 DEF CutShort, Line
<1>7. RoomComplete'
  BY <1>3, <1>4 DEF RoomInv, RoomPacket, RoomComplete
<1>8. RoomTaken'
  BY <1>3, <1>4, <1>5 DEF RoomInv, RoomPacket, RoomTaken
<1>9. RoomCollecting'
  BY <1>1, <1>3, <1>4, <1>5, <1>6 DEF RoomInv, RoomPacket, RoomCollecting, Over
<1>10. TypeOK'
  BY <1>1, <1>2, <1>3 DEF TypeOK, LineStep
<1>11. LineInv' /\ OneBuffer' /\ RoomRequest'
  BY <1>1, <1>2, <1>3 DEF RoomInv, LineInv, OneBuffer, RoomRequest, LineStep
<1> QED
  BY <1>7, <1>8, <1>9, <1>10, <1>11 DEF RoomInv, RoomPacket

LEMMA RoomMain ==
  ASSUME SingleBuffer, RoomInv, MainStep
  PROVE  RoomInv'
<1>1. /\ TypeOK /\ LineInv /\ OneBuffer /\ reader \in Reader /\ reader.buffer = 0
      /\ dmx \in [{0, 1} -> Buffer] /\ dmx[0] \in Buffer /\ rdm \in Rdm
      /\ dmx[0].slots \in 0 .. (Channels + 1) /\ reader.slots \in 0 .. (Channels + 1)
      /\ ~dmx[1].full /\ active = 0 /\ Channels \in Nat /\ RdmSize \in Nat
      /\ output \in BOOLEAN /\ rate \in BOOLEAN /\ RoomRequest
  BY ReceiveAssumption DEF RoomInv, TypeOK, OneBuffer, Buffer, Reader
<1>2. /\ "available" \in Places /\ "take" \in Places /\ "length" \in Places
      /\ "copy" \in Places /\ "receive" \in Places /\ "clear" \in Places
      /\ "check" \in Places /\ "handle" \in Places
  BY DEF Places
<1>3. /\ state' = state /\ active' = active /\ counted' = counted /\ rate' = rate
      /\ listening' = listening /\ line' = line /\ faults' = faults
      /\ LineInv'
  BY <1>1, MainKeeps
<1>4. Slack' = Slack /\ Over' = Over
  BY <1>3 DEF Slack, Over
<1>5. CASE GetDmxAvailable /\ dmx[0].full
  <2>1. /\ dmx' = dmx /\ rdm' = rdm /\ due' = due /\ output' = output
        /\ reader' = [reader EXCEPT !.at = "take", !.buffer = 0, !.slots = dmx[0].slots,
                                    !.hit = FALSE]
    BY <1>5 DEF GetDmxAvailable, irqVars, ReadBuffer, SingleBuffer
  <2>2. reader' \in Reader
    BY <1>1, <1>2, <2>1, ReaderType
  <2>3. reader'.at = "take" /\ reader'.buffer = 0 /\ reader'.slots = dmx[0].slots
    BY <1>1, <2>1 DEF Reader
  <2>4. RoomPacket'
    BY <1>3, <1>4, <1>5, <2>1, <2>3
       DEF RoomInv, RoomPacket, RoomComplete, RoomTaken, RoomCollecting
  <2>5. TypeOK' /\ OneBuffer' /\ RoomRequest'
    BY <1>1, <1>3, <2>1, <2>2, <2>3 DEF TypeOK, OneBuffer, RoomRequest
  <2> QED
    BY <1>3, <2>4, <2>5 DEF RoomInv
<1>6. CASE TakePacket
  <2>1. /\ reader.at = "take" /\ rdm' = rdm /\ due' = due /\ output' = output
        /\ reader' = [reader EXCEPT !.at = "length"]
        /\ dmx' = [dmx EXCEPT ![0].slots = reader.slots - 1, ![0].full = reader.slots = 0]
    BY <1>1, <1>6 DEF TakePacket, Go
  <2>2. reader' \in Reader
    BY <1>1, <1>2, <2>1, ReaderType
  <2>3. reader'.at = "length" /\ reader'.buffer = 0
    BY <1>1, <2>1 DEF Reader
  <2>4. /\ reader.slots \in 1 .. (Channels + 1)
        /\ reader.slots = 1 => Slack
        /\ state = "kDmxData" => /\ line.next = 1 \/ Slack
                                 /\ reader.slots = 1 => ~Over /\ line.next >= 1
    BY <1>1, <2>1 DEF RoomInv, RoomPacket, RoomTaken
  <2>5. /\ dmx' \in [{0, 1} -> Buffer] /\ dmx'[0].slots = reader.slots - 1
        /\ ~dmx'[0].full /\ dmx'[1] = dmx[1]
    <3> DEFINE n == reader.slots - 1
               f == reader.slots = 0
               b == [dmx[0] EXCEPT !.slots = n, !.full = f]
    <3>1. n \in 0 .. (Channels + 1) /\ f \in BOOLEAN /\ ~f
      BY <1>1, <2>4
    <3>2. dmx[0].data \in [0 .. Channels -> Byte]
      BY <1>1 DEF Buffer
    <3>3. dmx' = [dmx EXCEPT ![0] = b]
      BY <1>1, <2>1
    <3> HIDE DEF n, f
    <3>4. b \in Buffer
      BY <1>1, <3>1, <3>2, BufferType
    <3>5. b.slots = n /\ ~b.full
      BY <1>1, <3>1 DEF Buffer
    <3> HIDE DEF b
    <3>6. dmx' \in [{0, 1} -> Buffer] /\ dmx'[0] = b /\ dmx'[1] = dmx[1]
      BY <1>1, <3>3, <3>4
    <3> QED
      BY <3>5, <3>6 DEF n
  <2>6. RoomComplete' /\ RoomTaken'
    BY <2>3, <2>5 DEF RoomComplete, RoomTaken
  <2>7. RoomCollecting'
    <3>1. SUFFICES ASSUME state = "kDmxData"  PROVE RoomCollecting'
      BY <1>3 DEF RoomCollecting
    <3>2. /\ listening /\ ~line.idle
          /\ ~Slack => line.next >= 1 /\ Bytes(line.message) >= 2
      BY <3>1 DEF RoomInv, RoomPacket, RoomCollecting
    <3>3. reader.slots - 1 <= Channels /\ (reader.slots - 1 = 0 => reader.slots = 1)
      BY <1>1, <2>4
    <3>4. ~Slack => line.next = 1 /\ reader.slots - 1 >= 1
      BY <1>1, <2>4, <3>1
    <3> QED
      BY <1>3, <1>4, <2>4, <2>5, <3>1, <3>2, <3>3, <3>4 DEF RoomCollecting
  <2>8. TypeOK' /\ OneBuffer' /\ RoomRequest'
    BY <1>1, <1>3, <2>1, <2>2, <2>3, <2>5 DEF TypeOK, OneBuffer, RoomRequest
  <2> QED
    BY <1>3, <2>6, <2>7, <2>8 DEF RoomInv, RoomPacket
<1>7. ASSUME dmx' = dmx, output' \in BOOLEAN, due' \in Sent \cup {NoMessage},
             rdm' \in Rdm, rdm'.index = rdm.index \/ rdm'.index = 0,
             reader' \in Reader, reader'.at # "take", reader'.buffer = 0
      PROVE  RoomInv'
  <2>1. RoomPacket'
    BY <1>3, <1>4, <1>7 DEF RoomInv, RoomPacket, RoomComplete, RoomTaken, RoomCollecting
  <2>2. RoomRequest'
    BY <1>1, <1>3, <1>7, ReceiveAssumption DEF RoomRequest
  <2>3. TypeOK' /\ OneBuffer'
    BY <1>1, <1>3, <1>7 DEF TypeOK, OneBuffer
  <2> QED
    BY <1>3, <2>1, <2>2, <2>3 DEF RoomInv
<1>8. ASSUME NEW place \in Places \ {"take"}, Go(place)
      PROVE  reader' \in Reader /\ reader'.at # "take" /\ reader'.buffer = 0
  <2>1. reader' = [reader EXCEPT !.at = place]
    BY <1>8 DEF Go
  <2>2. reader' \in Reader
    BY <1>1, <2>1, ReaderType
  <2> QED
    BY <1>1, <1>8, <2>1, <2>2 DEF Reader
<1>9. due \in Sent \cup {NoMessage}
  BY <1>1 DEF TypeOK
<1>10. CASE GetDmxAvailable /\ ~dmx[0].full
  <2>1. /\ Go("receive") /\ output' = (output /\ rate)
        /\ dmx' = dmx /\ rdm' = rdm /\ due' = due
    BY <1>10 DEF GetDmxAvailable, ReadBuffer, SingleBuffer, irqVars
  <2> QED
    BY <1>1, <1>2, <1>7, <1>8, <1>9, <2>1
<1>11. CASE ReadLength
  <2>1. /\ dmx' = dmx /\ rdm' = rdm /\ due' = due /\ output' = output
        /\ reader' = [reader EXCEPT !.at = "copy", !.length = dmx[0].slots]
    BY <1>1, <1>11 DEF ReadLength, irqVars
  <2>2. reader' \in Reader
    BY <1>1, <1>2, <2>1, ReaderType
  <2>3. reader'.at = "copy" /\ reader'.buffer = 0
    BY <1>1, <2>1 DEF Reader
  <2> QED
    BY <1>1, <1>7, <1>9, <2>1, <2>2, <2>3
<1>12. CASE CopyPacket
  <2>1. /\ dmx' = dmx /\ rdm' = rdm /\ due' = due /\ output' = TRUE
        /\ reader' = Resting("receive")
    BY <1>12 DEF CopyPacket, irqVars
  <2>2. reader' \in Reader /\ reader'.at = "receive" /\ reader'.buffer = 0
    BY <1>1, <1>2, <2>1 DEF Resting, Reader
  <2> QED
    BY <1>1, <1>7, <1>9, <2>1, <2>2
<1>13. CASE RdmReceive \/ HandleMessage
  <2>1. /\ dmx' = dmx /\ rdm' = rdm /\ due' = due /\ output' = output
        /\ Go("clear") \/ Go("available")
    BY <1>13 DEF RdmReceive, HandleMessage, irqVars
  <2> QED
    BY <1>1, <1>2, <1>7, <1>8, <1>9, <2>1
<1>14. CASE ClearIndex
  <2>1. /\ dmx' = dmx /\ due' = due /\ output' = output /\ Go("check")
        /\ rdm' = [rdm EXCEPT !.index = 0, !.end = FALSE]
    BY <1>14 DEF ClearIndex
  <2>2. rdm' \in Rdm /\ rdm'.index = 0
    BY <1>1, <2>1 DEF Rdm
  <2> QED
    BY <1>1, <1>2, <1>7, <1>8, <1>9, <2>1, <2>2
<1>15. CASE CheckMessage
  <2>1. /\ dmx' = dmx /\ rdm' = rdm /\ output' = output
        /\ Go("handle") \/ Go("available")
        /\ due' = due \/ due' = NoMessage
    BY <1>15 DEF CheckMessage, irqVars
  <2> QED
    BY <1>1, <1>2, <1>7, <1>8, <1>9, <2>1
<1> QED
  BY <1>5, <1>6, <1>10, <1>11, <1>12, <1>13, <1>14, <1>15 DEF MainStep

LEMMA RoomDirection ==
  ASSUME RoomInv, DataDisable \/ DataEnable
  PROVE  RoomInv'
<1>1. /\ dmx' = dmx /\ active' = active /\ rdm' = rdm /\ counted' = counted /\ rate' = rate
      /\ output' = output /\ reader' = reader /\ due' = due /\ state' = "kIdle"
      /\ listening' \in BOOLEAN /\ reader.at # "take"
  BY DEF DataDisable, DataEnable
<1>2. line' \in Line /\ line'.message = line.message /\ line'.next = line.next
  <2>1. FALSE \in BOOLEAN
    OBVIOUS
  <2> QED
    BY <2>1 DEF DataDisable, DataEnable, RoomInv, TypeOK, Line
<1>3. faults' \in 0 .. Faults /\ (Slack => Slack')
  BY ReceiveAssumption DEF DataDisable, DataEnable, RoomInv, TypeOK, Slack
<1>4. RoomPacket'
  BY <1>1, <1>3 DEF RoomInv, RoomPacket, RoomComplete, RoomTaken, RoomCollecting
<1>5. TypeOK'
  BY <1>1, <1>2, <1>3 DEF RoomInv, TypeOK, States
<1>6. LineInv' /\ OneBuffer' /\ RoomRequest'
  BY <1>1, <1>2 DEF RoomInv, LineInv, OneBuffer, RoomRequest
<1> QED
  BY <1>4, <1>5, <1>6 DEF RoomInv

LEMMA RoomUnchanged ==
  ASSUME RoomInv, Second \/ UNCHANGED vars
  PROVE  RoomInv'
<1>1. /\ dmx' = dmx /\ active' = active /\ rdm' = rdm /\ reader' = reader /\ due' = due
      /\ state' = state /\ listening' = listening /\ line' = line /\ faults' = faults
      /\ output' = output /\ counted' \in BOOLEAN /\ rate' \in BOOLEAN
  BY DEF Second, vars, irqVars, RoomInv, TypeOK
<1>2. TypeOK'
  BY <1>1 DEF RoomInv, TypeOK
<1>3. LineInv' /\ OneBuffer' /\ RoomRequest'
  BY <1>1 DEF RoomInv, LineInv, OneBuffer, RoomRequest, Quiet, Over
<1>4. RoomPacket'
  BY <1>1 DEF RoomInv, RoomPacket, RoomComplete, RoomTaken, RoomCollecting, Over, Slack
<1> QED
  BY <1>2, <1>3, <1>4 DEF RoomInv

LEMMA RoomInit == Init => RoomInv
<1> SUFFICES ASSUME Init  PROVE RoomInv
  OBVIOUS
<1>1. RoomPacket
  BY DEF RoomPacket, RoomComplete, RoomTaken, RoomCollecting, Init, Resting
<1>2. RoomRequest
  BY DEF RoomRequest, Init
<1> QED
  BY <1>1, <1>2, ReceiveInit DEF RoomInv

LEMMA RoomStep ==
  ASSUME SingleBuffer, Faults <= 1 \/ (Pause \/ CutShort => line.next # 1)
  PROVE  RoomInv /\ [Next]_vars => RoomInv'
<1> SUFFICES ASSUME RoomInv, [Next]_vars  PROVE RoomInv'
  OBVIOUS
<1>1. CASE \E m \in Messages : StartMessage(m)
  BY <1>1, RoomStartMessage
<1>2. CASE NextByte
  BY <1>2, RoomByte
<1>3. CASE GoIdle \/ Pause
  BY <1>3, RoomIdle
<1>4. CASE CutShort
  BY <1>4, RoomCutShort
<1>5. CASE MainStep
  BY <1>5, RoomMain
<1>6. CASE DataDisable \/ DataEnable
  BY <1>6, RoomDirection
<1>7. CASE Second \/ UNCHANGED vars
  BY <1>7, RoomUnchanged
<1> QED
  BY <1>1, <1>2, <1>3, <1>4, <1>5, <1>6, <1>7 DEF Next

LEMMA RoomIndex == RoomInv => IndexInRoom
<1> SUFFICES ASSUME RoomInv  PROVE IndexInRoom
  OBVIOUS
<1>1. /\ TypeOK /\ OneBuffer /\ RoomRequest /\ RoomComplete /\ RoomCollecting
  BY DEF RoomInv, RoomPacket
<1>2. /\ dmx[0].slots \in Nat /\ rdm.index \in Nat /\ Channels \in Nat /\ RdmSize \in Nat
  BY <1>1, ReceiveAssumption DEF TypeOK, Buffer, Rdm
<1>3. state = "kDmxData" => dmx[active].slots \in 0 .. Channels
  BY <1>1, <1>2 DEF OneBuffer, RoomCollecting
<1>4. state \in {"kRdmData", "kRdmChecksumh", "kRdmChecksuml"}
        => rdm.index \in 0 .. RdmSize
  BY <1>1, <1>2 DEF RoomRequest
<1>5. \A b \in {0, 1} : dmx[b].full => dmx[b].slots >= 1
  BY <1>1 DEF OneBuffer, RoomComplete
<1> QED
  BY <1>3, <1>4, <1>5 DEF IndexInRoom

-----------------------------------------------------------------------------
\* With one message cut short or paused, or one change of the port, at any
\* place and any moment: the interrupt stays inside its buffers, and the start
\* code is subtracted from a packet that has one.
THEOREM IndexStaysInRoom ==
  ASSUME SingleBuffer, Faults <= 1
  PROVE  Spec => []IndexInRoom
<1>1. RoomInv /\ [Next]_vars => RoomInv'
  BY RoomStep
<1> QED
  BY <1>1, RoomInit, RoomIndex, PTL DEF Spec

\* The same with any number of them, as long as no message ends right behind
\* its first byte.
THEOREM IndexStaysInRoomLong ==
  ASSUME SingleBuffer
  PROVE  Spec /\ LongPackets => []IndexInRoom
<1>1. RoomInv /\ [Next]_vars /\ [Pause \/ CutShort => line.next # 1]_vars => RoomInv'
  <2>1. CASE Pause \/ CutShort => line.next # 1
    BY <2>1, RoomStep
  <2>2. CASE UNCHANGED vars
    BY <2>2, RoomUnchanged
  <2> QED
    BY <2>1, <2>2
<1> QED
  BY <1>1, RoomInit, RoomIndex, PTL DEF Spec, LongPackets
=============================================================================
