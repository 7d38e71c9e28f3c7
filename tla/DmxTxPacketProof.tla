-------------------------- MODULE DmxTxPacketProof --------------------------
(***************************************************************************)
(* A packet started outside SetTransmitData is whole, for every number of  *)
(* ports and slots, every set of universes and every sequence of calls.    *)
(*                                                                         *)
(* The argument: the buffer the writer left holds what was asked for last; *)
(* while the writer is in the other buffer a clean packet is read from     *)
(* this one, because the packet's start made both indices equal and the    *)
(* writer moves away before it writes.                                     *)
(***************************************************************************)
EXTENDS DmxTxPacket, DmxTransmitProof

Copying(p) == At("CopyData", p)

\* The buffer at write_index holds what was asked for last, unless it is just
\* being written; a level is only ever in buffer 0.
Fresh(p) ==
  ~Copying(p) =>
    /\ Holds(data[p][port[p].write], latest[p])
    /\ port[p].write = 1 => Carries(data[p][1], latest[p].universe)

\* How far SetTransmitData has come.
Written(p) ==
  Copying(p) =>
    LET packet == data[p][port[p].write] IN
    /\ written <= LastCopied(given) + 2
    /\ written >= 1 => packet.length = PacketLength(given)
    /\ \A i \in Index : i + 2 <= written => packet.slot[i] = given.slot[i]

\* A clean packet is whole, and the writer is not in its buffer.
Sending(p) ==
  port[p].dma = "dmx" /\ wire[p].clean =>
    /\ Holds(Sent(p), wire[p].asked)
    /\ Copying(p) => port[p].read # port[p].write
    /\ At("SwitchBuffer", p) => port[p].read = port[p].write

TodoOuter == todo # << >> => Tail(todo) \in Seq(OuterStep)

AtRest == (\A p \in Ports : ~Copying(p)) => written = 0

-----------------------------------------------------------------------------
\* The lengths.
LEMMA CappedRange ==
  ASSUME NEW u \in Universe
  PROVE  /\ Capped(u) \in 1 .. Channels
         /\ LastCopied(u) \in Index
         /\ PacketLength(u) \in 0 .. (Channels + 1)
BY TxAssumption DEF Universe, Capped, LastCopied, PacketLength, Index

LEMMA LevelType ==
  ASSUME NEW v \in {0, 255}
  PROVE  Level(v) \in Packet /\ Level(v).slot \in [Index -> Values]
<1>1. \A i \in Index : (IF i = 0 THEN 0 ELSE v) \in Values
  BY TxAssumption
<1>2. Channels + 1 \in 0 .. (Channels + 1)
  BY TxAssumption
<1> QED
  BY <1>1, <1>2, Zenon DEF Level, Packet

LEMMA NoUniverseType == NoUniverse \in Universe /\ NoWire \in [clean : BOOLEAN, asked : Asked]
<1>1. 1 \in 1 .. (Channels + 1)
  BY TxAssumption
<1>2. NoUniverse \in Universe
  BY <1>1, LevelType, Zenon DEF NoUniverse, Universe
<1>3. [universe |-> NoUniverse, level |-> {0}] \in Asked
  BY <1>2, Zenon DEF Asked
<1> QED
  BY <1>2, <1>3, Zenon DEF NoWire

-----------------------------------------------------------------------------
(***************************************************************************)
(* Every step of the data module is a step of the driver, or none.         *)
(***************************************************************************)
LEMMA StepSimulation == [TxNext]_txVars => [Next]_vars
BY DEF TxNext, TxMain, SetSendData, WriteLength, WriteSlot, CopyDone, ClearData,
   OtherStep, Timer, Dma, Next, MainStep, Irq, vars, txVars

LEMMA DriverInv == IInv /\ [TxNext]_txVars => IInv'
BY StepSimulation, StepInv

-----------------------------------------------------------------------------
(***************************************************************************)
(* What a step expands to is never one of the inner steps of               *)
(* SetTransmitData, but for the two that lead to them.                     *)
(***************************************************************************)
LEMMA OuterPlain ==
  ASSUME NEW op \in PlainOps, NEW p \in Ports
  PROVE  S(op, p) \in OuterStep
BY PlainStep DEF S, OuterStep, PlainOps

LEMMA OuterDirection ==
  ASSUME NEW op \in DirectionOps, NEW p \in Ports, NEW d \in Directions
  PROVE  SX(op, p, d) \in OuterStep
BY DirectionStep DEF SX, OuterStep, DirectionOps

LEMMA OuterForEach ==
  ASSUME NEW op \in PlainOps
  PROVE  ForEachPort(op) \in Seq(OuterStep)
<1>1. N \in Nat
  BY ParametersAssumption
<1>2. ASSUME NEW i \in 1 .. N  PROVE i - 1 \in Ports
  BY <1>1 DEF Ports
<1>3. ForEachPort(op) \in [1 .. N -> OuterStep]
  BY <1>2, OuterPlain DEF ForEachPort
<1> QED
  BY <1>1, <1>3

Expands == \E steps \in Seq(OuterStep) : Goto(steps)

LEMMA Expansion ==
  ASSUME TypeOK, NEW p \in Ports, MainStep(p), ~SetSendDataStep(p), ~SwitchBufferStep(p)
  PROVE  Expands
<1> DEFINE one(op) == << S(op, p) >>
<1>0. /\ << >> \in Seq(OuterStep)
      /\ \A op \in PlainOps : one(op) \in Seq(OuterStep)
  BY OuterPlain
<1>00. todo \in Seq(Step)
  BY DEF TypeOK
<1>1. CASE SetPortDirectionStep(p)
  <2> DEFINE d == Head(todo).x
  <2>1. PICK enable \in BOOLEAN :
          /\ At(IF enable THEN "SetPortDirectionEnable" ELSE "SetPortDirection", p)
          /\ Goto((IF port[p].direction # d
                     THEN << S("DataDisable", p), SX("SetPin", p, d) >>
                     ELSE IF enable THEN << >> ELSE << S("DataDisable", p) >>)
                  \o (IF enable THEN << S("DataEnable", p) >> ELSE << >>))
    BY <1>1 DEF SetPortDirectionStep
  <2>2. d \in Directions
    BY <2>1, <1>00, HeadArgument DEF DirectionOps
  <2>3. << S("DataDisable", p), SX("SetPin", p, d) >> \in Seq(OuterStep)
    BY <2>2, OuterPlain, OuterDirection DEF PlainOps, DirectionOps
  <2>4. << S("DataDisable", p) >> \in Seq(OuterStep) /\ << S("DataEnable", p) >> \in Seq(OuterStep)
    BY <1>0 DEF PlainOps
  <2> DEFINE first == IF port[p].direction # d
                        THEN << S("DataDisable", p), SX("SetPin", p, d) >>
                        ELSE IF enable THEN << >> ELSE << S("DataDisable", p) >>
             second == IF enable THEN << S("DataEnable", p) >> ELSE << >>
  <2>5. first \in Seq(OuterStep) /\ second \in Seq(OuterStep)
    BY <2>3, <2>4, <1>0
  <2>6. first \o second \in Seq(OuterStep)
    BY <2>5
  <2>7. Goto(first \o second)
    BY <2>1
  <2> QED
    BY <2>6, <2>7 DEF Expands
<1>2. CASE SetOutputStyleStep(p)
  <2>1. ForEachPort("ConstantDisable") \o ForEachPort("ConstantStart") \in Seq(OuterStep)
    BY OuterForEach DEF PlainOps
  <2>2. << S("StartDmxOutput", p) >> \in Seq(OuterStep)
    BY <1>0 DEF PlainOps
  <2> QED
    BY <1>2, <1>0, <2>1, <2>2 DEF SetOutputStyleStep, Expands
<1>3. CASE DataEnableStep(p)
  <2>1. port[p].style \in OutputStyles
    BY DEF TypeOK, Port
  <2>2. SetOutputStyle(p, port[p].style) \in Seq(OuterStep)
    BY <2>1 DEF SetOutputStyle, SX, Step, OuterStep
  <2> QED
    BY <1>3, <2>2, <1>0 DEF DataEnableStep, Expands
<1>4. CASE BlackoutStep(p)
  <2>1. << S("DataDisable", p), S("ClearData", p), S("DataEnable", p) >> \in Seq(OuterStep)
    BY OuterPlain DEF PlainOps
  <2> QED
    BY <1>4, <2>1, <1>0 DEF BlackoutStep, Expands
<1>5. CASE SetPinStep(p) \/ RxOffStep(p) \/ ArmBreakStep(p) \/ ArmRdmBreakStep(p)
             \/ SendDiscoveryStep(p) \/ WaitDiscoveryStep(p) \/ ClearDataStep(p)
  BY <1>5, <1>0 DEF SetPinStep, RxOffStep, ArmBreakStep, ArmRdmBreakStep,
     SendDiscoveryStep, WaitDiscoveryStep, ClearDataStep, Expands
<1>6. CASE DataDisableStep(p)
  BY <1>6, <1>0 DEF DataDisableStep, Expands, PlainOps
<1>7. CASE WaitIdleStep(p) \/ WaitTcStep(p) \/ ForceIdleStep(p)
  BY <1>7, <1>0 DEF WaitIdleStep, WaitTcStep, ForceIdleStep, Expands, PlainOps
<1>8. CASE ConstantLoopStep(p)
  BY <1>8, <1>0 DEF ConstantLoopStep, Expands, PlainOps
<1>9. CASE StartDmxOutputStep(p) \/ StartRdmOutputStep(p) \/ DriveBreakStep(p)
  BY <1>9, <1>0 DEF StartDmxOutputStep, StartRdmOutputStep, DriveBreakStep, Expands, PlainOps
<1>10. CASE CopyDataStep(p)
  BY <1>10, <1>0 DEF CopyDataStep, Expands, PlainOps
<1>11. CASE StartSendStyleDirectStep(p) \/ SyncPortStep(p)
  BY <1>11, <1>0 DEF StartSendStyleDirectStep, SyncPortStep, Expands, PlainOps
<1> QED
  BY <1>1, <1>2, <1>3, <1>4, <1>5, <1>6, <1>7, <1>8, <1>9, <1>10, <1>11 DEF MainStep

\* After such a step no port is inside SetTransmitData.
LEMMA ExpandsOuter ==
  ASSUME todo \in Seq(Step), todo # << >>, TodoOuter, Expands
  PROVE  /\ TodoOuter'
         /\ \A q \in Ports : ~Copying(q)' /\ ~At("SwitchBuffer", q)'
<1>1. Tail(todo) \in Seq(OuterStep)
  BY DEF TodoOuter
<1>2. todo' \in Seq(OuterStep)
  BY <1>1 DEF Expands, Goto
<1>3. todo' # << >> => Tail(todo') \in Seq(OuterStep) /\ Head(todo') \in OuterStep
  BY <1>2
<1> QED
  BY <1>3 DEF TodoOuter, Copying, At, OuterStep

LEMMA CallOuter ==
  ASSUME NEW steps \in Calls, Call(steps)
  PROVE  /\ TodoOuter'
         /\ \A q \in Ports : ~Copying(q)' /\ ~At("SwitchBuffer", q)'
         /\ \A q \in Ports : ~Copying(q)
<1>1. todo' \in Seq(OuterStep) /\ todo = << >>
  BY TxAssumption DEF Call
<1>2. todo' # << >> => Tail(todo') \in Seq(OuterStep) /\ Head(todo') \in OuterStep
  BY <1>1
<1> QED
  BY <1>1, <1>2 DEF TodoOuter, Copying, At, OuterStep

\* One step is replaced by another one.
LEMMA Replaced ==
  ASSUME todo \in Seq(Step), todo # << >>, TodoOuter, NEW s \in Step, Goto(<< s >>)
  PROVE  TodoOuter' /\ todo' # << >> /\ Head(todo') = s
<1>1. Tail(todo) \in Seq(OuterStep) /\ Tail(todo) \in Seq(Step)
  BY DEF TodoOuter
<1>2. todo' = << s >> \o Tail(todo)
  BY DEF Goto
<1>3. Head(todo') = s /\ Tail(todo') = Tail(todo) /\ todo' # << >>
  BY <1>1, <1>2
<1> QED
  BY <1>1, <1>3 DEF TodoOuter

LEMMA Replacements ==
  ASSUME TypeOK, TodoOuter, NEW p \in Ports
  PROVE  /\ SetSendDataStep(p) =>
              /\ TodoOuter'
              /\ \A q \in Ports : /\ Copying(q)' => q = p /\ port[p].read # port[p].write
                                  /\ At("SwitchBuffer", q)' => port[q].read = port[q].write
         /\ SwitchBufferStep(p) =>
              /\ TodoOuter'
              /\ Copying(p)'
              /\ \A q \in Ports : ~At("SwitchBuffer", q)' /\ (Copying(q)' => q = p)
<1>0. todo \in Seq(Step)
  BY DEF TypeOK
<1>1. ASSUME SetSendDataStep(p)
      PROVE  /\ TodoOuter'
             /\ \A q \in Ports : /\ Copying(q)' => q = p /\ port[p].read # port[p].write
                                 /\ At("SwitchBuffer", q)' => port[q].read = port[q].write
  <2> DEFINE op == IF port[p].read = port[p].write THEN "SwitchBuffer" ELSE "CopyData"
             s == SX(op, p, Head(todo).x)
  <2>1. todo # << >> /\ Goto(<< s >>)
    BY <1>1 DEF SetSendDataStep, At
  <2>2. Head(todo).x \in SendStyles
    BY <1>1, <1>0, HeadArgument DEF SetSendDataStep, DataOps
  <2>3. s \in Step
    BY <2>2 DEF SX, Step, DataOps
  <2>4. s.op = op /\ s.p = p
    BY DEF SX
  <2> HIDE DEF s
  <2>5. TodoOuter' /\ todo' # << >> /\ Head(todo') = s
    BY <1>0, <2>1, <2>3, Replaced
  <2> QED
    BY <2>4, <2>5 DEF Copying, At
<1>2. ASSUME SwitchBufferStep(p)
      PROVE  /\ TodoOuter'
             /\ Copying(p)'
             /\ \A q \in Ports : ~At("SwitchBuffer", q)' /\ (Copying(q)' => q = p)
  <2> DEFINE s == SX("CopyData", p, Head(todo).x)
  <2>1. todo # << >> /\ Goto(<< s >>)
    BY <1>2 DEF SwitchBufferStep, At
  <2>2. Head(todo).x \in SendStyles
    BY <1>2, <1>0, HeadArgument DEF SwitchBufferStep, DataOps
  <2>3. s \in Step
    BY <2>2 DEF SX, Step, DataOps
  <2>4. s.op = "CopyData" /\ s.p = p
    BY DEF SX
  <2> HIDE DEF s
  <2>5. TodoOuter' /\ todo' # << >> /\ Head(todo') = s
    BY <1>0, <2>1, <2>3, Replaced
  <2> QED
    BY <2>4, <2>5 DEF Copying, At
<1> QED
  BY <1>1, <1>2

-----------------------------------------------------------------------------
(***************************************************************************)
(* Types.                                                                  *)
(***************************************************************************)
LEMMA BufferUpdates ==
  ASSUME NEW d \in Packet
  PROVE  /\ \A l \in 0 .. (Channels + 1) : [d EXCEPT !.length = l] \in Packet
         /\ \A i \in Index, v \in Values : [d EXCEPT !.slot[i] = v] \in Packet
<1>1. ASSUME NEW l \in 0 .. (Channels + 1)
      PROVE  [d EXCEPT !.length = l] \in Packet
  BY <1>1, Zenon DEF Packet
<1>2. ASSUME NEW i \in Index, NEW v \in Values
      PROVE  [d EXCEPT !.slot[i] = v] \in Packet
  <2>1. d.slot \in [Index -> Values]
    BY DEF Packet
  <2>2. [d.slot EXCEPT ![i] = v] \in [Index -> Values]
    BY <2>1, Zenon
  <2>3. [d EXCEPT !.slot = [d.slot EXCEPT ![i] = v]] \in Packet
    BY <2>2, Zenon DEF Packet
  <2>4. [d EXCEPT !.slot[i] = v] = [d EXCEPT !.slot = [d.slot EXCEPT ![i] = v]]
    BY Zenon
  <2> QED
    BY <2>3, <2>4
<1> QED
  BY <1>1, <1>2

LEMMA DataAssigned ==
  ASSUME TxTypeOK, NEW p \in Ports, NEW i \in {0, 1}, NEW d \in Packet
  PROVE  /\ [data EXCEPT ![p][i] = d] \in [Ports -> [{0, 1} -> Packet]]
         /\ [data EXCEPT ![p][i] = d][p][i] = d
         /\ \A q \in Ports, j \in {0, 1} :
              q # p \/ j # i => [data EXCEPT ![p][i] = d][q][j] = data[q][j]
<1>1. data \in [Ports -> [{0, 1} -> Packet]]
  BY DEF TxTypeOK
<1>2. [data EXCEPT ![p][i] = d] = [data EXCEPT ![p] = [data[p] EXCEPT ![i] = d]]
  BY Zenon
<1>3. [data[p] EXCEPT ![i] = d] \in [{0, 1} -> Packet]
  BY <1>1
<1> QED
  BY <1>1, <1>2, <1>3

LEMMA AskedTypes ==
  ASSUME NEW u \in Universe
  PROVE  /\ [universe |-> u, level |-> {}] \in Asked
         /\ \A a \in Asked, v \in {0, 255} : [a EXCEPT !.level = {v}] \in Asked
BY Zenon DEF Asked

LEMMA GivenType == Universes \subseteq Universe
BY TxAssumption

-----------------------------------------------------------------------------
(***************************************************************************)
(* The steps.  PortInv is what the steps preserve beside the types.        *)
(***************************************************************************)
PortInv == \A q \in Ports : Fresh(q) /\ Written(q) /\ Sending(q)
Inner   == TxTypeOK /\ TodoOuter /\ AtRest /\ PortInv

LEMMA PortFacts ==
  ASSUME TypeOK
  PROVE  /\ todo \in Seq(Step)
         /\ port \in [Ports -> Port]
         /\ \A q \in Ports : port[q].read \in {0, 1} /\ port[q].write \in {0, 1}
BY DEF TypeOK, Port

\* No port is inside SetTransmitData, neither before nor after the step, and
\* the buffers stay as they are.
LEMMA QuietStep ==
  ASSUME Inner, TypeOK', UNCHANGED dataVars, TodoOuter',
         \A q \in Ports : /\ ~Copying(q) /\ ~Copying(q)' /\ ~At("SwitchBuffer", q)'
                          /\ port'[q].read = port[q].read
                          /\ port'[q].write = port[q].write
                          /\ port'[q].dma = port[q].dma
  PROVE  Inner'
<1>1. TxTypeOK' /\ AtRest'
  BY DEF Inner, TxTypeOK, AtRest, dataVars
<1>2. ASSUME NEW q \in Ports  PROVE Fresh(q)' /\ Written(q)' /\ Sending(q)'
  BY <1>2 DEF Inner, PortInv, Fresh, Written, Sending, Sent, Holds, Carries, dataVars
<1> QED
  BY <1>1, <1>2 DEF Inner, PortInv

LEMMA CallStep ==
  ASSUME Inner, TypeOK', NEW steps \in Calls, Call(steps), UNCHANGED dataVars
  PROVE  Inner'
BY CallOuter, QuietStep DEF Call

\* The driver's other steps leave the indices and the transfer alone.
LEMMA OtherPort ==
  ASSUME TypeOK, NEW p \in Ports, MainStep(p), ~SwitchBufferStep(p), NEW q \in Ports
  PROVE  /\ port'[q].read = port[q].read
         /\ port'[q].write = port[q].write
         /\ port'[q].dma = port[q].dma
<1>0. port \in [Ports -> Port]
  BY DEF TypeOK
<1> QED
  BY <1>0, SMTT(60) DEF Port, MainStep, SetPortDirectionStep, SetPinStep, DataDisableStep,
     RxOffStep, WaitIdleStep, WaitTcStep, ForceIdleStep, DataEnableStep,
     SetOutputStyleStep, ConstantLoopStep, StartDmxOutputStep, StartRdmOutputStep,
     DriveBreakStep, ArmBreakStep, ArmRdmBreakStep, SetSendDataStep, CopyDataStep,
     StartSendStyleDirectStep, SyncPortStep, BlackoutStep, ClearDataStep,
     SendDiscoveryStep, WaitDiscoveryStep

LEMMA SwitchStep ==
  ASSUME Inner, TypeOK', NEW p \in Ports, SwitchBufferStep(p), UNCHANGED dataVars
  PROVE  Inner'
<1>0. TypeOK /\ \A q \in Ports : ~Copying(q)
  BY DEF Inner, TxTypeOK, SwitchBufferStep, Copying, At
<1>1. /\ TodoOuter'
      /\ Copying(p)'
      /\ \A q \in Ports : ~At("SwitchBuffer", q)' /\ (Copying(q)' => q = p)
  BY <1>0, Replacements DEF Inner
<1>2. written = 0 /\ written' = 0
  BY <1>0 DEF Inner, AtRest, dataVars
<1>3. /\ \A q \in Ports : port'[q].read = port[q].read /\ port'[q].dma = port[q].dma
      /\ \A q \in Ports : q # p => port'[q].write = port[q].write
      /\ port'[p].write = 1 - port[p].write
  BY <1>0 DEF SwitchBufferStep, TypeOK, Port
<1>4. TxTypeOK' /\ AtRest'
  BY <1>1, <1>2 DEF Inner, TxTypeOK, AtRest, dataVars
<1>5. ASSUME NEW q \in Ports  PROVE Fresh(q)'
  BY <1>0, <1>1, <1>3, <1>5 DEF Inner, PortInv, Fresh, Holds, Carries, dataVars
<1>6. ASSUME NEW q \in Ports  PROVE Written(q)'
  <2>1. \A i \in Index : ~(i + 2 <= written')
    BY <1>2, TxAssumption DEF Index
  <2>2. written' <= LastCopied(given') + 2
    <3>1. given' = given /\ given \in Universe
      BY DEF Inner, TxTypeOK, dataVars
    <3> QED
      BY <1>2, <3>1, CappedRange, TxAssumption DEF Index
  <2> QED
    BY <1>2, <2>1, <2>2 DEF Written
<1>7. ASSUME NEW q \in Ports  PROVE Sending(q)'
  <2>1. Sending(q) /\ port[q].write \in {0, 1}
    BY <1>0, <1>7, PortFacts DEF Inner, PortInv
  <2>2. q = p => At("SwitchBuffer", q)
    BY DEF SwitchBufferStep
  <2>3. Holds(Sent(q), wire[q].asked)' <=> Holds(Sent(q), wire[q].asked)
    BY <1>3, <1>7 DEF Holds, Carries, Sent, dataVars
  <2> QED
    BY <1>1, <1>3, <2>1, <2>2, <2>3 DEF Sending, dataVars
<1> QED
  BY <1>1, <1>4, <1>5, <1>6, <1>7 DEF Inner, PortInv

LEMMA OtherInv ==
  ASSUME Inner, TypeOK', NEW p \in Ports, OtherStep(p)
  PROVE  Inner'
<1>0. TypeOK /\ MainStep(p) /\ UNCHANGED dataVars
  BY DEF Inner, TxTypeOK, OtherStep
<1>1. CASE SwitchBufferStep(p)
  BY <1>0, <1>1, SwitchStep
<1>2. CASE ~SwitchBufferStep(p)
  <2>1. ~SetSendDataStep(p) /\ todo # << >> /\ \A q \in Ports : ~Copying(q)
    <3>1. todo # << >>
      BY <1>0 DEF MainStep, At, SetPortDirectionStep, SetPinStep, DataDisableStep,
     RxOffStep, WaitIdleStep, WaitTcStep, ForceIdleStep, DataEnableStep,
     SetOutputStyleStep, ConstantLoopStep, StartDmxOutputStep, StartRdmOutputStep,
     DriveBreakStep, ArmBreakStep, ArmRdmBreakStep, SetSendDataStep, SwitchBufferStep,
     CopyDataStep, StartSendStyleDirectStep, SyncPortStep, BlackoutStep, ClearDataStep,
     SendDiscoveryStep, WaitDiscoveryStep
    <3> QED
      BY <3>1 DEF OtherStep, DataOp, SetSendDataStep, Copying, At
  <2>2. Expands
    BY <1>0, <1>2, <2>1, Expansion
  <2>3. TodoOuter' /\ \A q \in Ports : ~Copying(q)' /\ ~At("SwitchBuffer", q)'
    BY <1>0, <2>1, <2>2, PortFacts, ExpandsOuter DEF Inner
  <2> QED
    BY <1>0, <1>2, <2>1, <2>3, OtherPort, QuietStep
<1> QED
  BY <1>1, <1>2

LEMMA SetSendDataInv ==
  ASSUME Inner, TypeOK', NEW p \in Ports, SetSendData(p)
  PROVE  Inner'
<1>0. TypeOK /\ SetSendDataStep(p) /\ \A q \in Ports : ~Copying(q)
  BY DEF Inner, TxTypeOK, SetSendData, SetSendDataStep, Copying, At
<1>1. /\ TodoOuter'
      /\ \A q \in Ports : /\ Copying(q)' => q = p /\ port[p].read # port[p].write
                          /\ At("SwitchBuffer", q)' => port[q].read = port[q].write
  BY <1>0, Replacements DEF Inner
<1>2. /\ written = 0 /\ written' = 0 /\ port' = port
      /\ data' = data /\ latest' = latest /\ wire' = wire
  BY <1>0 DEF Inner, AtRest, SetSendData, SetSendDataStep
<1>3. given' \in Universe
  BY GivenType DEF SetSendData
<1>4. TxTypeOK' /\ AtRest'
  BY <1>2, <1>3 DEF Inner, TxTypeOK, AtRest
<1>5. ASSUME NEW q \in Ports  PROVE Fresh(q)'
  BY <1>0, <1>2, <1>5 DEF Inner, PortInv, Fresh, Holds, Carries
<1>6. ASSUME NEW q \in Ports  PROVE Written(q)'
  <2>1. \A i \in Index : ~(i + 2 <= written')
    BY <1>2, TxAssumption DEF Index
  <2>2. written' <= LastCopied(given') + 2
    BY <1>2, <1>3, CappedRange, TxAssumption DEF Index
  <2> QED
    BY <1>2, <2>1, <2>2 DEF Written
<1>7. ASSUME NEW q \in Ports  PROVE Sending(q)'
  BY <1>1, <1>2, <1>7 DEF Inner, PortInv, Sending, Holds, Carries, Sent
<1> QED
  BY <1>1, <1>4, <1>5, <1>6, <1>7 DEF Inner, PortInv

\* The writer is in the buffer that a clean packet is not read from.
LEMMA WriterApart ==
  ASSUME Inner, NEW p \in Ports, NEW q \in Ports, Copying(p),
         port[q].dma = "dmx", wire[q].clean
  PROVE  q # p \/ port[q].read # port[p].write
BY DEF Inner, PortInv, Sending

\* Writing into the buffer at write_index of the port that copies.
LEMMA WritingInv ==
  ASSUME Inner, TypeOK', NEW p \in Ports, Copying(p), NEW d \in Packet,
         data' = [data EXCEPT ![p][port[p].write] = d],
         written' \in 0 .. (Channels + 2),
         UNCHANGED <<port, continuous, todo, given, latest, wire>>,
         written' <= LastCopied(given) + 2,
         written' >= 1 => d.length = PacketLength(given),
         \A i \in Index : i + 2 <= written' => d.slot[i] = given.slot[i]
  PROVE  Inner'
<1>0. /\ TypeOK /\ port[p].write \in {0, 1}
      /\ \A q \in Ports : port[q].read \in {0, 1} /\ port[q].write \in {0, 1}
  BY PortFacts DEF Inner, TxTypeOK
<1>1. /\ data' \in [Ports -> [{0, 1} -> Packet]]
      /\ data'[p][port[p].write] = d
      /\ \A q \in Ports, j \in {0, 1} :
           q # p \/ j # port[p].write => data'[q][j] = data[q][j]
  BY <1>0, DataAssigned DEF Inner
<1>2. \A q \in Ports : (Copying(q)' <=> Copying(q)) /\ (Copying(q) => q = p)
                       /\ ~At("SwitchBuffer", q)
  BY DEF Copying, At
<1>3. /\ TxTypeOK'
      /\ TodoOuter'
      /\ AtRest'
  BY <1>1, <1>2 DEF Inner, TxTypeOK, TodoOuter, AtRest
<1>4. ASSUME NEW q \in Ports  PROVE Fresh(q)'
  <2>1. CASE q = p
    BY <1>2, <2>1 DEF Fresh
  <2>2. CASE q # p
    <3>1. data'[q][port[q].write] = data[q][port[q].write] /\ data'[q][1] = data[q][1]
      BY <1>0, <1>1, <1>4, <2>2
    <3> QED
      BY <1>2, <1>4, <3>1 DEF Inner, PortInv, Fresh, Holds, Carries
  <2> QED
    BY <2>1, <2>2
<1>5. ASSUME NEW q \in Ports  PROVE Written(q)'
  BY <1>1, <1>2, <1>5 DEF Written
<1>6. ASSUME NEW q \in Ports  PROVE Sending(q)'
  <2> SUFFICES ASSUME port[q].dma = "dmx", wire[q].clean
               PROVE  Sending(q)'
    BY DEF Sending
  <2>1. data'[q][port[q].read] = data[q][port[q].read]
    BY <1>0, <1>1, <1>6, WriterApart
  <2> QED
    BY <1>2, <1>6, <2>1 DEF Inner, PortInv, Sending, Holds, Carries, Sent, At
<1> QED
  BY <1>3, <1>4, <1>5, <1>6 DEF Inner, PortInv

LEMMA WriteLengthInv ==
  ASSUME Inner, TypeOK', NEW p \in Ports, WriteLength(p)
  PROVE  Inner'
<1> DEFINE w == port[p].write
           d == [data[p][w] EXCEPT !.length = PacketLength(given)]
<1>0. /\ w \in {0, 1} /\ given \in Universe /\ data \in [Ports -> [{0, 1} -> Packet]]
      /\ data[p][w] \in Packet
  BY PortFacts DEF Inner, TxTypeOK
<1>1. PacketLength(given) \in 0 .. (Channels + 1) /\ LastCopied(given) \in Index
  BY <1>0, CappedRange
<1>2. d \in Packet
  BY <1>0, <1>1, BufferUpdates
<1>3. d.length = PacketLength(given)
  BY <1>0 DEF Packet
<1>4. data' = [data EXCEPT ![p][w] = d]
  BY Zenon DEF WriteLength
<1>5. written' = 1 /\ Copying(p) /\ UNCHANGED <<port, continuous, todo, given, latest, wire>>
  BY DEF WriteLength, Copying
<1>6. \A i \in Index : ~(i + 2 <= 1)
  BY TxAssumption DEF Index
<1> HIDE DEF d
<1>7. written' \in 0 .. (Channels + 2) /\ written' <= LastCopied(given) + 2
  BY <1>1, <1>5, TxAssumption DEF Index
<1>8. \A i \in Index : i + 2 <= written' => d.slot[i] = given.slot[i]
  BY <1>5, <1>6
<1> QED
  BY <1>2, <1>3, <1>4, <1>5, <1>7, <1>8, WritingInv

LEMMA WriteSlotInv ==
  ASSUME Inner, TypeOK', NEW p \in Ports, WriteSlot(p)
  PROVE  Inner'
<1> DEFINE w == port[p].write
           old == data[p][w]
           k == written - 1
           d == [old EXCEPT !.slot[k] = given.slot[k]]
<1>0. /\ w \in {0, 1} /\ given \in Universe /\ old \in Packet
  BY PortFacts DEF Inner, TxTypeOK
<1>1. LastCopied(given) \in Index /\ Channels \in Nat
  BY <1>0, CappedRange, TxAssumption
<1>2. /\ written \in 1 .. (LastCopied(given) + 1) /\ written' = written + 1 /\ Copying(p)
      /\ UNCHANGED <<port, continuous, todo, given, latest, wire>>
  BY DEF WriteSlot, Copying
<1>3. k \in Index
  BY <1>1, <1>2 DEF Index
<1>4. given.slot[k] \in Values
  BY <1>0, <1>3 DEF Universe
<1>5. d \in Packet
  BY <1>0, <1>3, <1>4, BufferUpdates
<1>6. data' = [data EXCEPT ![p][w] = d]
  BY Zenon DEF WriteSlot
<1>7. d.length = old.length /\ d.slot = [old.slot EXCEPT ![k] = given.slot[k]]
  BY <1>0, Zenon DEF Packet
<1>8. old.slot \in [Index -> Values]
  BY <1>0 DEF Packet
<1>9. d.slot[k] = given.slot[k] /\ \A i \in Index : i # k => d.slot[i] = old.slot[i]
  BY <1>3, <1>7, <1>8
<1>10. /\ old.length = PacketLength(given)
       /\ \A i \in Index : i + 2 <= written => old.slot[i] = given.slot[i]
  BY <1>2 DEF Inner, PortInv, Written
<1>11. \A i \in Index : i + 2 <= written' => i = k \/ i + 2 <= written
  BY <1>1, <1>2 DEF Index
<1>12. /\ written' \in 0 .. (Channels + 2)
       /\ written' <= LastCopied(given) + 2
  BY <1>1, <1>2 DEF Index
<1> HIDE DEF d, k, old
<1>13. \A i \in Index : i + 2 <= written' => d.slot[i] = given.slot[i]
  BY <1>9, <1>10, <1>11
<1>14. d.length = PacketLength(given)
  BY <1>7, <1>10
<1> QED
  BY <1>2, <1>5, <1>6, <1>12, <1>13, <1>14, WritingInv

\* The universe is whole in the buffer when the copying is over.
LEMMA CopyDoneInv ==
  ASSUME Inner, TypeOK', NEW p \in Ports, CopyDone(p)
  PROVE  Inner'
<1>0. /\ TypeOK /\ CopyDataStep(p) /\ Copying(p) /\ todo # << >>
      /\ given \in Universe /\ port[p].write \in {0, 1}
      /\ data' = data /\ wire' = wire /\ written' = 0 /\ given' = NoUniverse
  BY PortFacts DEF Inner, TxTypeOK, CopyDone, CopyDataStep, Copying, At
<1>1. TodoOuter' /\ \A q \in Ports : ~Copying(q)' /\ ~At("SwitchBuffer", q)'
  <2>1. ~SetSendDataStep(p) /\ ~SwitchBufferStep(p) /\ MainStep(p)
    BY <1>0 DEF SetSendDataStep, SwitchBufferStep, MainStep, Copying, At
  <2> QED
    BY <1>0, <2>1, Expansion, ExpandsOuter, PortFacts DEF Inner
<1>2. \A q \in Ports : /\ port'[q].read = port[q].read
                       /\ port'[q].write = port[q].write
                       /\ port'[q].dma = port[q].dma
  <2>1. ~SwitchBufferStep(p) /\ MainStep(p)
    BY <1>0 DEF SwitchBufferStep, MainStep, Copying, At
  <2> QED
    BY <1>0, <2>1, OtherPort
<1>3. \A q \in Ports : q # p => ~Copying(q)
  BY <1>0 DEF Copying, At
<1>4. Carries(data[p][port[p].write], given)
  <2> DEFINE packet == data[p][port[p].write]
  <2>1. LastCopied(given) \in Index /\ Channels \in Nat
    BY <1>0, CappedRange, TxAssumption
  <2>2. written = LastCopied(given) + 2
    BY DEF CopyDone
  <2>3. /\ written >= 1 => packet.length = PacketLength(given)
        /\ \A i \in Index : i + 2 <= written => packet.slot[i] = given.slot[i]
    BY <1>0 DEF Inner, PortInv, Written
  <2>4. \A i \in 0 .. LastCopied(given) : i \in Index /\ i + 2 <= written
    BY <2>1, <2>2 DEF Index
  <2>5. written >= 1
    BY <2>1, <2>2 DEF Index
  <2> HIDE DEF packet
  <2>6. Carries(packet, given)
    BY <2>3, <2>4, <2>5 DEF Carries
  <2> QED
    BY <2>6 DEF packet
<1>5. latest' = [latest EXCEPT ![p] = [universe |-> given, level |-> {}]]
  BY DEF CopyDone
<1>6. latest \in [Ports -> Asked] /\ [universe |-> given, level |-> {}] \in Asked
  BY <1>0, AskedTypes DEF Inner, TxTypeOK
<1>7. /\ latest' \in [Ports -> Asked]
      /\ latest'[p] = [universe |-> given, level |-> {}]
      /\ \A q \in Ports : q # p => latest'[q] = latest[q]
  BY <1>5, <1>6
<1>8. TxTypeOK' /\ AtRest'
  <2>1. written' \in 0 .. (Channels + 2)
    BY <1>0, TxAssumption
  <2> QED
    BY <1>0, <1>7, <2>1, NoUniverseType DEF Inner, TxTypeOK, AtRest
<1>9. ASSUME NEW q \in Ports  PROVE Fresh(q)'
  <2>1. CASE q = p
    <3>1. Carries(data'[p][port'[p].write], latest'[p].universe)
      BY <1>0, <1>2, <1>4, <1>7
    <3> QED
      BY <1>0, <1>2, <2>1, <3>1 DEF Fresh, Holds
  <2>2. CASE q # p
    BY <1>0, <1>2, <1>3, <1>7, <1>9, <2>2 DEF Inner, PortInv, Fresh, Holds, Carries
  <2> QED
    BY <2>1, <2>2
<1>10. ASSUME NEW q \in Ports  PROVE Written(q)' /\ Sending(q)'
  <2>1. Written(q)'
    BY <1>1, <1>10 DEF Written
  <2>2. Sending(q)'
    BY <1>0, <1>1, <1>2, <1>10 DEF Inner, PortInv, Sending, Holds, Carries, Sent
  <2> QED
    BY <2>1, <2>2
<1> QED
  BY <1>1, <1>8, <1>9, <1>10 DEF Inner, PortInv

LEMMA ClearDataInv ==
  ASSUME Inner, TypeOK', NEW p \in Ports, ClearData(p)
  PROVE  Inner'
<1> PICK v \in {0, 255} :
      /\ data' = [data EXCEPT ![p][0] = Level(v)]
      /\ latest' = [latest EXCEPT ![p].level = {v}]
  BY DEF ClearData
<1>0. /\ TypeOK /\ ClearDataStep(p) /\ todo # << >>
      /\ \A q \in Ports : ~Copying(q)
      /\ wire' = [wire EXCEPT ![p].clean = FALSE]
      /\ given' = given /\ written' = written
  BY DEF Inner, TxTypeOK, ClearData, ClearDataStep, Copying, At
<1>1. TodoOuter' /\ \A q \in Ports : ~Copying(q)' /\ ~At("SwitchBuffer", q)'
  <2>1. ~SetSendDataStep(p) /\ ~SwitchBufferStep(p) /\ MainStep(p)
    BY <1>0 DEF SetSendDataStep, SwitchBufferStep, ClearDataStep, MainStep, At
  <2> QED
    BY <1>0, <2>1, Expansion, ExpandsOuter, PortFacts DEF Inner
<1>2. port' = port /\ \A q \in Ports : port[q].read \in {0, 1} /\ port[q].write \in {0, 1}
  BY <1>0, PortFacts DEF ClearDataStep
<1>3. /\ data' \in [Ports -> [{0, 1} -> Packet]]
      /\ data'[p][0] = Level(v)
      /\ \A q \in Ports, j \in {0, 1} : q # p \/ j # 0 => data'[q][j] = data[q][j]
  BY DataAssigned, LevelType DEF Inner
<1>4. /\ latest' \in [Ports -> Asked]
      /\ latest'[p] = [latest[p] EXCEPT !.level = {v}]
      /\ \A q \in Ports : q # p => latest'[q] = latest[q]
  <2>1. latest \in [Ports -> Asked]
    BY DEF Inner, TxTypeOK
  <2>2. [latest[p] EXCEPT !.level = {v}] \in Asked
    <3>1. latest[p] \in Asked
      BY <2>1
    <3> QED
      BY <3>1, Zenon DEF Asked
  <2>3. latest' = [latest EXCEPT ![p] = [latest[p] EXCEPT !.level = {v}]]
    BY Zenon
  <2> QED
    BY <2>1, <2>2, <2>3
<1>5. latest'[p].level = {v} /\ latest'[p].universe = latest[p].universe
  BY <1>4 DEF Inner, TxTypeOK, Asked
<1>6. /\ wire' \in [Ports -> [clean : BOOLEAN, asked : Asked]]
      /\ ~wire'[p].clean
      /\ \A q \in Ports : q # p => wire'[q] = wire[q]
  <2>1. wire \in [Ports -> [clean : BOOLEAN, asked : Asked]]
    BY DEF Inner, TxTypeOK
  <2> DEFINE w == [wire[p] EXCEPT !.clean = FALSE]
  <2>2. w \in [clean : BOOLEAN, asked : Asked] /\ ~w.clean
    <3>1. wire[p] \in [clean : BOOLEAN, asked : Asked]
      BY <2>1
    <3> QED
      BY <3>1, Zenon
  <2>3. wire' = [wire EXCEPT ![p] = w]
    BY <1>0, Zenon
  <2> HIDE DEF w
  <2> QED
    BY <2>1, <2>2, <2>3
<1>7. TxTypeOK' /\ AtRest'
  BY <1>0, <1>3, <1>4, <1>6 DEF Inner, TxTypeOK, AtRest
<1>8. ASSUME NEW q \in Ports  PROVE Fresh(q)'
  <2>1. Fresh(q) /\ ~Copying(q)
    BY <1>0, <1>8 DEF Inner, PortInv
  <2>2. CASE q = p /\ port[q].write = 0
    BY <1>2, <1>3, <1>5, <2>2 DEF Fresh, Holds
  <2>3. CASE q = p /\ port[q].write = 1
    <3>1. Carries(data'[q][1], latest'[q].universe)
      BY <1>2, <1>3, <1>5, <2>1, <2>3 DEF Fresh, Carries
    <3> QED
      BY <1>2, <2>3, <3>1 DEF Fresh, Holds
  <2>4. CASE q # p
    <3>1. /\ data'[q][port[q].write] = data[q][port[q].write]
          /\ data'[q][1] = data[q][1] /\ latest'[q] = latest[q]
      BY <1>2, <1>3, <1>4, <1>8, <2>4
    <3>2. /\ Holds(data[q][port[q].write], latest[q])
          /\ port[q].write = 1 => Carries(data[q][1], latest[q].universe)
      BY <2>1 DEF Fresh
    <3> QED
      BY <1>2, <3>1, <3>2 DEF Fresh
  <2> QED
    BY <1>2, <1>8, <2>2, <2>3, <2>4
<1>9. ASSUME NEW q \in Ports  PROVE Written(q)' /\ Sending(q)'
  <2>1. Written(q)'
    BY <1>1, <1>9 DEF Written
  <2>2. Sending(q)'
    <3>1. CASE q = p
      BY <1>6, <3>1 DEF Sending
    <3>2. CASE q # p
      <4>1. data'[q][port[q].read] = data[q][port[q].read] /\ wire'[q] = wire[q]
        BY <1>2, <1>3, <1>6, <1>9, <3>2
      <4> QED
        BY <1>1, <1>2, <1>9, <4>1 DEF Inner, PortInv, Sending, Holds, Carries, Sent
    <3> QED
      BY <3>1, <3>2
  <2> QED
    BY <2>1, <2>2
<1> QED
  BY <1>1, <1>7, <1>8, <1>9 DEF Inner, PortInv

\* Interrupts leave the main loop, the writer's index and the buffers alone.
LEMMA IrqPort ==
  ASSUME TypeOK, NEW p \in Ports, Irq(p), NEW q \in Ports
  PROVE  /\ todo' = todo
         /\ port'[q].write = port[q].write
         /\ q # p => port'[q] = port[q]
BY DEF TypeOK, Port, Irq, TimerIrq, DmxTimer, RdmTimer, StartDma, DmaIrq, Shifted

\* A compare event that does not start a packet leaves the packet under way.
LEMMA TimerPort ==
  ASSUME TypeOK, NEW p \in Ports, TimerIrq(p)
  PROVE  /\ StartsPacket(p) => port'[p].read = port[p].write
         /\ ~StartsPacket(p) /\ port'[p].dma = "dmx" =>
              port[p].dma = "dmx" /\ port'[p].read = port[p].read
BY DEF TypeOK, Port, TimerIrq, DmxTimer, RdmTimer, StartDma, StartsPacket

LEMMA IrqInner ==
  ASSUME Inner, TypeOK', NEW p \in Ports, Irq(p),
         UNCHANGED <<data, given, written, latest>>,
         wire' \in [Ports -> [clean : BOOLEAN, asked : Asked]],
         \A q \in Ports : q # p => wire'[q] = wire[q],
         Sending(p)'
  PROVE  Inner'
<1>0. TypeOK
  BY DEF Inner, TxTypeOK
<1>1. /\ todo' = todo /\ \A q \in Ports : port'[q].write = port[q].write
      /\ \A q \in Ports : q # p => port'[q] = port[q]
  BY <1>0, IrqPort
<1>2. TxTypeOK' /\ TodoOuter' /\ AtRest'
  BY <1>1 DEF Inner, TxTypeOK, TodoOuter, AtRest, Copying, At
<1>3. ASSUME NEW q \in Ports  PROVE Fresh(q)' /\ Written(q)'
  BY <1>1, <1>3 DEF Inner, PortInv, Fresh, Written, Holds, Carries, Copying, At
<1>4. ASSUME NEW q \in Ports, q # p  PROVE Sending(q)'
  BY <1>1, <1>4 DEF Inner, PortInv, Sending, Holds, Carries, Sent, Copying, At
<1> QED
  BY <1>2, <1>3, <1>4 DEF Inner, PortInv

LEMMA TimerInv ==
  ASSUME Inner, TypeOK', NEW p \in Ports, Timer(p)
  PROVE  Inner'
<1>0. /\ TypeOK /\ TimerIrq(p) /\ Irq(p) /\ UNCHANGED <<data, given, written, latest>>
      /\ wire \in [Ports -> [clean : BOOLEAN, asked : Asked]]
      /\ latest \in [Ports -> Asked]
  BY DEF Inner, TxTypeOK, Timer, Irq
<1>1. todo' = todo /\ port'[p].write = port[p].write
  BY <1>0, IrqPort
<1>2. CASE StartsPacket(p)
  <2>1. wire' = [wire EXCEPT ![p] = [clean |-> ~Writing(p), asked |-> latest[p]]]
    BY <1>2 DEF Timer
  <2>2. [clean |-> ~Writing(p), asked |-> latest[p]] \in [clean : BOOLEAN, asked : Asked]
    BY <1>0
  <2>3. /\ wire' \in [Ports -> [clean : BOOLEAN, asked : Asked]]
        /\ wire'[p] = [clean |-> ~Writing(p), asked |-> latest[p]]
        /\ \A q \in Ports : q # p => wire'[q] = wire[q]
    BY <1>0, <2>1, <2>2
  <2>4. Sending(p)'
    <3> SUFFICES ASSUME ~Writing(p)  PROVE Sending(p)'
      BY <2>3 DEF Sending
    <3>1. ~Copying(p)' /\ ~At("SwitchBuffer", p)' /\ ~Copying(p)
      BY <1>1 DEF Writing, Copying, At
    <3>2. Holds(data[p][port[p].write], latest[p])
      BY <3>1 DEF Inner, PortInv, Fresh
    <3>3. port'[p].read = port[p].write
      BY <1>0, <1>2, TimerPort
    <3>4. wire'[p].asked = latest[p]
      BY <2>3
    <3> QED
      BY <1>0, <3>1, <3>2, <3>3, <3>4 DEF Sending, Sent, Holds, Carries
  <2> QED
    BY <1>0, <2>3, <2>4, IrqInner
<1>3. CASE ~StartsPacket(p)
  <2>1. wire' = wire
    BY <1>3 DEF Timer
  <2>2. Sending(p)'
    <3> SUFFICES ASSUME port'[p].dma = "dmx"  PROVE Sending(p)'
      BY DEF Sending
    <3>1. port[p].dma = "dmx" /\ port'[p].read = port[p].read
      BY <1>0, <1>3, TimerPort
    <3> QED
      BY <1>0, <1>1, <2>1, <3>1
         DEF Inner, PortInv, Sending, Holds, Carries, Sent, Copying, At
  <2> QED
    BY <1>0, <2>1, <2>2, IrqInner
<1> QED
  BY <1>2, <1>3

LEMMA DmaInv ==
  ASSUME Inner, TypeOK', NEW p \in Ports, Dma(p)
  PROVE  Inner'
<1>0. /\ TypeOK /\ Irq(p) /\ UNCHANGED <<data, given, written, latest>>
      /\ wire \in [Ports -> [clean : BOOLEAN, asked : Asked]]
      /\ wire' = [wire EXCEPT ![p] = NoWire]
  BY DEF Inner, TxTypeOK, Dma, Irq
<1>1. /\ wire' \in [Ports -> [clean : BOOLEAN, asked : Asked]]
      /\ wire'[p] = NoWire
      /\ \A q \in Ports : q # p => wire'[q] = wire[q]
  BY <1>0, NoUniverseType
<1>2. Sending(p)'
  BY <1>1 DEF Sending, NoWire
<1> QED
  BY <1>0, <1>1, <1>2, IrqInner

LEMMA ShiftedInv ==
  ASSUME Inner, TypeOK', NEW p \in Ports, Shifted(p), UNCHANGED dataVars
  PROVE  Inner'
<1>0. /\ TypeOK /\ Irq(p) /\ UNCHANGED <<data, given, written, latest, wire>>
      /\ wire \in [Ports -> [clean : BOOLEAN, asked : Asked]]
  BY DEF Inner, TxTypeOK, Irq, dataVars
<1>1. port'[p].dma = port[p].dma /\ port'[p].read = port[p].read
      /\ port'[p].write = port[p].write /\ todo' = todo
  BY <1>0 DEF Shifted, TypeOK, Port
<1>2. Sending(p)'
  BY <1>0, <1>1 DEF Inner, PortInv, Sending, Holds, Carries, Sent, Copying, At
<1> QED
  BY <1>0, <1>2, IrqInner

-----------------------------------------------------------------------------
(***************************************************************************)
(* The invariant is inductive, and the theorems.                           *)
(***************************************************************************)
LEMMA TxInitInv == TxInit => IInv /\ Inner
<1> SUFFICES ASSUME TxInit  PROVE IInv /\ Inner
  OBVIOUS
<1>1. IInv /\ TypeOK
  BY InitInv DEF TxInit, IInv
<1>2. todo = << >> /\ \A p \in Ports : ~Copying(p) /\ port[p].write = 0 /\ port[p].dma = "none"
  BY DEF TxInit, Init, Copying, At
<1>3. Level(0) \in Packet /\ [Level(0) EXCEPT !.length = 0] \in Packet
  <2>1. 0 \in 0 .. (Channels + 1)
    BY TxAssumption
  <2> QED
    BY <2>1, LevelType, BufferUpdates
<1>4. data \in [Ports -> [{0, 1} -> Packet]] /\ \A p \in Ports : data[p][0] = Level(0)
  BY <1>3 DEF TxInit
<1>5. NoWire.asked \in Asked /\ NoWire.asked.level = {0}
  BY NoUniverseType DEF NoWire
<1>6. latest \in [Ports -> Asked] /\ wire \in [Ports -> [clean : BOOLEAN, asked : Asked]]
  BY <1>5, NoUniverseType DEF TxInit
<1>7. TxTypeOK
  <2>1. written \in 0 .. (Channels + 2) /\ given \in Universe
    BY TxAssumption, NoUniverseType DEF TxInit
  <2> QED
    BY <1>1, <1>4, <1>6, <2>1 DEF TxTypeOK
<1>8. TodoOuter /\ AtRest
  BY <1>2 DEF TodoOuter, AtRest, TxInit
<1>9. PortInv
  <2> SUFFICES ASSUME NEW p \in Ports  PROVE Fresh(p) /\ Written(p) /\ Sending(p)
    BY DEF PortInv
  <2>1. latest[p].level = {0}
    BY <1>5 DEF TxInit
  <2>2. Fresh(p)
    BY <1>2, <1>4, <2>1 DEF Fresh, Holds
  <2> QED
    BY <1>2, <2>2 DEF Written, Sending
<1> QED
  BY <1>1, <1>7, <1>8, <1>9 DEF Inner

LEMMA TxStepInv == IInv /\ Inner /\ [TxNext]_txVars => (IInv /\ Inner)'
<1> SUFFICES ASSUME IInv, Inner, [TxNext]_txVars  PROVE (IInv /\ Inner)'
  OBVIOUS
<1>1. IInv' /\ TypeOK'
  BY DriverInv DEF IInv
<1>2. ASSUME NEW steps \in Calls, Call(steps), UNCHANGED dataVars  PROVE Inner'
  BY <1>1, <1>2, CallStep
<1>3. ASSUME NEW p \in Ports, TxMain(p)  PROVE Inner'
  <2>1. CASE SetSendData(p)
    BY <1>1, <2>1, SetSendDataInv
  <2>2. CASE WriteLength(p)
    BY <1>1, <2>2, WriteLengthInv
  <2>3. CASE WriteSlot(p)
    BY <1>1, <2>3, WriteSlotInv
  <2>4. CASE CopyDone(p)
    BY <1>1, <2>4, CopyDoneInv
  <2>5. CASE ClearData(p)
    BY <1>1, <2>5, ClearDataInv
  <2>6. CASE OtherStep(p)
    BY <1>1, <2>6, OtherInv
  <2> QED
    BY <1>3, <2>1, <2>2, <2>3, <2>4, <2>5, <2>6 DEF TxMain
<1>4. ASSUME NEW p \in Ports, Timer(p)  PROVE Inner'
  BY <1>1, <1>4, TimerInv
<1>5. ASSUME NEW p \in Ports, Dma(p)  PROVE Inner'
  BY <1>1, <1>5, DmaInv
<1>6. ASSUME NEW p \in Ports, Shifted(p), UNCHANGED dataVars  PROVE Inner'
  BY <1>1, <1>6, ShiftedInv
<1>7. ASSUME UNCHANGED txVars  PROVE Inner'
  BY <1>7 DEF txVars, Inner, TxTypeOK, TypeOK, TodoOuter, AtRest, PortInv, Fresh, Written,
     Sending, Sent, Holds, Carries, Copying, At
<1> QED
  BY <1>1, <1>2, <1>3, <1>4, <1>5, <1>6, <1>7 DEF TxNext

\* The driver with its data is the driver: what holds of the one whatever the
\* main loop calls holds of the other.
THEOREM ImplementsDriver == TxSpec => Spec
<1>1. TxInit => Init
  BY DEF TxInit
<1> QED
  BY <1>1, StepSimulation, PTL DEF TxSpec, Spec

\* The buffers hold packets and the history universes, under any calls.
THEOREM TxTypeCorrect == TxSpec => []TxTypeOK
<1>1. Inner => TxTypeOK
  BY DEF Inner
<1> QED
  BY TxInitInv, TxStepInv, <1>1, PTL DEF TxSpec

\* A packet that was started outside SetTransmitData is whole and the newest,
\* whatever the program writes while it is on the wire.
THEOREM PacketIsWhole == TxSpec => []PacketWhole
<1>1. Inner => PacketWhole
  BY DEF Inner, PortInv, Sending, PacketWhole
<1> QED
  BY TxInitInv, TxStepInv, <1>1, PTL DEF TxSpec
=============================================================================
