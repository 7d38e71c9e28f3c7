-------------------------- MODULE DmxTransmitProof --------------------------
(***************************************************************************)
(* Type correctness and the wake-up invariants of DmxTransmit, for every   *)
(* number of ports and every set of calls of the main loop.                *)
(***************************************************************************)
EXTENDS DmxTransmit, TLAPS

\* A running DMA transfer keeps the USART busy.
DmaShifts == \A p \in Ports : port[p].dma # "none" => port[p].shift

\* USART_FLAG_TC is only missing while the USART sends, or where DataDisable
\* cleared it in the gap before a packet that is still to come.
TcComes ==
  \A p \in Ports :
    port[p].tc \/ port[p].shift \/ (port[p].dmx # "kIdle" /\ At("WaitTc", p))

IInv == TypeOK /\ NoLostWakeup /\ DmaShifts /\ TcComes

-----------------------------------------------------------------------------
\* What the steps expand to are steps again.
LEMMA PlainStep ==
  ASSUME NEW op \in PlainOps, NEW p \in Ports
  PROVE  S(op, p) \in Step
BY DEF S, Step

LEMMA DirectionStep ==
  ASSUME NEW op \in DirectionOps, NEW p \in Ports, NEW d \in Directions
  PROVE  SX(op, p, d) \in Step
BY DEF SX, Step

LEMMA ForEachPortType ==
  ASSUME NEW op \in PlainOps
  PROVE  ForEachPort(op) \in Seq(Step)
<1>1. N \in Nat
  BY ParametersAssumption
<1>2. ASSUME NEW i \in 1 .. N  PROVE i - 1 \in Ports
  BY <1>1 DEF Ports
<1>3. \A i \in 1 .. N : S(op, i - 1) \in Step
  BY <1>2, PlainStep
<1>4. ForEachPort(op) \in [1 .. N -> Step]
  BY <1>3 DEF ForEachPort
<1> QED
  BY <1>1, <1>4

LEMMA Lengths ==
  /\ << >> \in Seq(Step) /\ Len(<< >>) = 0
  /\ \A s \in Step : /\ << s >> \in Seq(Step) /\ Len(<< s >>) = 1
                     /\ << s >>[1] = s
  /\ \A s, t \in Step : /\ << s, t >> \in Seq(Step) /\ Len(<< s, t >>) = 2
                        /\ << s, t >>[1] = s /\ << s, t >>[2] = t
  /\ \A s, t, u \in Step : /\ << s, t, u >> \in Seq(Step) /\ Len(<< s, t, u >>) = 3
                           /\ << s, t, u >>[1] = s /\ << s, t, u >>[2] = t
                           /\ << s, t, u >>[3] = u
OBVIOUS

LEMMA GotoSteps ==
  ASSUME todo \in Seq(Step), todo # << >>, NEW steps \in Seq(Step), Goto(steps)
  PROVE  /\ todo' \in Seq(Step) /\ Len(todo) \in Nat /\ Len(todo) >= 1
         /\ Len(steps) \in Nat
         /\ Len(todo') = Len(steps) + Len(todo) - 1
         /\ \A i \in 1 .. Len(steps) : todo'[i] = steps[i]
         /\ \A i \in (Len(steps) + 1) .. Len(todo') : todo'[i] = todo[i - Len(steps) + 1]
<1> DEFINE tail == Tail(todo)
<1>1. tail \in Seq(Step) /\ Len(tail) = Len(todo) - 1 /\ \A i \in 1 .. Len(tail) : tail[i] = todo[i + 1]
  OBVIOUS
<1>2. todo' = steps \o tail
  BY DEF Goto
<1> HIDE DEF tail
<1>3. Len(todo') = Len(steps) + Len(tail) /\ todo' \in Seq(Step)
  BY <1>1, <1>2
<1>4. /\ \A i \in 1 .. Len(steps) : todo'[i] = steps[i]
      /\ \A i \in (Len(steps) + 1) .. Len(todo') : todo'[i] = tail[i - Len(steps)]
  BY <1>1, <1>2, <1>3
<1>5. Len(todo) \in Nat /\ Len(todo) >= 1 /\ Len(steps) \in Nat
  OBVIOUS
<1>6. ASSUME NEW i \in (Len(steps) + 1) .. Len(todo')
      PROVE  todo'[i] = todo[i - Len(steps) + 1]
  <2>1. i - Len(steps) \in 1 .. Len(tail)
    BY <1>1, <1>3, <1>5
  <2> QED
    BY <1>1, <1>4, <2>1
<1> QED
  BY <1>1, <1>3, <1>4, <1>5, <1>6

LEMMA AtHead ==
  ASSUME todo \in Seq(Step), NEW op, NEW p
  PROVE  At(op, p) <=> Len(todo) # 0 /\ todo[1].op = op /\ todo[1].p = p
BY DEF At

LEMMA AtHeadNext ==
  ASSUME todo' \in Seq(Step), NEW op, NEW p
  PROVE  At(op, p)' <=> Len(todo') # 0 /\ todo'[1].op = op /\ todo'[1].p = p
BY DEF At

LEMMA GotoType ==
  ASSUME todo \in Seq(Step), todo # << >>, NEW steps \in Seq(Step), Goto(steps)
  PROVE  todo' \in Seq(Step)
<1>1. Tail(todo) \in Seq(Step)
  OBVIOUS
<1> QED
  BY <1>1 DEF Goto

LEMMA HeadType ==
  ASSUME todo \in Seq(Step), NEW op, NEW p, At(op, p)
  PROVE  /\ todo # << >>
         /\ Head(todo) \in Step
         /\ Head(todo).op = op
         /\ Head(todo).p = p
<1>1. todo # << >> /\ Head(todo).op = op /\ Head(todo).p = p
  BY DEF At
<1> QED
  BY <1>1

LEMMA HeadArgument ==
  ASSUME todo \in Seq(Step), NEW op, NEW p, At(op, p)
  PROVE  /\ op \in DirectionOps => Head(todo).x \in Directions
         /\ op = "SetOutputStyle" => Head(todo).x \in OutputStyles
         /\ op \in DataOps => Head(todo).x \in SendStyles
BY HeadType DEF Step, DirectionOps, DataOps, PlainOps

-----------------------------------------------------------------------------
(***************************************************************************)
(* Types.  The tables: a step that assigns well-typed values to fields of  *)
(* one port.  The steps to do: each expansion consists of steps.           *)
(***************************************************************************)
LEMMA FieldUpdates ==
  ASSUME NEW r \in Port
  PROVE  /\ \A d \in Directions : [r EXCEPT !.direction = d] \in Port
         /\ \A d \in Directions : [r EXCEPT !.dirPin = d] \in Port
         /\ \A style \in OutputStyles : [r EXCEPT !.style = style] \in Port
         /\ [r EXCEPT !.state = "kIdle"] \in Port
         /\ [r EXCEPT !.dmx = "kIdle"] \in Port
         /\ [r EXCEPT !.state = "kTx", !.dmx = "kIdle"] \in Port
         /\ [r EXCEPT !.state = "kRx", !.rxIrq = TRUE] \in Port
         /\ \A i \in {0, 1} : [r EXCEPT !.write = i] \in Port
         /\ [r EXCEPT !.txPin = "low"] \in Port
         /\ [r EXCEPT !.rxIrq = FALSE] \in Port
         /\ [r EXCEPT !.tc = FALSE] \in Port
         /\ \A b \in BOOLEAN : [r EXCEPT !.pending = b] \in Port
         /\ [r EXCEPT !.armed = TRUE, !.dmx = "kDmxBreak"] \in Port
         /\ [r EXCEPT !.armed = TRUE, !.rdm = "kBreak"] \in Port
         /\ [r EXCEPT !.shift = TRUE, !.tc = FALSE] \in Port
<1>1. \A d \in Directions : [r EXCEPT !.direction = d] \in Port
  BY Zenon DEF Port
<1>2. \A d \in Directions : [r EXCEPT !.dirPin = d] \in Port
  BY Zenon DEF Port
<1>3. \A style \in OutputStyles : [r EXCEPT !.style = style] \in Port
  BY Zenon DEF Port
<1>4. [r EXCEPT !.state = "kIdle"] \in Port
  BY Zenon DEF Port, PortStates
<1>5. [r EXCEPT !.dmx = "kIdle"] \in Port
  BY Zenon DEF Port, DmxStates
<1>6. [r EXCEPT !.state = "kTx", !.dmx = "kIdle"] \in Port
  BY Zenon DEF Port, PortStates, DmxStates
<1>7. [r EXCEPT !.state = "kRx", !.rxIrq = TRUE] \in Port
  BY Zenon DEF Port, PortStates
<1>8. \A i \in {0, 1} : [r EXCEPT !.write = i] \in Port
  BY Zenon DEF Port
<1>9. [r EXCEPT !.txPin = "low"] \in Port
  BY Zenon DEF Port
<1>10. [r EXCEPT !.rxIrq = FALSE] \in Port
  BY Zenon DEF Port
<1>11. [r EXCEPT !.tc = FALSE] \in Port
  BY Zenon DEF Port
<1>12. \A b \in BOOLEAN : [r EXCEPT !.pending = b] \in Port
  BY Zenon DEF Port
<1>13. [r EXCEPT !.armed = TRUE, !.dmx = "kDmxBreak"] \in Port
  BY Zenon DEF Port, DmxStates
<1>14. [r EXCEPT !.armed = TRUE, !.rdm = "kBreak"] \in Port
  BY Zenon DEF Port, RdmStates
<1>15. [r EXCEPT !.shift = TRUE, !.tc = FALSE] \in Port
  BY Zenon DEF Port
<1> QED
  BY <1>1, <1>2, <1>3, <1>4, <1>5, <1>6, <1>7, <1>8, <1>9, <1>10, <1>11, <1>12, <1>13, <1>14, <1>15

LEMMA PortAt ==
  ASSUME TypeOK, NEW p \in Ports
  PROVE  port[p] \in Port
BY DEF TypeOK

LEMMA PortAssigned ==
  ASSUME TypeOK, NEW p \in Ports, NEW r \in Port, port' = [port EXCEPT ![p] = r]
  PROVE  port' \in [Ports -> Port]
BY DEF TypeOK

LEMMA MainTypePort ==
  ASSUME TypeOK, NEW p \in Ports, MainStep(p)
  PROVE  port' \in [Ports -> Port]
<1>0. port[p] \in Port /\ todo \in Seq(Step)
  BY PortAt DEF TypeOK
<1>1. CASE SetPortDirectionStep(p)
  <2>1. Head(todo).x \in Directions
    BY <1>1, <1>0, HeadArgument DEF SetPortDirectionStep, DirectionOps
  <2>2. [port[p] EXCEPT !.direction = Head(todo).x] \in Port
    BY <1>0, <2>1, FieldUpdates, Zenon
  <2> QED
    BY <1>1, <2>2, PortAssigned DEF SetPortDirectionStep
<1>2. CASE SetPinStep(p)
  <2>1. Head(todo).x \in Directions
    BY <1>2, <1>0, HeadArgument DEF SetPinStep, DirectionOps
  <2>2. [port[p] EXCEPT !.dirPin = Head(todo).x] \in Port
    BY <1>0, <2>1, FieldUpdates, Zenon
  <2> QED
    BY <1>2, <2>2, PortAssigned DEF SetPinStep
<1>3. CASE SetOutputStyleStep(p)
  <2>1. Head(todo).x \in OutputStyles
    BY <1>3, <1>0, HeadArgument DEF SetOutputStyleStep
  <2>2. [port[p] EXCEPT !.style = Head(todo).x] \in Port
    BY <1>0, <2>1, FieldUpdates, Zenon
  <2> QED
    BY <1>3, <2>2, PortAssigned DEF SetOutputStyleStep
<1>4. CASE DataDisableStep(p)
  <2>1. [port[p] EXCEPT !.state = "kIdle"] \in Port
    BY <1>0, FieldUpdates, Zenon
  <2>2. CASE UNCHANGED port
    BY <2>2 DEF TypeOK
  <2> QED
    BY <1>4, <2>1, <2>2, PortAssigned DEF DataDisableStep
<1>5. CASE RxOffStep(p)
  <2>1. [port[p] EXCEPT !.rxIrq = FALSE] \in Port
    BY <1>0, FieldUpdates, Zenon
  <2> QED
    BY <1>5, <2>1, PortAssigned DEF RxOffStep
<1>6. CASE WaitIdleStep(p)
  <2>1. [port[p] EXCEPT !.tc = FALSE] \in Port
    BY <1>0, FieldUpdates, Zenon
  <2>2. CASE UNCHANGED port
    BY <2>2 DEF TypeOK
  <2> QED
    BY <1>6, <2>1, <2>2, PortAssigned DEF WaitIdleStep
<1>7. CASE WaitTcStep(p)
  BY <1>7 DEF WaitTcStep, TypeOK
<1>8. CASE ForceIdleStep(p)
  <2>1. [port[p] EXCEPT !.dmx = "kIdle"] \in Port
    BY <1>0, FieldUpdates, Zenon
  <2> QED
    BY <1>8, <2>1, PortAssigned DEF ForceIdleStep
<1>9. CASE DataEnableStep(p)
  <2>1. /\ [port[p] EXCEPT !.state = "kTx", !.dmx = "kIdle"] \in Port
        /\ [port[p] EXCEPT !.state = "kRx", !.rxIrq = TRUE] \in Port
    BY <1>0, FieldUpdates, Zenon
  <2> QED
    <3>1. CASE port' = [port EXCEPT ![p].state = "kTx", ![p].dmx = "kIdle"]
      BY <2>1, <3>1, PortAssigned
    <3>2. CASE port' = [port EXCEPT ![p].state = "kRx", ![p].rxIrq = TRUE]
      BY <2>1, <3>2, PortAssigned
    <3> QED
      BY <1>9, <3>1, <3>2, Zenon DEF DataEnableStep
<1>10. CASE ConstantLoopStep(p)
  BY <1>10 DEF ConstantLoopStep, TypeOK
<1>11. CASE StartDmxOutputStep(p)
  BY <1>11 DEF StartDmxOutputStep, TypeOK
<1>12. CASE StartRdmOutputStep(p)
  BY <1>12 DEF StartRdmOutputStep, TypeOK
<1>13. CASE DriveBreakStep(p)
  <2>1. [port[p] EXCEPT !.txPin = "low"] \in Port
    BY <1>0, FieldUpdates, Zenon
  <2> QED
    BY <1>13, <2>1, PortAssigned DEF DriveBreakStep
<1>14. CASE ArmBreakStep(p)
  <2>1. [port[p] EXCEPT !.armed = TRUE, !.dmx = "kDmxBreak"] \in Port
    BY <1>0, FieldUpdates, Zenon
  <2> QED
    BY <1>14, <2>1, PortAssigned DEF ArmBreakStep
<1>15. CASE ArmRdmBreakStep(p)
  <2>1. [port[p] EXCEPT !.armed = TRUE, !.rdm = "kBreak"] \in Port
    BY <1>0, FieldUpdates, Zenon
  <2> QED
    BY <1>15, <2>1, PortAssigned DEF ArmRdmBreakStep
<1>16. CASE SetSendDataStep(p)
  BY <1>16 DEF SetSendDataStep, TypeOK
<1>23. CASE SwitchBufferStep(p)
  <2> DEFINE i == 1 - port[p].write
  <2>1. port[p].write \in {0, 1}
    BY <1>0 DEF Port
  <2>2. i \in {0, 1}
    BY <2>1
  <2>3. port' = [port EXCEPT ![p].write = i]
    BY <1>23 DEF SwitchBufferStep
  <2> HIDE DEF i
  <2>4. [port[p] EXCEPT !.write = i] \in Port
    BY <1>0, <2>2, FieldUpdates, Zenon
  <2> QED
    BY <2>3, <2>4, PortAssigned
<1>17. CASE CopyDataStep(p)
  <2>1. [port[p] EXCEPT !.pending = TRUE] \in Port
    BY <1>0, FieldUpdates, Zenon
  <2> QED
    BY <1>17, <2>1, PortAssigned DEF CopyDataStep
<1>18. CASE StartSendStyleDirectStep(p)
  BY <1>18 DEF StartSendStyleDirectStep, TypeOK
<1>19. CASE SyncPortStep(p)
  <2>1. [port[p] EXCEPT !.pending = FALSE] \in Port
    BY <1>0, FieldUpdates, Zenon
  <2> QED
    BY <1>19, <2>1, PortAssigned DEF SyncPortStep
<1>20. CASE BlackoutStep(p)
  BY <1>20 DEF BlackoutStep, TypeOK
<1>21. CASE SendDiscoveryStep(p)
  <2>1. [port[p] EXCEPT !.shift = TRUE, !.tc = FALSE] \in Port
    BY <1>0, FieldUpdates, Zenon
  <2> QED
    BY <1>21, <2>1, PortAssigned DEF SendDiscoveryStep
<1>22. CASE WaitDiscoveryStep(p)
  BY <1>22 DEF WaitDiscoveryStep, TypeOK
<1>24. CASE ClearDataStep(p)
  BY <1>24 DEF ClearDataStep, TypeOK
<1> QED
  BY <1>1, <1>2, <1>3, <1>4, <1>5, <1>6, <1>7, <1>8, <1>9, <1>10, <1>11,
     <1>12, <1>13, <1>14, <1>15, <1>16, <1>17, <1>18, <1>19, <1>20, <1>21,
     <1>22, <1>23, <1>24 DEF MainStep

LEMMA MainTypeTodo ==
  ASSUME TypeOK, NEW p \in Ports, MainStep(p)
  PROVE  todo' \in Seq(Step)
<1> DEFINE one(op) == << S(op, p) >>
<1>0. /\ << >> \in Seq(Step)
      /\ \A op \in PlainOps : S(op, p) \in Step /\ one(op) \in Seq(Step)
      /\ \A op1, op2 \in PlainOps : << S(op1, p), S(op2, p) >> \in Seq(Step)
  BY PlainStep
<1>00. todo \in Seq(Step)
  BY DEF TypeOK
<1>000. \A op : At(op, p) => todo # << >>
  BY DEF At
<1>1. CASE SetPortDirectionStep(p)
  <2> DEFINE d == Head(todo).x
  <2>1. PICK enable \in BOOLEAN :
          /\ At(IF enable THEN "SetPortDirectionEnable" ELSE "SetPortDirection", p)
          /\ Goto((IF port[p].direction # d
                     THEN << S("DataDisable", p), SX("SetPin", p, d) >>
                     ELSE IF enable THEN << >> ELSE << S("DataDisable", p) >>)
                  \o (IF enable THEN << S("DataEnable", p) >> ELSE << >>))
    BY <1>1 DEF SetPortDirectionStep
  <2>2. d \in Directions
    BY <2>1, <1>00, HeadArgument DEF DirectionOps
  <2>3. << S("DataDisable", p), SX("SetPin", p, d) >> \in Seq(Step)
    BY <2>2, <1>0, DirectionStep DEF PlainOps, DirectionOps
  <2>4. << S("DataDisable", p) >> \in Seq(Step) /\ << S("DataEnable", p) >> \in Seq(Step)
    BY <1>0 DEF PlainOps
  <2> DEFINE first == IF port[p].direction # d
                        THEN << S("DataDisable", p), SX("SetPin", p, d) >>
                        ELSE IF enable THEN << >> ELSE << S("DataDisable", p) >>
             second == IF enable THEN << S("DataEnable", p) >> ELSE << >>
  <2>5. first \in Seq(Step) /\ second \in Seq(Step)
    BY <2>3, <2>4, <1>0
  <2>6. first \o second \in Seq(Step)
    BY <2>5
  <2>7. Goto(first \o second) /\ todo # << >>
    BY <2>1, <1>000
  <2> HIDE DEF first, second
  <2> QED
    BY <2>6, <2>7, <1>00, GotoType
<1>2. CASE SetPinStep(p)
  BY <1>2, <1>0, <1>00, <1>000, GotoType DEF SetPinStep
<1>3. CASE SetOutputStyleStep(p)
  <2>1. ForEachPort("ConstantDisable") \o ForEachPort("ConstantStart") \in Seq(Step)
    BY ForEachPortType DEF PlainOps
  <2>2. << S("StartDmxOutput", p) >> \in Seq(Step)
    BY <1>0 DEF PlainOps
  <2>3. PICK steps \in Seq(Step) : Goto(steps)
    <3>1. CASE Goto(<< >>)
      BY <3>1, <1>0
    <3>2. CASE Goto(<< S("StartDmxOutput", p) >>)
      BY <3>2, <2>2
    <3>3. CASE Goto(ForEachPort("ConstantDisable") \o ForEachPort("ConstantStart"))
      BY <3>3, <2>1
    <3> QED
      BY <1>3, <3>1, <3>2, <3>3 DEF SetOutputStyleStep
  <2> QED
    BY <1>3, <2>3, <1>00, <1>000, GotoType DEF SetOutputStyleStep
<1>4. CASE DataDisableStep(p)
  BY <1>4, <1>0, <1>00, <1>000, GotoType DEF DataDisableStep, PlainOps
<1>5. CASE RxOffStep(p)
  BY <1>5, <1>0, <1>00, <1>000, GotoType DEF RxOffStep
<1>6. CASE WaitIdleStep(p)
  BY <1>6, <1>0, <1>00, <1>000, GotoType DEF WaitIdleStep, PlainOps
<1>7. CASE WaitTcStep(p)
  BY <1>7, <1>0, <1>00, <1>000, GotoType DEF WaitTcStep, PlainOps
<1>8. CASE ForceIdleStep(p)
  BY <1>8, <1>0, <1>00, <1>000, GotoType DEF ForceIdleStep, PlainOps
<1>9. CASE DataEnableStep(p)
  <2>1. port[p].style \in OutputStyles
    BY DEF TypeOK, Port
  <2>2. SetOutputStyle(p, port[p].style) \in Seq(Step)
    BY <2>1 DEF SetOutputStyle, SX, Step
  <2> QED
    BY <1>9, <2>2, <1>0, <1>00, <1>000, GotoType DEF DataEnableStep
<1>10. CASE ConstantLoopStep(p)
  BY <1>10, <1>0, <1>00, <1>000, GotoType DEF ConstantLoopStep, PlainOps
<1>11. CASE StartDmxOutputStep(p)
  BY <1>11, <1>0, <1>00, <1>000, GotoType DEF StartDmxOutputStep, PlainOps
<1>12. CASE StartRdmOutputStep(p)
  BY <1>12, <1>0, <1>00, <1>000, GotoType DEF StartRdmOutputStep, PlainOps
<1>13. CASE DriveBreakStep(p)
  BY <1>13, <1>0, <1>00, <1>000, GotoType DEF DriveBreakStep, PlainOps
<1>14. CASE ArmBreakStep(p)
  BY <1>14, <1>0, <1>00, <1>000, GotoType DEF ArmBreakStep
<1>15. CASE ArmRdmBreakStep(p)
  BY <1>15, <1>0, <1>00, <1>000, GotoType DEF ArmRdmBreakStep
<1>16. CASE SetSendDataStep(p)
  <2>1. Head(todo).x \in SendStyles
    BY <1>16, <1>00, HeadArgument DEF SetSendDataStep, DataOps
  <2>2. \A op \in DataOps : << SX(op, p, Head(todo).x) >> \in Seq(Step)
    BY <2>1 DEF SX, Step
  <2>3. << SX(IF port[p].read = port[p].write THEN "SwitchBuffer" ELSE "CopyData",
              p, Head(todo).x) >> \in Seq(Step)
    BY <2>2 DEF DataOps
  <2> QED
    BY <1>16, <2>3, <1>00, <1>000, GotoType DEF SetSendDataStep
<1>23. CASE SwitchBufferStep(p)
  <2>1. Head(todo).x \in SendStyles
    BY <1>23, <1>00, HeadArgument DEF SwitchBufferStep, DataOps
  <2>2. << SX("CopyData", p, Head(todo).x) >> \in Seq(Step)
    BY <2>1 DEF SX, Step, DataOps
  <2> QED
    BY <1>23, <2>2, <1>00, <1>000, GotoType DEF SwitchBufferStep
<1>17. CASE CopyDataStep(p)
  BY <1>17, <1>0, <1>00, <1>000, GotoType DEF CopyDataStep, PlainOps
<1>18. CASE StartSendStyleDirectStep(p)
  BY <1>18, <1>0, <1>00, <1>000, GotoType DEF StartSendStyleDirectStep, PlainOps
<1>19. CASE SyncPortStep(p)
  BY <1>19, <1>0, <1>00, <1>000, GotoType DEF SyncPortStep, PlainOps
<1>20. CASE BlackoutStep(p)
  <2>1. << S("DataDisable", p), S("ClearData", p), S("DataEnable", p) >> \in Seq(Step)
    BY <1>0 DEF PlainOps
  <2> QED
    BY <1>20, <2>1, <1>0, <1>00, <1>000, GotoType DEF BlackoutStep
<1>21. CASE SendDiscoveryStep(p)
  BY <1>21, <1>0, <1>00, <1>000, GotoType DEF SendDiscoveryStep
<1>22. CASE WaitDiscoveryStep(p)
  BY <1>22, <1>0, <1>00, <1>000, GotoType DEF WaitDiscoveryStep
<1>24. CASE ClearDataStep(p)
  BY <1>24, <1>0, <1>00, <1>000, GotoType DEF ClearDataStep
<1> QED
  BY <1>1, <1>2, <1>3, <1>4, <1>5, <1>6, <1>7, <1>8, <1>9, <1>10, <1>11,
     <1>12, <1>13, <1>14, <1>15, <1>16, <1>17, <1>18, <1>19, <1>20, <1>21,
     <1>22, <1>23, <1>24 DEF MainStep

LEMMA IrqUpdates ==
  ASSUME NEW r \in Port
  PROVE  /\ [r EXCEPT !.txPin = "low", !.dmx = "kDmxBreak"] \in Port
         /\ [r EXCEPT !.txPin = "af", !.dmx = "kDmxMab"] \in Port
         /\ [r EXCEPT !.txPin = "af", !.rdm = "kMab"] \in Port
         /\ [r EXCEPT !.armed = FALSE] \in Port
         /\ \A packet \in {"dmx", "rdm"}, i \in {0, 1} :
              [r EXCEPT !.dma = packet, !.shift = TRUE, !.tc = FALSE,
                        !.armed = FALSE, !.read = i] \in Port
         /\ \A d \in Directions :
              [r EXCEPT !.rdm = "kIdle", !.armed = FALSE, !.direction = "kInput",
                        !.dirPin = d, !.rxIrq = TRUE, !.state = "kRx"] \in Port
         /\ \A dmx \in DmxStates, rdm \in RdmStates, armed \in BOOLEAN :
              [r EXCEPT !.dma = "none", !.dmx = dmx, !.rdm = rdm, !.armed = armed] \in Port
         /\ [r EXCEPT !.shift = FALSE, !.tc = TRUE] \in Port
<1>1. [r EXCEPT !.txPin = "low", !.dmx = "kDmxBreak"] \in Port
  BY Zenon DEF Port, DmxStates
<1>2. [r EXCEPT !.txPin = "af", !.dmx = "kDmxMab"] \in Port
  BY Zenon DEF Port, DmxStates
<1>3. [r EXCEPT !.txPin = "af", !.rdm = "kMab"] \in Port
  BY Zenon DEF Port, RdmStates
<1>4. [r EXCEPT !.armed = FALSE] \in Port
  BY Zenon DEF Port
<1>5. \A packet \in {"dmx", "rdm"}, i \in {0, 1} :
              [r EXCEPT !.dma = packet, !.shift = TRUE, !.tc = FALSE,
                        !.armed = FALSE, !.read = i] \in Port
  BY Zenon DEF Port
<1>6. \A d \in Directions :
              [r EXCEPT !.rdm = "kIdle", !.armed = FALSE, !.direction = "kInput",
                        !.dirPin = d, !.rxIrq = TRUE, !.state = "kRx"] \in Port
  BY Zenon DEF Port, PortStates, RdmStates, Directions
<1>7. \A dmx \in DmxStates, rdm \in RdmStates, armed \in BOOLEAN :
              [r EXCEPT !.dma = "none", !.dmx = dmx, !.rdm = rdm, !.armed = armed] \in Port
  BY Zenon DEF Port
<1>8. [r EXCEPT !.shift = FALSE, !.tc = TRUE] \in Port
  BY Zenon DEF Port
<1> QED
  BY <1>1, <1>2, <1>3, <1>4, <1>5, <1>6, <1>7, <1>8

LEMMA IrqType ==
  ASSUME TypeOK, NEW p \in Ports, Irq(p)
  PROVE  port' \in [Ports -> Port]
<1> DEFINE r == port[p]
<1>0. r \in Port
  BY PortAt
<1>1. CASE TimerIrq(p)
  <2>1. /\ [r EXCEPT !.txPin = "low", !.dmx = "kDmxBreak"] \in Port
        /\ [r EXCEPT !.txPin = "af", !.dmx = "kDmxMab"] \in Port
        /\ [r EXCEPT !.txPin = "af", !.rdm = "kMab"] \in Port
        /\ [r EXCEPT !.armed = FALSE] \in Port
    BY <1>0, IrqUpdates, Zenon
  <2>2. \A packet \in {"dmx", "rdm"} : StartDma(p, packet) => port' \in [Ports -> Port]
    <3> SUFFICES ASSUME NEW packet \in {"dmx", "rdm"}, StartDma(p, packet)
                 PROVE  port' \in [Ports -> Port]
      OBVIOUS
    <3> DEFINE i == IF packet = "dmx" THEN r.write ELSE r.read
    <3>1. i \in {0, 1}
      BY <1>0 DEF Port
    <3>2. port' = [port EXCEPT ![p].dma = packet, ![p].shift = TRUE, ![p].tc = FALSE,
                               ![p].armed = FALSE, ![p].read = i]
      BY DEF StartDma
    <3> HIDE DEF i
    <3>3. [r EXCEPT !.dma = packet, !.shift = TRUE, !.tc = FALSE,
                    !.armed = FALSE, !.read = i] \in Port
      BY <1>0, <3>1, IrqUpdates, Zenon
    <3>4. port' = [port EXCEPT ![p] =
                     [r EXCEPT !.dma = packet, !.shift = TRUE, !.tc = FALSE,
                               !.armed = FALSE, !.read = i]]
      BY <3>2, Zenon
    <3> QED
      BY <3>3, <3>4, PortAssigned, Zenon
  <2>3. CASE DmxTimer(p)
    <3>1. CASE port' = [port EXCEPT ![p].txPin = "low", ![p].dmx = "kDmxBreak"]
      <4>1. port' = [port EXCEPT ![p] = [r EXCEPT !.txPin = "low", !.dmx = "kDmxBreak"]]
        BY <3>1, Zenon
      <4> QED
        BY <2>1, <4>1, PortAssigned, Zenon
    <3>2. CASE port' = [port EXCEPT ![p].txPin = "af", ![p].dmx = "kDmxMab"]
      <4>1. port' = [port EXCEPT ![p] = [r EXCEPT !.txPin = "af", !.dmx = "kDmxMab"]]
        BY <3>2, Zenon
      <4> QED
        BY <2>1, <4>1, PortAssigned, Zenon
    <3> QED
      BY <2>2, <2>3, <3>1, <3>2, Zenon DEF DmxTimer
  <2>4. CASE RdmTimer(p)
    <3>1. CASE port' = [port EXCEPT ![p].txPin = "af", ![p].rdm = "kMab"]
      <4>1. port' = [port EXCEPT ![p] = [r EXCEPT !.txPin = "af", !.rdm = "kMab"]]
        BY <3>1, Zenon
      <4> QED
        BY <2>1, <4>1, PortAssigned, Zenon
    <3>2. CASE port' = [port EXCEPT
                 ![p].rdm = "kIdle", ![p].armed = FALSE, ![p].direction = "kInput",
                 ![p].dirPin = IF r.direction # "kInput" THEN "kInput" ELSE @,
                 ![p].rxIrq = TRUE, ![p].state = "kRx"]
      <4> DEFINE d == IF r.direction # "kInput" THEN "kInput" ELSE r.dirPin
      <4>1. d \in Directions
        BY <1>0 DEF Port, Directions
      <4>2. port' = [port EXCEPT ![p].rdm = "kIdle", ![p].armed = FALSE,
                       ![p].direction = "kInput", ![p].dirPin = d,
                       ![p].rxIrq = TRUE, ![p].state = "kRx"]
        BY <3>2
      <4> HIDE DEF d
      <4>3. [r EXCEPT !.rdm = "kIdle", !.armed = FALSE, !.direction = "kInput",
                      !.dirPin = d, !.rxIrq = TRUE, !.state = "kRx"] \in Port
        BY <1>0, <4>1, IrqUpdates, Zenon
      <4>4. port' = [port EXCEPT ![p] =
              [r EXCEPT !.rdm = "kIdle", !.armed = FALSE, !.direction = "kInput",
                        !.dirPin = d, !.rxIrq = TRUE, !.state = "kRx"]]
        BY <4>2, Zenon
      <4> QED
        BY <4>3, <4>4, PortAssigned, Zenon
    <3> QED
      BY <2>2, <2>4, <3>1, <3>2, Zenon DEF RdmTimer
  <2>5. CASE port' = [port EXCEPT ![p].armed = FALSE]
    BY <2>1, <2>5, PortAssigned
  <2> QED
    BY <1>1, <2>3, <2>4, <2>5 DEF TimerIrq
<1>2. CASE DmaIrq(p)
  <2> DEFINE dmx == IF r.dmx = "kIdle" THEN r.dmx
                    ELSE IF r.style = "kDelta" THEN "kIdle" ELSE "kDmxInter"
             rdm == IF r.dmx = "kIdle" /\ r.rdm # "kIdle" THEN "kDirection" ELSE r.rdm
             armed == r.armed \/ (IF r.dmx # "kIdle" THEN r.style # "kDelta" ELSE r.rdm # "kIdle")
  <2>1. dmx \in DmxStates /\ rdm \in RdmStates
    BY <1>0 DEF Port, DmxStates, RdmStates
  <2>2. armed \in BOOLEAN
    OBVIOUS
  <2>3. port' = [port EXCEPT ![p].dma = "none", ![p].dmx = dmx, ![p].rdm = rdm, ![p].armed = armed]
    BY <1>2 DEF DmaIrq
  <2> HIDE DEF dmx, rdm, armed
  <2>4. [r EXCEPT !.dma = "none", !.dmx = dmx, !.rdm = rdm, !.armed = armed] \in Port
    BY <1>0, <2>1, <2>2, IrqUpdates, Zenon
  <2>5. port' = [port EXCEPT ![p] =
                   [r EXCEPT !.dma = "none", !.dmx = dmx, !.rdm = rdm, !.armed = armed]]
    BY <2>3, Zenon
  <2> QED
    BY <2>4, <2>5, PortAssigned, Zenon
<1>3. CASE Shifted(p)
  <2>1. [r EXCEPT !.shift = FALSE, !.tc = TRUE] \in Port
    BY <1>0, IrqUpdates, Zenon
  <2> QED
    BY <1>3, <2>1, PortAssigned DEF Shifted
<1> QED
  BY <1>1, <1>2, <1>3 DEF Irq

LEMMA MainWakeup ==
  ASSUME IInv, NEW p \in Ports, MainStep(p)
  PROVE  NoLostWakeup' /\ DmaShifts'
<1> SUFFICES ASSUME NEW q \in Ports
             PROVE  /\ port'[q].dmx # "kIdle" => port'[q].armed \/ port'[q].dma # "none"
                    /\ port'[q].dma # "none" => port'[q].shift
  BY DEF NoLostWakeup, DmaShifts
<1>0. /\ port \in [Ports -> Port]
      /\ port[q].dmx # "kIdle" => port[q].armed \/ port[q].dma # "none"
      /\ port[q].dma # "none" => port[q].shift
  BY DEF IInv, TypeOK, NoLostWakeup, DmaShifts
<1> USE DEF Port
<1>1. CASE SetPortDirectionStep(p)
  BY <1>0, <1>1 DEF SetPortDirectionStep
<1>2. CASE SetPinStep(p)
  BY <1>0, <1>2 DEF SetPinStep
<1>3. CASE DataDisableStep(p)
  BY <1>0, <1>3 DEF DataDisableStep
<1>4. CASE RxOffStep(p)
  BY <1>0, <1>4 DEF RxOffStep
<1>5. CASE WaitIdleStep(p)
  BY <1>0, <1>5 DEF WaitIdleStep
<1>6. CASE WaitTcStep(p)
  BY <1>0, <1>6 DEF WaitTcStep
<1>7. CASE ForceIdleStep(p)
  BY <1>0, <1>7 DEF ForceIdleStep
<1>8. CASE DataEnableStep(p)
  BY <1>0, <1>8 DEF DataEnableStep
<1>9. CASE SetOutputStyleStep(p)
  BY <1>0, <1>9 DEF SetOutputStyleStep
<1>10. CASE ConstantLoopStep(p)
  BY <1>0, <1>10 DEF ConstantLoopStep
<1>11. CASE StartDmxOutputStep(p)
  BY <1>0, <1>11 DEF StartDmxOutputStep
<1>12. CASE StartRdmOutputStep(p)
  BY <1>0, <1>12 DEF StartRdmOutputStep
<1>13. CASE DriveBreakStep(p)
  BY <1>0, <1>13 DEF DriveBreakStep
<1>14. CASE ArmBreakStep(p)
  BY <1>0, <1>14 DEF ArmBreakStep
<1>15. CASE ArmRdmBreakStep(p)
  BY <1>0, <1>15 DEF ArmRdmBreakStep
<1>16. CASE SetSendDataStep(p)
  BY <1>0, <1>16 DEF SetSendDataStep
<1>17. CASE CopyDataStep(p)
  BY <1>0, <1>17 DEF CopyDataStep
<1>18. CASE StartSendStyleDirectStep(p)
  BY <1>0, <1>18 DEF StartSendStyleDirectStep
<1>19. CASE SyncPortStep(p)
  BY <1>0, <1>19 DEF SyncPortStep
<1>20. CASE BlackoutStep(p)
  BY <1>0, <1>20 DEF BlackoutStep
<1>21. CASE SendDiscoveryStep(p)
  BY <1>0, <1>21 DEF SendDiscoveryStep
<1>22. CASE WaitDiscoveryStep(p)
  BY <1>0, <1>22 DEF WaitDiscoveryStep
<1>23. CASE SwitchBufferStep(p)
  BY <1>0, <1>23 DEF SwitchBufferStep
<1>24. CASE ClearDataStep(p)
  BY <1>0, <1>24 DEF ClearDataStep
<1> QED
  BY <1>1, <1>2, <1>3, <1>4, <1>5, <1>6, <1>7, <1>8, <1>9, <1>10, <1>11, <1>12, <1>13, <1>14, <1>15, <1>16, <1>17, <1>18, <1>19, <1>20, <1>21, <1>22, <1>23, <1>24 DEF MainStep

LEMMA MainTc ==
  ASSUME IInv, NEW p \in Ports, MainStep(p)
  PROVE  TcComes'
<1> SUFFICES ASSUME NEW q \in Ports
             PROVE  port'[q].tc \/ port'[q].shift
                      \/ (port'[q].dmx # "kIdle" /\ At("WaitTc", q)')
  BY DEF TcComes
<1>0. /\ port \in [Ports -> Port]
      /\ todo \in Seq(Step)
      /\ port[q].tc \/ port[q].shift \/ (port[q].dmx # "kIdle" /\ At("WaitTc", q))
  BY DEF IInv, TypeOK, TcComes
<1> USE DEF Port
\* The two steps around the wait itself.
<1>1. CASE WaitIdleStep(p)
  <2>1. port[q].tc \/ port[q].shift
    BY <1>0, <1>1 DEF WaitIdleStep, At
  <2>2. CASE port[p].dmx = "kDmxInter" /\ Goto(<< S("WaitTc", p) >>)
    <3>1. Head(todo') = S("WaitTc", p) /\ todo' # << >>
      <4>1. Tail(todo) \in Seq(Step)
        BY <1>0, <1>1 DEF WaitIdleStep, At
      <4>2. << S("WaitTc", p) >> \in Seq(Step)
        BY PlainStep DEF PlainOps
      <4> QED
        BY <2>2, <4>1, <4>2 DEF Goto
    <3>2. At("WaitTc", p)'
      BY <3>1 DEF At, S
    <3>3. /\ port'[p].dmx = port[p].dmx
          /\ q # p => port'[q] = port[q]
      BY <1>0, <1>1 DEF WaitIdleStep
    <3> QED
      BY <2>1, <2>2, <3>2, <3>3
  <2>3. CASE UNCHANGED port
    BY <2>1, <2>3
  <2> QED
    BY <1>1, <2>2, <2>3 DEF WaitIdleStep
<1>2. CASE WaitTcStep(p)
  BY <1>0, <1>2 DEF WaitTcStep, At
\* Any other step is not a wait, so it starts with tc or shift set.
<1>3. CASE SetPortDirectionStep(p)
  BY <1>0, <1>3 DEF SetPortDirectionStep, At
<1>4. CASE SetPinStep(p)
  BY <1>0, <1>4 DEF SetPinStep, At
<1>5. CASE DataDisableStep(p)
  BY <1>0, <1>5 DEF DataDisableStep, At
<1>6. CASE RxOffStep(p)
  BY <1>0, <1>6 DEF RxOffStep, At
<1>7. CASE ForceIdleStep(p)
  BY <1>0, <1>7 DEF ForceIdleStep, At
<1>8. CASE DataEnableStep(p)
  BY <1>0, <1>8 DEF DataEnableStep, At
<1>9. CASE SetOutputStyleStep(p)
  BY <1>0, <1>9 DEF SetOutputStyleStep, At
<1>10. CASE ConstantLoopStep(p)
  BY <1>0, <1>10 DEF ConstantLoopStep, At
<1>11. CASE StartDmxOutputStep(p)
  BY <1>0, <1>11 DEF StartDmxOutputStep, At
<1>12. CASE StartRdmOutputStep(p)
  BY <1>0, <1>12 DEF StartRdmOutputStep, At
<1>13. CASE DriveBreakStep(p)
  BY <1>0, <1>13 DEF DriveBreakStep, At
<1>14. CASE ArmBreakStep(p)
  BY <1>0, <1>14 DEF ArmBreakStep, At
<1>15. CASE ArmRdmBreakStep(p)
  BY <1>0, <1>15 DEF ArmRdmBreakStep, At
<1>16. CASE SetSendDataStep(p)
  BY <1>0, <1>16 DEF SetSendDataStep, At
<1>17. CASE CopyDataStep(p)
  BY <1>0, <1>17 DEF CopyDataStep, At
<1>18. CASE StartSendStyleDirectStep(p)
  BY <1>0, <1>18 DEF StartSendStyleDirectStep, At
<1>19. CASE SyncPortStep(p)
  BY <1>0, <1>19 DEF SyncPortStep, At
<1>20. CASE BlackoutStep(p)
  BY <1>0, <1>20 DEF BlackoutStep, At
<1>21. CASE SendDiscoveryStep(p)
  BY <1>0, <1>21 DEF SendDiscoveryStep, At
<1>22. CASE WaitDiscoveryStep(p)
  BY <1>0, <1>22 DEF WaitDiscoveryStep, At
<1>23. CASE SwitchBufferStep(p)
  BY <1>0, <1>23 DEF SwitchBufferStep, At
<1>24. CASE ClearDataStep(p)
  BY <1>0, <1>24 DEF ClearDataStep, At
<1> QED
  BY <1>1, <1>2, <1>3, <1>4, <1>5, <1>6, <1>7, <1>8, <1>9, <1>10, <1>11, <1>12, <1>13, <1>14, <1>15, <1>16, <1>17, <1>18, <1>19, <1>20, <1>21, <1>22, <1>23, <1>24 DEF MainStep

LEMMA IrqWakeup ==
  ASSUME IInv, NEW p \in Ports, Irq(p)
  PROVE  NoLostWakeup' /\ DmaShifts' /\ TcComes'
<1> SUFFICES ASSUME NEW q \in Ports
             PROVE  /\ port'[q].dmx # "kIdle" => port'[q].armed \/ port'[q].dma # "none"
                    /\ port'[q].dma # "none" => port'[q].shift
                    /\ port'[q].tc \/ port'[q].shift
                         \/ (port'[q].dmx # "kIdle" /\ At("WaitTc", q)')
  BY DEF NoLostWakeup, DmaShifts, TcComes
<1>0. /\ port \in [Ports -> Port]
      /\ port[q].dmx # "kIdle" => port[q].armed \/ port[q].dma # "none"
      /\ port[q].dma # "none" => port[q].shift
      /\ port[q].tc \/ port[q].shift \/ (port[q].dmx # "kIdle" /\ At("WaitTc", q))
  BY DEF IInv, TypeOK, NoLostWakeup, DmaShifts, TcComes
<1>00. At("WaitTc", q)' <=> At("WaitTc", q)
  BY DEF Irq, TimerIrq, DmaIrq, Shifted, At
<1> USE DEF Port
<1>1. CASE TimerIrq(p)
  <2>1. CASE port[p].dmx # "kIdle" /\ DmxTimer(p)
    BY <1>0, <1>00, <1>1, <2>1 DEF TimerIrq, DmxTimer, StartDma
  <2>2. CASE port[p].dmx = "kIdle" /\ RdmTimer(p)
    BY <1>0, <1>00, <1>1, <2>2 DEF TimerIrq, RdmTimer, StartDma
  <2>3. CASE port[p].dmx = "kIdle" /\ port' = [port EXCEPT ![p].armed = FALSE]
    BY <1>0, <1>00, <2>3
  <2> QED
    BY <1>1, <2>1, <2>2, <2>3 DEF TimerIrq
<1>2. CASE DmaIrq(p)
  BY <1>0, <1>00, <1>2 DEF DmaIrq
<1>3. CASE Shifted(p)
  BY <1>0, <1>00, <1>3 DEF Shifted
<1> QED
  BY <1>1, <1>2, <1>3 DEF Irq

-----------------------------------------------------------------------------
(***************************************************************************)
(* The invariant is inductive.                                             *)
(***************************************************************************)
LEMMA InitInv == Init => IInv
<1> SUFFICES ASSUME Init PROVE IInv
  OBVIOUS
<1>1. TypeOK
  <2>1. [direction |-> "kInput", state |-> "kIdle", style |-> "kDelta",
         dmx |-> "kIdle", rdm |-> "kIdle", read |-> 0, write |-> 0,
         pending |-> FALSE, rxIrq |-> FALSE, txPin |-> "af",
         dirPin |-> "kInput", armed |-> FALSE, dma |-> "none",
         shift |-> FALSE, tc |-> TRUE] \in Port
    BY Zenon DEF Port, Directions, PortStates, OutputStyles, DmxStates, RdmStates
  <2>2. port \in [Ports -> Port]
    BY <2>1, Zenon DEF Init
  <2>3. continuous \in BOOLEAN
    BY Zenon DEF Init
  <2>4. todo \in Seq(Step)
    BY DEF Init
  <2> QED
    BY <2>2, <2>3, <2>4, Zenon DEF TypeOK
<1>2. NoLostWakeup /\ DmaShifts /\ TcComes
  BY DEF Init, NoLostWakeup, DmaShifts, TcComes
<1> QED
  BY <1>1, <1>2 DEF IInv

LEMMA CallInv ==
  ASSUME IInv, NEW steps \in Seq(Step), Call(steps)
  PROVE  IInv'
<1>1. port' = port /\ continuous' = continuous /\ todo' = steps /\ todo = << >>
  BY DEF Call
<1>2. \A q \in Ports : ~At("WaitTc", q)
  BY <1>1 DEF At
<1> QED
  BY <1>1, <1>2 DEF IInv, TypeOK, NoLostWakeup, DmaShifts, TcComes

LEMMA MainInv ==
  ASSUME IInv, NEW p \in Ports, MainStep(p)
  PROVE  IInv'
<1>1. TypeOK
  BY DEF IInv
<1>2. continuous' \in BOOLEAN
  BY <1>1 DEF MainStep, TypeOK, SetPortDirectionStep, SetPinStep, DataDisableStep,
     RxOffStep, WaitIdleStep, WaitTcStep, ForceIdleStep, DataEnableStep,
     SetOutputStyleStep, AnyConstant, ConstantLoopStep, StartDmxOutputStep,
     StartRdmOutputStep,
     DriveBreakStep, ArmBreakStep, ArmRdmBreakStep, SetSendDataStep, SwitchBufferStep, CopyDataStep,
     StartSendStyleDirectStep, SyncPortStep, BlackoutStep, ClearDataStep, SendDiscoveryStep,
     WaitDiscoveryStep
<1> QED
  BY <1>1, <1>2, MainTypePort, MainTypeTodo, MainWakeup, MainTc DEF IInv, TypeOK

LEMMA IrqInv ==
  ASSUME IInv, NEW p \in Ports, Irq(p)
  PROVE  IInv'
<1>1. continuous' = continuous /\ todo' = todo
  BY DEF Irq, TimerIrq, DmaIrq, Shifted
<1>2. port' \in [Ports -> Port]
  BY IrqType DEF IInv
<1> QED
  BY <1>1, <1>2, IrqWakeup DEF IInv, TypeOK

LEMMA StutterInv ==
  ASSUME IInv, UNCHANGED vars
  PROVE  IInv'
BY DEF IInv, vars, TypeOK, NoLostWakeup, DmaShifts, TcComes, At

LEMMA StepInv == IInv /\ [Next]_vars => IInv'
<1> SUFFICES ASSUME IInv, [Next]_vars PROVE IInv'
  OBVIOUS
<1>1. ASSUME NEW steps \in Calls, Call(steps)  PROVE IInv'
  BY <1>1, ParametersAssumption, CallInv
<1>2. ASSUME NEW p \in Ports, MainStep(p)  PROVE IInv'
  BY <1>2, MainInv
<1>3. ASSUME NEW p \in Ports, Irq(p)  PROVE IInv'
  BY <1>3, IrqInv
<1>4. CASE UNCHANGED vars
  BY <1>4, StutterInv
<1> QED
  BY <1>1, <1>2, <1>3, <1>4 DEF Next

LEMMA InvBusyWaitEnds == IInv => BusyWaitEnds
BY DEF IInv, NoLostWakeup, DmaShifts, TcComes, BusyWaitEnds

-----------------------------------------------------------------------------
\* The driver's tables keep their types under any use of the driver.
THEOREM TypeCorrect == Spec => []TypeOK
<1>1. IInv => TypeOK
  BY DEF IInv
<1> QED
  BY InitInv, StepInv, <1>1, PTL DEF Spec

\* No use of the driver leaves a packet half-sent without an interrupt ahead.
THEOREM WakeupSafe == Spec => []NoLostWakeup
<1>1. IInv => NoLostWakeup
  BY DEF IInv
<1> QED
  BY InitInv, StepInv, <1>1, PTL DEF Spec

\* No use of the driver makes one of its unbounded waits for USART_FLAG_TC
\* wait for an event that is not coming.
THEOREM WaitsEnd == Spec => []BusyWaitEnds
BY InitInv, StepInv, InvBusyWaitEnds, PTL DEF Spec

\* has_continuos_output_ agrees with the output styles under any use.
THEOREM ContinuousFlagAgrees == Spec => []ContinuousFlag
<1>1. Init => ContinuousFlag
  BY DEF Init, ContinuousFlag
<1>2. IInv /\ ContinuousFlag /\ [Next]_vars => ContinuousFlag'
  <2> SUFFICES ASSUME IInv, ContinuousFlag, [Next]_vars PROVE ContinuousFlag'
    OBVIOUS
  <2>0. port \in [Ports -> Port]
    BY DEF IInv, TypeOK
  <2>1. CASE continuous' = continuous /\ \A q \in Ports : port'[q].style = port[q].style
    BY <2>1 DEF ContinuousFlag
  <2>2. ASSUME NEW p \in Ports, SetOutputStyleStep(p)  PROVE ContinuousFlag'
    <3>1. port'[p].style = Head(todo).x
      BY <2>0, <2>2 DEF SetOutputStyleStep, AnyConstant, Port
    <3> QED
      BY <2>2, <3>1, Zenon DEF SetOutputStyleStep, AnyConstant, ContinuousFlag
  <2>3. ASSUME NEW p \in Ports, MainStep(p), ~SetOutputStyleStep(p)
        PROVE  continuous' = continuous /\ \A q \in Ports : port'[q].style = port[q].style
    BY <2>0, <2>3, SMTT(60) DEF Port, MainStep, SetPortDirectionStep, SetPinStep, DataDisableStep,
       RxOffStep, WaitIdleStep, WaitTcStep, ForceIdleStep, DataEnableStep,
       ConstantLoopStep, StartDmxOutputStep, StartRdmOutputStep,
       DriveBreakStep, ArmBreakStep, ArmRdmBreakStep, SetSendDataStep, SwitchBufferStep, CopyDataStep,
       StartSendStyleDirectStep, SyncPortStep, BlackoutStep, ClearDataStep, SendDiscoveryStep,
       WaitDiscoveryStep
  <2>4. ASSUME NEW p \in Ports, Irq(p)
        PROVE  continuous' = continuous /\ \A q \in Ports : port'[q].style = port[q].style
    BY <2>0, <2>4 DEF Port, Irq, TimerIrq, DmxTimer, RdmTimer, StartDma, DmaIrq, Shifted
  <2>5. ASSUME NEW steps \in Calls, Call(steps)  PROVE UNCHANGED <<port, continuous>>
    BY <2>5 DEF Call
  <2>6. CASE UNCHANGED vars
    BY <2>1, <2>6 DEF vars
  <2> QED
    BY <2>1, <2>2, <2>3, <2>4, <2>5, <2>6 DEF Next
<1> QED
  BY InitInv, StepInv, <1>1, <1>2, PTL DEF Spec
=============================================================================
