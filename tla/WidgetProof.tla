----------------------------- MODULE WidgetProof -----------------------------
(***************************************************************************)
(* The widget on its port: why no RDM packet is sent into a line that is   *)
(* turned round, and why a port that is not told to send DMX listens.      *)
(*                                                                         *)
(* The argument is that everything the port is in follows from the request *)
(* that is carried out (output, timing) and from the step of it the main   *)
(* loop is at; a finite list of the sequences `todo' can be is not needed. *)
(***************************************************************************)
EXTENDS Widget, DmxTransmitProof, SequenceTheorems

\* A host that sends DMX data only during an RDM transaction and no RDM
\* request while DMX is output, and responders that answer in time: without
\* any one of the three, RdmOnTheWire and PinAgrees do not hold, and OutputStops
\* needs the first two.
Orderly == Patient /\ ~Switches /\ ~LateAnswers

DisableOps == {"DataDisable", "RxOff", "WaitIdle", "WaitTc", "ForceIdle"}
EnableOps  == {"SetPortDirectionEnable", "DataEnable"}
DmxOps     == {"SetSendData", "SwitchBuffer", "CopyData", "StartSendStyleDirect",
               "SetOutputStyle", "ConstantDisable", "ConstantStart",
               "StartDmxOutput", "DriveBreak", "ArmBreak"}
RdmOps     == {"StartRdmOutput", "DriveRdmBreak", "ArmRdmBreak"}

\* The last steps of the requests that do not output DMX.
Final == EnableOps \cup RdmOps

\* The steps that wait behind another one.
Later == {"SetPin", "SetPortDirectionEnable", "SetSendData", "ConstantStart",
          "StartRdmOutput"}

\* The direction the request asks for.
Target == IF output \/ timing THEN "kOutput" ELSE "kInput"

\* A step that belongs to the request.
Fits(s) ==
  /\ s.op \in {"SetPortDirection", "SetPin"} \cup DisableOps \cup EnableOps
                \cup DmxOps \cup RdmOps
  /\ s.op \in {"SetPortDirection", "SetPortDirectionEnable", "SetPin"} => s.x = Target
  /\ s.op = "SetOutputStyle" => s.x = "kConstant"
  /\ s.op \in EnableOps \cup {"RxOff"} => ~timing
  /\ s.op \in DmxOps => output
  /\ s.op \in RdmOps => timing

Requested ==
  /\ ~(output /\ timing)
  /\ \A i \in 1 .. Len(todo) :
       /\ Fits(todo[i])
       /\ i # 1 => todo[i].op \in Later
       /\ ~output => (todo[i].op \in Final <=> i = Len(todo))

PinPending == \E i \in 1 .. Len(todo) : todo[i].op = "SetPin"

\* The direction of the port, of its pin and of its receiver.
Turned ==
  LET q == port[0] IN
  /\ todo # << >> /\ ~At("SetPortDirection", 0) => q.direction = Target
  /\ q.dirPin = q.direction \/ PinPending
  /\ todo = << >> => /\ q.direction = "kOutput" => output \/ q.rdm # "kIdle"
                     /\ q.direction = "kInput" => q.state = "kRx" \/ q.dmx = "kIdle"
  /\ q.state = "kRx" => q.rxIrq /\ (q.direction = "kInput" \/ At("DataDisable", 0))
  /\ At("RxOff", 0) => q.state = "kIdle"

\* The packet on the wire is of the transaction, and no DMX packet is under
\* way by the time an RDM packet is.
OnWire ==
  LET q == port[0] IN
  /\ continuous /\ q.style = "kConstant"
  /\ q.shift => ~q.tc
  /\ q.rdm # "kIdle" => timing /\ todo = << >> /\ q.direction = "kOutput" /\ q.dma # "dmx"
  /\ q.dma = "rdm" => q.rdm = "kMab"
  /\ timing => \/ q.dmx = "kIdle"
               \/ At("WaitIdle", 0) \/ At("WaitTc", 0) \/ At("ForceIdle", 0)
               \/ (At("SetPortDirection", 0) \/ At("DataDisable", 0)) /\ q.state = "kRx"
  /\ At("DriveRdmBreak", 0) \/ At("ArmRdmBreak", 0) => ~q.shift

\* An answer that will be passed on is that of the transaction, whose packet
\* is gone, or is passed on before the next request.
Answering ==
  answer # "none" /\ sendState # "kOnDataChangeOnly" =>
    IF timing THEN todo = << >> /\ port[0].rdm = "kIdle" ELSE turn = "rdm"

OwnTypes ==
  /\ timing \in BOOLEAN /\ discovery \in BOOLEAN /\ sendState \in SendStates
  /\ answer \in Answers /\ output \in BOOLEAN /\ turn \in {"host", "rdm", "timeout"}

WidgetInv == IInv /\ OwnTypes /\ Requested /\ Turned /\ OnWire /\ Answering

-----------------------------------------------------------------------------
(***************************************************************************)
(* What is to be done                                                      *)
(***************************************************************************)
LEMMA OnePort == Ports = {0}
<1>1. N = 1
  BY WidgetAssumption
<1> QED
  BY <1>1 DEF Ports

LEMMA PortZero ==
  ASSUME WidgetInv
  PROVE  /\ 0 \in Ports /\ port \in [Ports -> Port] /\ port[0] \in Port
         /\ todo \in Seq(Step) /\ Len(todo) \in Nat
         /\ timing \in BOOLEAN /\ output \in BOOLEAN
<1>1. 0 \in Ports
  BY OnePort
<1>2. port \in [Ports -> Port] /\ todo \in Seq(Step)
  BY DEF WidgetInv, IInv, TypeOK
<1>3. Len(todo) \in Nat
  BY <1>2
<1> QED
  BY <1>1, <1>2, <1>3 DEF WidgetInv, OwnTypes

LEMMA HeadFits ==
  ASSUME WidgetInv, NEW op, At(op, 0)
  PROVE  /\ Fits(Head(todo)) /\ Head(todo).op = op /\ todo # << >>
         /\ ~output => (op \in Final <=> Len(todo) = 1)
<1>1. todo \in Seq(Step) /\ Len(todo) \in Nat
  BY PortZero
<1>2. Len(todo) # 0 /\ todo[1].op = op /\ Head(todo) = todo[1] /\ todo # << >>
  BY <1>1, AtHead DEF At
<1>3. 1 \in 1 .. Len(todo)
  BY <1>1, <1>2
<1> QED
  BY <1>2, <1>3 DEF WidgetInv, Requested

\* A step of the request is replaced by steps of the request.
LEMMA Replaced ==
  ASSUME WidgetInv, NEW op, At(op, 0), NEW steps \in Seq(Step), Goto(steps),
         output' = output, timing' = timing,
         \A i \in 1 .. Len(steps) :
           /\ Fits(steps[i])
           /\ steps[i].op # "SetPortDirection"
           /\ i # 1 => steps[i].op \in Later
           /\ ~output => (steps[i].op \in Final <=> op \in Final /\ i = Len(steps))
  PROVE  /\ Requested'
         /\ Len(steps) # 0 => \A o : At(o, 0)' <=> o = steps[1].op
         /\ Len(steps) = 0 => \A o : At(o, 0)' => o \in Later
         /\ todo' = << >> => Len(steps) = 0 /\ (output \/ op \in Final)
         /\ PinPending => op = "SetPin" \/ PinPending'
         /\ ~At("SetPortDirection", 0)'
<1>1. /\ todo \in Seq(Step) /\ todo # << >> /\ Requested
      /\ \A s \in Step : s.p = 0
  BY PortZero, HeadFits, OnePort DEF WidgetInv, Step
<1>2. /\ todo' \in Seq(Step) /\ Len(todo) \in Nat /\ Len(todo) >= 1 /\ Len(steps) \in Nat
      /\ Len(todo') = Len(steps) + Len(todo) - 1
      /\ \A i \in 1 .. Len(steps) : todo'[i] = steps[i]
      /\ \A i \in (Len(steps) + 1) .. Len(todo') : todo'[i] = todo[i - Len(steps) + 1]
  BY <1>1, GotoSteps
<1>3. /\ Len(todo') \in Nat /\ todo[1].op = op
      /\ ~output => (op \in Final <=> Len(todo) = 1)
  BY <1>1, <1>2, AtHead, HeadFits
<1>4. \A s : Fits(s)' <=> Fits(s)
  BY DEF Fits, Target
<1> DEFINE new  == Len(steps)
           old  == Len(todo)
           both == Len(todo')
<1>00. new \in Nat /\ old \in Nat /\ old >= 1 /\ both \in Nat /\ both = new + old - 1
  BY <1>2, <1>3
<1> HIDE DEF new, old, both
<1>01. both = 0 => new = 0 /\ old = 1
  BY <1>00
<1>02. old # 1 => both > new
  BY <1>00
<1> USE DEF new, old, both
<1>5. ASSUME NEW i \in 1 .. Len(todo')
      PROVE  /\ Fits(todo'[i])
             /\ i # 1 => todo'[i].op \in Later
             /\ todo'[i].op # "SetPortDirection"
             /\ ~output => (todo'[i].op \in Final <=> i = Len(todo'))
  <2>1. CASE i <= Len(steps)
    <3>1. i \in 1 .. Len(steps) /\ todo'[i] = steps[i]
      BY <1>2, <1>5, <2>1
    <3>2. /\ Fits(steps[i]) /\ steps[i].op # "SetPortDirection"
          /\ i # 1 => steps[i].op \in Later
          /\ ~output => (steps[i].op \in Final <=> op \in Final /\ i = Len(steps))
      BY <3>1
    <3>3. ~output => (i = Len(todo') <=> op \in Final /\ i = Len(steps))
      <4>1. CASE Len(todo) = 1
        BY <1>2, <1>3, <4>1
      <4>2. CASE Len(todo) # 1
        <5>1. i # Len(todo')
          BY <1>00, <1>02, <2>1, <3>1, <4>2
        <5>2. op \notin Final \/ output
          BY <1>3, <4>2
        <5> QED
          BY <5>1, <5>2
      <4> QED
        BY <4>1, <4>2
    <3> QED
      BY <3>1, <3>2, <3>3
  <2>2. CASE i > Len(steps)
    <3> DEFINE m == i - Len(steps) + 1
    <3>1. i \in (Len(steps) + 1) .. Len(todo')
      BY <1>2, <1>5, <2>2
    <3>2. m \in 2 .. Len(todo) /\ todo'[i] = todo[m] /\ (i = Len(todo') <=> m = Len(todo))
      BY <1>2, <3>1
    <3> HIDE DEF m
    <3>3. m \in 1 .. Len(todo) /\ m # 1
      BY <1>2, <3>2
    <3>4. Fits(todo[m]) /\ todo[m].op \in Later
      BY <1>1, <3>3 DEF Requested
    <3>5. ~output => (todo[m].op \in Final <=> m = Len(todo))
      BY <1>1, <3>3 DEF Requested
    <3> QED
      BY <3>2, <3>4, <3>5 DEF Later
  <2> QED
    BY <1>2, <1>5, <2>1, <2>2
<1>6. Requested'
  <2>1. ~(output /\ timing)
    BY <1>1 DEF Requested
  <2> QED
    BY <1>4, <1>5, <2>1 DEF Requested
<1>7. \A o : At(o, 0)' <=> Len(todo') # 0 /\ todo'[1].op = o
  <2>1. Len(todo') # 0 => todo'[1] \in Step
    BY <1>2, <1>3
  <2> QED
    BY <1>1, <1>2, <2>1, AtHeadNext
<1>8. Len(steps) # 0 => \A o : At(o, 0)' <=> o = steps[1].op
  BY <1>2, <1>3, <1>7
<1>9. Len(steps) = 0 => \A o : At(o, 0)' => o \in Later
  <2> SUFFICES ASSUME Len(steps) = 0, Len(todo') # 0  PROVE todo'[1].op \in Later
    BY <1>7
  <2>1. todo'[1] = todo[2] /\ 2 \in 1 .. Len(todo)
    BY <1>2, <1>3
  <2> QED
    BY <1>1, <2>1 DEF Requested
<1>10. todo' = << >> => Len(steps) = 0 /\ (output \/ op \in Final)
  <2> SUFFICES ASSUME todo' = << >>  PROVE Len(steps) = 0 /\ (output \/ op \in Final)
    OBVIOUS
  <2>1. Len(todo') = 0
    OBVIOUS
  <2>2. Len(steps) = 0 /\ Len(todo) = 1
    BY <1>01, <2>1
  <2> QED
    BY <1>3, <2>2
<1>11. PinPending => op = "SetPin" \/ PinPending'
  <2> SUFFICES ASSUME NEW i \in 1 .. Len(todo), todo[i].op = "SetPin", op # "SetPin"
               PROVE  PinPending'
    BY DEF PinPending
  <2> DEFINE m == i + Len(steps) - 1
  <2>1. i # 1
    BY <1>3
  <2>2. m \in (Len(steps) + 1) .. Len(todo') /\ m - Len(steps) + 1 = i /\ m \in 1 .. Len(todo')
    BY <1>2, <2>1
  <2> HIDE DEF m
  <2>3. todo'[m] = todo[i]
    BY <1>2, <2>2
  <2> QED
    BY <2>2, <2>3 DEF PinPending
<1>12. ~At("SetPortDirection", 0)'
  <2>1. Len(todo') # 0 => 1 \in 1 .. Len(todo')
    BY <1>3
  <2> QED
    BY <1>5, <1>7, <2>1
<1> QED
  BY <1>6, <1>8, <1>9, <1>10, <1>11, <1>12
\* The main loop is at one step, and an answer that is still to be passed on
\* is not touched by it.
LEMMA HeadOnly ==
  ASSUME WidgetInv, NEW op, At(op, 0), UNCHANGED own
  PROVE  /\ \A o : At(o, 0) <=> o = op
         /\ Answering'
<1>1. \A o : At(o, 0) <=> o = op
  BY HeadFits DEF At
<1>2. todo # << >>
  BY DEF At
<1> QED
  BY <1>1, <1>2 DEF Answering, own, WidgetInv

-----------------------------------------------------------------------------
(***************************************************************************)
(* The steps of the main loop                                              *)
(***************************************************************************)
LEMMA ReplacedNone ==
  ASSUME WidgetInv, NEW op, At(op, 0), Goto(<< >>), UNCHANGED own
  PROVE  /\ Requested' /\ Answering'
         /\ \A o : At(o, 0)' => o \in Later
         /\ todo' = << >> => output \/ op \in Final
         /\ ~output /\ op \in Final => todo' = << >>
         /\ PinPending => op = "SetPin" \/ PinPending'
<1> DEFINE steps == << >>
<1>1. /\ steps \in Seq(Step) /\ Len(steps) = 0 /\ Goto(steps)
      /\ output' = output /\ timing' = timing
  BY DEF own
<1> HIDE DEF steps
<1>2. \A i \in 1 .. Len(steps) : FALSE
  BY <1>1
<1>3. /\ Requested'
      /\ \A o : At(o, 0)' => o \in Later
      /\ todo' = << >> => output \/ op \in Final
      /\ PinPending => op = "SetPin" \/ PinPending'
  BY <1>1, <1>2, Replaced
<1>4. ~output /\ op \in Final => todo' = << >>
  <2>1. todo \in Seq(Step) /\ todo # << >>
    BY PortZero, HeadFits
  <2>2. /\ Len(todo') = Len(steps) + Len(todo) - 1 /\ todo' \in Seq(Step)
        /\ Len(todo) \in Nat
    BY <1>1, <2>1, GotoSteps
  <2>3. Len(todo) = 1 => todo' = << >>
    BY <1>1, <2>2, EmptySeq
  <2> QED
    BY <2>3, HeadFits
<1> QED
  BY <1>3, <1>4, HeadOnly

LEMMA ReplacedOne ==
  ASSUME WidgetInv, NEW op, At(op, 0), NEW s \in Step, Goto(<< s >>), UNCHANGED own,
         Fits(s), s.op # "SetPortDirection",
         ~output => (s.op \in Final <=> op \in Final)
  PROVE  /\ Requested' /\ Answering'
         /\ \A o : At(o, 0)' <=> o = s.op
         /\ todo' # << >>
         /\ PinPending => op = "SetPin" \/ PinPending'
<1> DEFINE steps == << s >>
<1>1. /\ steps \in Seq(Step) /\ Len(steps) = 1 /\ steps[1] = s /\ Goto(steps)
      /\ output' = output /\ timing' = timing
  BY Lengths DEF own
<1> HIDE DEF steps
<1>2. \A i \in 1 .. Len(steps) :
        /\ Fits(steps[i])
        /\ steps[i].op # "SetPortDirection"
        /\ i # 1 => steps[i].op \in Later
        /\ ~output => (steps[i].op \in Final <=> op \in Final /\ i = Len(steps))
  <2>1. \A i \in 1 .. Len(steps) : i = 1 /\ i = Len(steps) /\ steps[i] = s
    BY <1>1
  <2> QED
    BY <2>1
<1>3. /\ Requested'
      /\ Len(steps) # 0 => \A o : At(o, 0)' <=> o = steps[1].op
      /\ PinPending => op = "SetPin" \/ PinPending'
  BY <1>1, <1>2, Replaced
<1>4. \A o : At(o, 0)' <=> o = s.op
  BY <1>1, <1>3
<1>5. todo' # << >>
  BY <1>4 DEF At
<1> QED
  BY <1>3, <1>4, <1>5, HeadOnly

\* A step of Output Only Send DMX, after the port has been turned.
LEMMA OutputStep ==
  ASSUME WidgetInv, NEW op \in DmxOps, At(op, 0), NEW steps \in Seq(Step), Goto(steps),
         UNCHANGED own, continuous',
         port'[0].direction = port[0].direction, port'[0].dirPin = port[0].dirPin,
         port'[0].state = port[0].state, port'[0].rdm = port[0].rdm,
         port'[0].dma = port[0].dma, port'[0].shift = port[0].shift,
         port'[0].tc = port[0].tc, port'[0].style = "kConstant",
         \A i \in 1 .. Len(steps) :
           /\ Fits(steps[i])
           /\ steps[i].op \in DmxOps \cup {"DataDisable"}
           /\ i # 1 => steps[i].op \in Later
  PROVE  Requested' /\ Turned' /\ OnWire' /\ Answering'
<1>1. /\ Turned /\ OnWire /\ Requested /\ timing \in BOOLEAN /\ output \in BOOLEAN
      /\ Len(steps) \in Nat /\ todo # << >>
  BY PortZero, HeadFits DEF WidgetInv
<1>2. output /\ ~timing /\ timing' = timing /\ output' = output
  BY <1>1, HeadFits DEF Fits, Requested, own
<1>3. \A o : At(o, 0) <=> o = op
  BY HeadOnly
<1>4. op \notin {"SetPin", "DataDisable", "SetPortDirection"}
  BY DEF DmxOps
<1>5. \A i \in 1 .. Len(steps) :
        /\ Fits(steps[i])
        /\ steps[i].op # "SetPortDirection"
        /\ i # 1 => steps[i].op \in Later
        /\ ~output => (steps[i].op \in Final <=> op \in Final /\ i = Len(steps))
  BY <1>2 DEF DmxOps
<1>6. /\ Requested'
      /\ Len(steps) # 0 => \A o : At(o, 0)' <=> o = steps[1].op
      /\ Len(steps) = 0 => \A o : At(o, 0)' => o \in Later
      /\ PinPending => PinPending'
  BY <1>2, <1>4, <1>5, Replaced
<1>7. ~At("RxOff", 0)' /\ ~At("DriveRdmBreak", 0)' /\ ~At("ArmRdmBreak", 0)'
  <2>1. CASE Len(steps) = 0
    BY <1>6, <2>1 DEF Later
  <2>2. CASE Len(steps) # 0
    <3>1. steps[1].op \in DmxOps \cup {"DataDisable"}
      BY <1>1, <2>2
    <3> QED
      BY <1>6, <2>2, <3>1 DEF DmxOps
  <2> QED
    BY <2>1, <2>2
<1>8. Target = "kOutput" /\ Target' = "kOutput" /\ port[0].direction = "kOutput"
  BY <1>1, <1>2, <1>3, <1>4 DEF Turned, Target
<1>9. port[0].state # "kRx" /\ port[0].rdm = "kIdle"
  BY <1>1, <1>2, <1>3, <1>4, <1>8 DEF Turned, OnWire
<1>10. Turned'
  BY <1>1, <1>2, <1>6, <1>7, <1>8, <1>9 DEF Turned
<1>11. OnWire'
  BY <1>1, <1>2, <1>7, <1>9 DEF OnWire
<1> QED
  BY <1>6, <1>10, <1>11, HeadOnly

LEMMA OneEach ==
  ASSUME NEW op \in PlainOps
  PROVE  ForEachPort(op) \in Seq(Step) /\ Len(ForEachPort(op)) = 1
         /\ ForEachPort(op)[1] = S(op, 0)
<1>1. N = 1
  BY WidgetAssumption
<1>2. ForEachPort(op) = [i \in 1 .. 1 |-> S(op, i - 1)]
  BY <1>1 DEF ForEachPort
<1>3. ForEachPort(op) \in Seq(Step)
  BY ForEachPortType
<1> QED
  BY <1>2, <1>3

\* The steps of an output that are made of one step, of none or of a loop.
LEMMA WidgetOutput ==
  ASSUME WidgetInv, UNCHANGED own,
         \/ SetSendDataStep(0) \/ SwitchBufferStep(0) \/ CopyDataStep(0)
         \/ StartSendStyleDirectStep(0) \/ SetOutputStyleStep(0) \/ ConstantLoopStep(0)
         \/ StartDmxOutputStep(0) \/ ArmBreakStep(0)
         \/ DriveBreakStep(0) /\ At("DriveBreak", 0)
  PROVE  Requested' /\ Turned' /\ OnWire' /\ Answering'
<1>1. /\ port \in [Ports -> Port] /\ 0 \in Ports /\ port[0] \in Port
      /\ port[0].style = "kConstant" /\ continuous /\ todo \in Seq(Step)
  BY PortZero DEF WidgetInv, OnWire
<1>2. SUFFICES ASSUME NEW op \in DmxOps, At(op, 0), NEW steps \in Seq(Step), Goto(steps),
         continuous',
         port'[0].direction = port[0].direction, port'[0].dirPin = port[0].dirPin,
         port'[0].state = port[0].state, port'[0].rdm = port[0].rdm,
         port'[0].dma = port[0].dma, port'[0].shift = port[0].shift,
         port'[0].tc = port[0].tc, port'[0].style = "kConstant",
         \A i \in 1 .. Len(steps) : /\ steps[i].op \in DmxOps \cup {"DataDisable"}
                                    /\ steps[i].op # "SetOutputStyle"
                                    /\ i # 1 => steps[i].op \in Later
               PROVE  Requested' /\ Turned' /\ OnWire' /\ Answering'
  <2> DEFINE Result == Requested' /\ Turned' /\ OnWire' /\ Answering'
  <2>1. ASSUME NEW op \in DmxOps, At(op, 0),
               Goto(<< >>) \/ \E s \in Step : /\ Goto(<< s >>)
                                              /\ s.op \in DmxOps \cup {"DataDisable"}
                                              /\ s.op # "SetOutputStyle",
               continuous' = continuous,
               \/ port' = port
               \/ port' = [port EXCEPT ![0].write = 1 - @]
               \/ port' = [port EXCEPT ![0].pending = TRUE]
               \/ port' = [port EXCEPT ![0].txPin = "low"]
               \/ port' = [port EXCEPT ![0].armed = TRUE, ![0].dmx = "kDmxBreak"]
        PROVE  Result
    <3>1. /\ port'[0].direction = port[0].direction /\ port'[0].dirPin = port[0].dirPin
          /\ port'[0].state = port[0].state /\ port'[0].rdm = port[0].rdm
          /\ port'[0].dma = port[0].dma /\ port'[0].shift = port[0].shift
          /\ port'[0].tc = port[0].tc /\ port'[0].style = "kConstant"
      BY <1>1, <2>1 DEF Port
    <3>2. CASE Goto(<< >>)
      <4>1. << >> \in Seq(Step) /\ Len(<< >>) = 0
        OBVIOUS
      <4> DEFINE steps == << >>
      <4>2. steps \in Seq(Step) /\ Goto(steps) /\ \A i \in 1 .. Len(steps) : FALSE
        BY <3>2, <4>1
      <4> HIDE DEF steps
      <4> QED
        BY <1>1, <1>2, <2>1, <3>1, <4>2
    <3>3. ASSUME NEW s \in Step, Goto(<< s >>), s.op \in DmxOps \cup {"DataDisable"},
                 s.op # "SetOutputStyle"
          PROVE  Result
      <4> DEFINE steps == << s >>
      <4>1. steps \in Seq(Step) /\ Goto(steps) /\ Len(steps) = 1 /\ steps[1] = s
        BY <3>3, Lengths
      <4> HIDE DEF steps
      <4>2. \A i \in 1 .. Len(steps) : i = 1 /\ steps[i] = s
        BY <4>1
      <4> QED
        BY <1>1, <1>2, <2>1, <3>1, <3>3, <4>1, <4>2
    <3> QED
      BY <2>1, <3>2, <3>3
  <2>2. \A o \in PlainOps : S(o, 0) \in Step /\ S(o, 0).op = o
    BY <1>1, PlainStep DEF S
  <2>3. \A o \in DataOps : At(o, 0) =>
          \A n \in DataOps : SX(n, 0, Head(todo).x) \in Step /\ SX(n, 0, Head(todo).x).op = n
    BY <1>1, HeadArgument DEF SX, Step
  <2>4. CASE SetSendDataStep(0) \/ SwitchBufferStep(0)
    <3>1. CASE SetSendDataStep(0)
      <4>1. \E s \in Step : Goto(<< s >>) /\ s.op \in {"SwitchBuffer", "CopyData"}
        BY <2>3, <3>1, Zenon DEF SetSendDataStep, DataOps
      <4>8. /\ At("SetSendData", 0) /\ "SetSendData" \in DmxOps
            /\ continuous' = continuous /\ port' = port
        BY <3>1 DEF SetSendDataStep, DmxOps
      <4>9. Goto(<< >>) \/ \E s \in Step : /\ Goto(<< s >>)
                                            /\ s.op \in DmxOps \cup {"DataDisable"}
                                            /\ s.op # "SetOutputStyle"
        BY <4>1 DEF DmxOps
      <4> QED
        BY <2>1, <4>8, <4>9, Zenon DEF Result
    <3>2. CASE SwitchBufferStep(0)
      <4>1. \E s \in Step : Goto(<< s >>) /\ s.op = "CopyData"
        BY <2>3, <3>2, Zenon DEF SwitchBufferStep, DataOps
      <4>8. /\ At("SwitchBuffer", 0) /\ "SwitchBuffer" \in DmxOps
            /\ continuous' = continuous /\ port' = [port EXCEPT ![0].write = 1 - @]
        BY <3>2 DEF SwitchBufferStep, DmxOps
      <4>9. Goto(<< >>) \/ \E s \in Step : /\ Goto(<< s >>)
                                            /\ s.op \in DmxOps \cup {"DataDisable"}
                                            /\ s.op # "SetOutputStyle"
        BY <4>1 DEF DmxOps
      <4> QED
        BY <2>1, <4>8, <4>9, Zenon DEF Result
    <3> QED
      BY <2>4, <3>1, <3>2
  <2>5. CASE CopyDataStep(0)
    <3>1. Goto(<< >>) \/ \E s \in Step : Goto(<< s >>) /\ s.op = "StartSendStyleDirect"
      BY <2>2, <2>5, Zenon DEF CopyDataStep, PlainOps
    <3>8. /\ At("CopyData", 0) /\ "CopyData" \in DmxOps
          /\ continuous' = continuous /\ port' = [port EXCEPT ![0].pending = TRUE]
      BY <2>5 DEF CopyDataStep, DmxOps
    <3>9. Goto(<< >>) \/ \E s \in Step : /\ Goto(<< s >>)
                                          /\ s.op \in DmxOps \cup {"DataDisable"}
                                          /\ s.op # "SetOutputStyle"
      BY <3>1 DEF DmxOps
    <3> QED
      BY <2>1, <3>8, <3>9, Zenon DEF Result
  <2>6. CASE StartSendStyleDirectStep(0)
    <3>1. Goto(<< >>) \/ \E s \in Step : Goto(<< s >>) /\ s.op = "StartDmxOutput"
      BY <2>2, <2>6, Zenon DEF StartSendStyleDirectStep, PlainOps
    <3>8. /\ At("StartSendStyleDirect", 0) /\ "StartSendStyleDirect" \in DmxOps
          /\ continuous' = continuous /\ port' = port
      BY <2>6 DEF StartSendStyleDirectStep, DmxOps
    <3>9. Goto(<< >>) \/ \E s \in Step : /\ Goto(<< s >>)
                                          /\ s.op \in DmxOps \cup {"DataDisable"}
                                          /\ s.op # "SetOutputStyle"
      BY <3>1 DEF DmxOps
    <3> QED
      BY <2>1, <3>8, <3>9, Zenon DEF Result
  <2>7. CASE ConstantLoopStep(0)
    <3>1. Goto(<< >>) \/ \E s \in Step : /\ Goto(<< s >>)
                                         /\ s.op \in {"DataDisable", "StartDmxOutput"}
      BY <2>2, <2>7, Zenon DEF ConstantLoopStep, PlainOps
    <3>2. At("ConstantDisable", 0) \/ At("ConstantStart", 0)
      BY <2>7 DEF ConstantLoopStep
    <3>8. /\ {"ConstantDisable", "ConstantStart"} \subseteq DmxOps
          /\ continuous' = continuous /\ port' = port
      BY <2>7 DEF ConstantLoopStep, DmxOps
    <3>9. Goto(<< >>) \/ \E s \in Step : /\ Goto(<< s >>)
                                          /\ s.op \in DmxOps \cup {"DataDisable"}
                                          /\ s.op # "SetOutputStyle"
      BY <3>1 DEF DmxOps
    <3> QED
      BY <2>1, <3>2, <3>8, <3>9, Zenon DEF Result
  <2>8. CASE StartDmxOutputStep(0)
    <3>1. \E s \in Step : Goto(<< s >>) /\ s.op = "DriveBreak"
      BY <2>2, <2>8, Zenon DEF StartDmxOutputStep, PlainOps
    <3>8. /\ At("StartDmxOutput", 0) /\ "StartDmxOutput" \in DmxOps
          /\ continuous' = continuous /\ port' = port
      BY <2>8 DEF StartDmxOutputStep, DmxOps
    <3>9. Goto(<< >>) \/ \E s \in Step : /\ Goto(<< s >>)
                                          /\ s.op \in DmxOps \cup {"DataDisable"}
                                          /\ s.op # "SetOutputStyle"
      BY <3>1 DEF DmxOps
    <3> QED
      BY <2>1, <3>8, <3>9, Zenon DEF Result
  <2>9. CASE DriveBreakStep(0) /\ At("DriveBreak", 0)
    <3>1. ~At("DriveRdmBreak", 0)
      BY <2>9 DEF At
    <3>2. \E s \in Step : Goto(<< s >>) /\ s.op = "ArmBreak"
      BY <2>2, <2>9, <3>1, Zenon DEF DriveBreakStep, PlainOps
    <3>8. /\ At("DriveBreak", 0) /\ "DriveBreak" \in DmxOps
          /\ continuous' = continuous /\ port' = [port EXCEPT ![0].txPin = "low"]
      BY <2>9 DEF DriveBreakStep, DmxOps
    <3>9. Goto(<< >>) \/ \E s \in Step : /\ Goto(<< s >>)
                                          /\ s.op \in DmxOps \cup {"DataDisable"}
                                          /\ s.op # "SetOutputStyle"
      BY <3>2 DEF DmxOps
    <3> QED
      BY <2>1, <3>8, <3>9, Zenon DEF Result
  <2>10. CASE ArmBreakStep(0)
    <3>1. /\ At("ArmBreak", 0) /\ "ArmBreak" \in DmxOps /\ Goto(<< >>)
          /\ continuous' = continuous
          /\ port' = [port EXCEPT ![0].armed = TRUE, ![0].dmx = "kDmxBreak"]
      BY <2>10 DEF ArmBreakStep, DmxOps
    <3> QED
      BY <2>1, <3>1, Zenon DEF Result
  <2>11. CASE SetOutputStyleStep(0)
    <3>1. At("SetOutputStyle", 0) /\ Head(todo).x = "kConstant"
      BY <2>11, HeadFits DEF SetOutputStyleStep, Fits
    <3> DEFINE a == ForEachPort("ConstantDisable")
               b == ForEachPort("ConstantStart")
               steps == a \o b
    <3>2. /\ Goto(steps) /\ continuous'
          /\ port' = [port EXCEPT ![0].style = "kConstant"]
      BY <1>1, <2>11, <3>1 DEF SetOutputStyleStep
    <3>3. /\ a \in Seq(Step) /\ Len(a) = 1 /\ a[1].op = "ConstantDisable"
          /\ b \in Seq(Step) /\ Len(b) = 1 /\ b[1].op = "ConstantStart"
      BY OneEach DEF PlainOps, S
    <3> HIDE DEF a, b
    <3>4. /\ steps \in Seq(Step) /\ Len(steps) = 2
          /\ steps[1] = a[1] /\ steps[2] = b[1]
      <4>1. steps \in Seq(Step) /\ Len(steps) = Len(a) + Len(b)
        BY <3>3, ConcatProperties
      <4>2. /\ \A i \in 1 .. Len(a) : steps[i] = a[i]
            /\ \A i \in (Len(a) + 1) .. (Len(a) + Len(b)) : steps[i] = b[i - Len(a)]
        BY <3>3, ConcatProperties
      <4> QED
        BY <3>3, <4>1, <4>2
    <3> HIDE DEF steps
    <3>5. \A i \in 1 .. Len(steps) : /\ steps[i].op \in DmxOps \cup {"DataDisable"}
                                     /\ steps[i].op # "SetOutputStyle"
                                     /\ i # 1 => steps[i].op \in Later
      BY <3>3, <3>4 DEF DmxOps, Later
    <3>6. /\ port'[0].direction = port[0].direction /\ port'[0].dirPin = port[0].dirPin
          /\ port'[0].state = port[0].state /\ port'[0].rdm = port[0].rdm
          /\ port'[0].dma = port[0].dma /\ port'[0].shift = port[0].shift
          /\ port'[0].tc = port[0].tc /\ port'[0].style = "kConstant"
      BY <1>1, <3>2 DEF Port
    <3>7. "SetOutputStyle" \in DmxOps
      BY DEF DmxOps
    <3> QED
      BY <1>2, <3>1, <3>2, <3>4, <3>5, <3>6, <3>7 DEF Result
  <2> QED
    BY <2>4, <2>5, <2>6, <2>7, <2>8, <2>9, <2>10, <2>11 DEF Result
<1>3. output
  BY <1>2, HeadFits DEF Fits
<1>4. ASSUME NEW i \in 1 .. Len(steps)  PROVE Fits(steps[i])
  <2>1. ~timing
    BY <1>3 DEF WidgetInv, Requested
  <2>2. steps[i].op \in DmxOps \cup {"DataDisable"} /\ steps[i].op # "SetOutputStyle"
    BY <1>2
  <2> QED
    BY <1>3, <2>1, <2>2 DEF Fits, DmxOps, RdmOps, EnableOps, DisableOps
<1> QED
  BY <1>2, <1>4, OutputStep

\* What a step of the main loop finds.
LEMMA WidgetHead ==
  ASSUME WidgetInv, NEW op, At(op, 0), UNCHANGED own
  PROVE  /\ port \in [Ports -> Port] /\ 0 \in Ports /\ port[0] \in Port
         /\ Turned /\ OnWire /\ ~(output /\ timing)
         /\ \A o : At(o, 0) <=> o = op
         /\ todo # << >> /\ Target' = Target /\ timing' = timing /\ output' = output
         /\ Target \in Directions /\ (Target = "kInput" <=> ~output /\ ~timing)
         /\ port[0].rdm = "kIdle"
         /\ op # "SetPortDirection" => port[0].direction = Target
         /\ op \in {"SetPortDirection", "SetPortDirectionEnable", "SetPin"} =>
              Head(todo).x = Target
         /\ op \in EnableOps \cup {"RxOff"} => ~timing
         /\ op \in RdmOps => timing
         /\ \A o \in PlainOps : S(o, 0) \in Step /\ S(o, 0).op = o
<1>1. /\ port \in [Ports -> Port] /\ 0 \in Ports /\ port[0] \in Port
      /\ timing \in BOOLEAN /\ output \in BOOLEAN
  BY PortZero
<1>2. Turned /\ OnWire /\ ~(output /\ timing)
  BY DEF WidgetInv, Requested
<1>3. \A o : At(o, 0) <=> o = op
  BY HeadOnly
<1>4. todo # << >> /\ Head(todo).op = op /\ Fits(Head(todo))
  BY HeadFits
<1>5. Target' = Target /\ timing' = timing /\ output' = output
  BY DEF own, Target
<1>6. Target \in Directions /\ (Target = "kInput" <=> ~output /\ ~timing)
  BY DEF Target, Directions
<1>7. port[0].rdm = "kIdle"
  BY <1>2, <1>4 DEF OnWire
<1>8. op # "SetPortDirection" => port[0].direction = Target
  BY <1>2, <1>3, <1>4 DEF Turned
<1>9. /\ op \in {"SetPortDirection", "SetPortDirectionEnable", "SetPin"} =>
           Head(todo).x = Target
      /\ op \in EnableOps \cup {"RxOff"} => ~timing
      /\ op \in RdmOps => timing
  BY <1>4 DEF Fits
<1>10. \A o \in PlainOps : S(o, 0) \in Step /\ S(o, 0).op = o
  BY <1>1, PlainStep DEF S
<1> QED
  BY <1>1, <1>2, <1>3, <1>4, <1>5, <1>6, <1>7, <1>8, <1>9, <1>10

\* The steps that disable the port and set its pin.
LEMMA WidgetDisable ==
  ASSUME WidgetInv, UNCHANGED own,
         \/ SetPinStep(0) \/ DataDisableStep(0) \/ RxOffStep(0)
         \/ WaitIdleStep(0) \/ WaitTcStep(0) \/ ForceIdleStep(0)
  PROVE  Requested' /\ Turned' /\ OnWire' /\ Answering'
<1>1. CASE SetPinStep(0)
  <2>1. At("SetPin", 0) /\ Goto(<< >>) /\ continuous' = continuous
    BY <1>1 DEF SetPinStep
  <2>2. port' = [port EXCEPT ![0].dirPin = Target]
    BY <1>1, <2>1, WidgetHead DEF SetPinStep
  <2>3. Requested' /\ Answering' /\ (\A o : At(o, 0)' => o \in Later)
        /\ (todo' = << >> => output \/ "SetPin" \in Final)
    BY <2>1, ReplacedNone
  <2>4. Turned'
    BY <2>1, <2>2, <2>3, WidgetHead DEF Turned, Later, Final, EnableOps, RdmOps, Port
  <2>5. OnWire'
    BY <2>1, <2>2, <2>3, WidgetHead DEF OnWire, Later, Port
  <2> QED
    BY <2>3, <2>4, <2>5
<1>2. CASE DataDisableStep(0)
  <2>1. At("DataDisable", 0) /\ continuous' = continuous
    BY <1>2 DEF DataDisableStep
  <2>2. CASE port[0].state = "kIdle"
    <3>1. Goto(<< >>) /\ port' = port
      BY <1>2, <2>2 DEF DataDisableStep
    <3>2. Requested' /\ Answering' /\ (\A o : At(o, 0)' => o \in Later)
          /\ (todo' = << >> => output \/ "DataDisable" \in Final)
          /\ (PinPending => "DataDisable" = "SetPin" \/ PinPending')
      BY <2>1, <3>1, ReplacedNone
    <3>3. Turned'
      BY <2>1, <2>2, <3>1, <3>2, WidgetHead
         DEF Turned, Later, Final, EnableOps, RdmOps
    <3>4. OnWire'
      BY <2>1, <2>2, <3>1, <3>2, WidgetHead DEF OnWire, Later
    <3> QED
      BY <3>2, <3>3, <3>4
  <2>3. CASE port[0].state # "kIdle"
    <3> DEFINE s == S(IF port[0].direction = "kOutput" THEN "WaitIdle" ELSE "RxOff", 0)
    <3>1. Goto(<< s >>) /\ port' = [port EXCEPT ![0].state = "kIdle"]
      BY <1>2, <2>3 DEF DataDisableStep
    <3>2. /\ s \in Step
          /\ IF Target = "kOutput" THEN s.op = "WaitIdle" ELSE s.op = "RxOff"
      BY <2>1, WidgetHead DEF PlainOps
    <3> HIDE DEF s
    <3>3. Fits(s) /\ s.op \notin Final /\ s.op # "SetPortDirection"
          /\ "DataDisable" \notin Final
      BY <2>1, <3>2, WidgetHead DEF Fits, DisableOps, Final, EnableOps, RdmOps, DmxOps, Directions
    <3>4. Requested' /\ Answering' /\ (\A o : At(o, 0)' <=> o = s.op) /\ todo' # << >>
          /\ (PinPending => "DataDisable" = "SetPin" \/ PinPending')
      BY <2>1, <3>1, <3>2, <3>3, ReplacedOne
    <3>5. Turned'
      BY <2>1, <3>1, <3>2, <3>4, WidgetHead DEF Turned, Port
    <3>6. OnWire'
      BY <2>1, <3>1, <3>2, <3>4, WidgetHead DEF OnWire, Port, Directions
    <3> QED
      BY <3>4, <3>5, <3>6
  <2> QED
    BY <2>2, <2>3
<1>3. CASE RxOffStep(0)
  <2>1. /\ At("RxOff", 0) /\ Goto(<< >>) /\ continuous' = continuous
        /\ port' = [port EXCEPT ![0].rxIrq = FALSE]
    BY <1>3 DEF RxOffStep
  <2>2. Requested' /\ Answering' /\ (\A o : At(o, 0)' => o \in Later)
        /\ (todo' = << >> => output \/ "RxOff" \in Final)
        /\ (PinPending => "RxOff" = "SetPin" \/ PinPending')
    BY <2>1, ReplacedNone
  <2>3. Turned'
    BY <2>1, <2>2, WidgetHead DEF Turned, Later, Final, EnableOps, RdmOps, Port
  <2>4. OnWire'
    BY <2>1, <2>2, WidgetHead DEF OnWire, Later, Port
  <2> QED
    BY <2>2, <2>3, <2>4
<1>4. CASE WaitIdleStep(0) /\ port[0].dmx # "kDmxInter"
  <2>1. /\ At("WaitIdle", 0) /\ Goto(<< >>) /\ continuous' = continuous
        /\ port' = port /\ port[0].dmx = "kIdle"
    BY <1>4 DEF WaitIdleStep
  <2>2. Requested' /\ Answering' /\ (\A o : At(o, 0)' => o \in Later)
        /\ (todo' = << >> => output \/ "WaitIdle" \in Final)
        /\ (PinPending => "WaitIdle" = "SetPin" \/ PinPending')
    BY <2>1, ReplacedNone
  <2>3. Turned'
    BY <2>1, <2>2, WidgetHead DEF Turned, Later, Final, EnableOps, RdmOps
  <2>4. OnWire'
    BY <2>1, <2>2, WidgetHead DEF OnWire, Later
  <2> QED
    BY <2>2, <2>3, <2>4
\* DataDisable waits for the gap and for the last slots, and ends the output.
<1>5. CASE \/ WaitIdleStep(0) /\ port[0].dmx = "kDmxInter"
           \/ WaitTcStep(0) \/ ForceIdleStep(0)
  <2> DEFINE Wait == {"WaitIdle", "WaitTc", "ForceIdle"}
  <2>1. PICK op \in Wait, next \in Wait :
          /\ At(op, 0) /\ Goto(<< S(next, 0) >>) /\ continuous' = continuous
          /\ \/ port' = [port EXCEPT ![0].tc = FALSE]
             \/ port' = port
             \/ port' = [port EXCEPT ![0].dmx = "kIdle"]
    BY <1>5 DEF WaitIdleStep, WaitTcStep, ForceIdleStep
  <2> DEFINE s == S(next, 0)
  <2>2. s \in Step /\ s.op = next
    BY <2>1, WidgetHead DEF PlainOps
  <2>3. Fits(s) /\ s.op \notin Final /\ s.op # "SetPortDirection" /\ op \notin Final
    BY <2>1, <2>2 DEF Fits, DisableOps, Final, EnableOps, RdmOps, DmxOps
  <2> HIDE DEF s
  <2>4. Goto(<< s >>)
    BY <2>1 DEF s
  <2>5. Requested' /\ Answering' /\ (\A o : At(o, 0)' <=> o = s.op) /\ todo' # << >>
        /\ (PinPending => op = "SetPin" \/ PinPending')
    BY <2>1, <2>2, <2>3, <2>4, ReplacedOne
  <2>6. /\ port'[0].direction = port[0].direction /\ port'[0].dirPin = port[0].dirPin
        /\ port'[0].state = port[0].state /\ port'[0].rxIrq = port[0].rxIrq
        /\ port'[0].rdm = port[0].rdm /\ port'[0].dma = port[0].dma
        /\ port'[0].shift = port[0].shift /\ port'[0].style = port[0].style
        /\ port'[0].tc => port[0].tc
    BY <2>1, WidgetHead DEF Port
  <2>7. Turned'
    BY <2>1, <2>2, <2>5, <2>6, WidgetHead DEF Turned
  <2>8. OnWire'
    BY <2>1, <2>2, <2>5, <2>6, WidgetHead DEF OnWire
  <2> QED
    BY <2>5, <2>7, <2>8
<1> QED
  BY <1>1, <1>2, <1>3, <1>4, <1>5

\* SetPortDirection turns the port where the request wants it, disables it
\* first, and enables it if the request says so.
LEMMA WidgetDirection ==
  ASSUME WidgetInv, UNCHANGED own, SetPortDirectionStep(0)
  PROVE  Requested' /\ Turned' /\ OnWire' /\ Answering'
<1> DEFINE d == Head(todo).x
           off == S("DataDisable", 0)
           pin == SX("SetPin", 0, d)
           on == S("DataEnable", 0)
<1>1. CASE At("SetPortDirectionEnable", 0)
  <2>1. d = Target /\ port[0].direction = Target /\ ~At("SetPortDirection", 0)
        /\ port \in [Ports -> Port] /\ 0 \in Ports /\ port[0] \in Port
    BY <1>1, WidgetHead
  <2>2. /\ Goto(<< >> \o << on >>) /\ continuous' = continuous
        /\ port' = [port EXCEPT ![0].direction = Target]
    BY <2>1 DEF SetPortDirectionStep
  <2>3. on \in Step /\ on.op = "DataEnable"
    BY <1>1, WidgetHead DEF PlainOps
  <2>4. Goto(<< on >>)
    <3>1. << on >> \in Seq(Step)
      BY <2>3
    <3>2. << >> \o << on >> = << on >>
      BY <3>1, ConcatEmptySeq
    <3> QED
      BY <2>2, <3>2
  <2> HIDE DEF on, d
  <2>5. /\ Fits(on) /\ on.op # "SetPortDirection"
        /\ on.op \in Final /\ "SetPortDirectionEnable" \in Final
    BY <1>1, <2>3, WidgetHead DEF Fits, EnableOps, Final, DmxOps, RdmOps, DisableOps
  <2>6. /\ Requested' /\ Answering' /\ (\A o : At(o, 0)' <=> o = on.op) /\ todo' # << >>
        /\ (PinPending => "SetPortDirectionEnable" = "SetPin" \/ PinPending')
    BY <1>1, <2>3, <2>4, <2>5, ReplacedOne
  <2>7. port'[0] = port[0]
    BY <2>1, <2>2 DEF Port
  <2>8. Turned'
    BY <1>1, <2>1, <2>3, <2>6, <2>7, WidgetHead DEF Turned
  <2>9. OnWire'
    BY <1>1, <2>2, <2>3, <2>6, <2>7, WidgetHead DEF OnWire
  <2> QED
    BY <2>6, <2>8, <2>9
<1>2. CASE At("SetPortDirection", 0)
  <2>1. /\ d = Target /\ port \in [Ports -> Port] /\ 0 \in Ports /\ port[0] \in Port
        /\ d \in Directions /\ ~At("SetPortDirectionEnable", 0)
    BY <1>2, WidgetHead
  <2>2. /\ off \in Step /\ off.op = "DataDisable"
        /\ pin \in Step /\ pin.op = "SetPin" /\ pin.x = Target
    BY <1>2, <2>1, WidgetHead, DirectionStep DEF PlainOps, DirectionOps, SX
  <2> DEFINE steps == IF port[0].direction # d THEN << off, pin >> ELSE << off >>
  <2>3. /\ steps \in Seq(Step) /\ steps[1] = off
        /\ IF port[0].direction # d THEN Len(steps) = 2 /\ steps[2] = pin
                                    ELSE Len(steps) = 1
    BY <2>2, Lengths
  <2>4. /\ Goto(steps \o << >>) /\ continuous' = continuous
        /\ port' = [port EXCEPT ![0].direction = d]
    BY <2>1 DEF SetPortDirectionStep
  <2> HIDE DEF steps
  <2>5. Goto(steps)
    <3>1. steps \o << >> = steps
      BY <2>3, ConcatEmptySeq
    <3> QED
      BY <2>4, <3>1
  <2> HIDE DEF d, off, pin
  <2>6. Fits(off) /\ Fits(pin)
    BY <2>2 DEF Fits, DisableOps, EnableOps, DmxOps, RdmOps
  <2>7. \A i \in 1 .. Len(steps) :
          /\ Fits(steps[i])
          /\ steps[i].op # "SetPortDirection"
          /\ i # 1 => steps[i].op \in Later
          /\ ~output => (steps[i].op \in Final <=> "SetPortDirection" \in Final /\ i = Len(steps))
    <3>1. ASSUME NEW i \in 1 .. Len(steps)
          PROVE  (i = 1 /\ steps[i] = off) \/ (i = 2 /\ steps[i] = pin)
      <4>1. steps[1] = off /\ (Len(steps) = 1 \/ (Len(steps) = 2 /\ steps[2] = pin))
        BY <2>3
      <4>2. CASE Len(steps) = 1
        <5>1. i = 1
          BY <3>1, <4>2
        <5> QED
          BY <4>1, <5>1
      <4>3. CASE Len(steps) = 2 /\ steps[2] = pin
        <5>1. i = 1 \/ i = 2
          BY <3>1, <4>3
        <5> QED
          BY <4>1, <4>3, <5>1
      <4> QED
        BY <4>1, <4>2, <4>3
    <3> QED
      BY <2>2, <2>6, <3>1 DEF Later, Final, EnableOps, RdmOps
  <2>8. output' = output /\ timing' = timing
    BY DEF own
  <2>9. /\ Requested'
        /\ Len(steps) # 0 => \A o : At(o, 0)' <=> o = steps[1].op
        /\ PinPending => "SetPortDirection" = "SetPin" \/ PinPending'
    BY <1>2, <2>3, <2>5, <2>7, <2>8, Replaced
  <2>10. \A o : At(o, 0)' <=> o = "DataDisable"
    BY <2>2, <2>3, <2>9
  <2>11. todo' # << >>
    BY <2>10 DEF At
  <2>12. port[0].direction # d => PinPending'
    <3> SUFFICES ASSUME port[0].direction # d  PROVE PinPending'
      OBVIOUS
    <3>1. todo \in Seq(Step) /\ todo # << >> /\ Len(steps) = 2 /\ steps[2] = pin
      BY <1>2, <2>3, PortZero, HeadFits
    <3>2. /\ \A i \in 1 .. Len(steps) : todo'[i] = steps[i]
          /\ Len(todo') = Len(steps) + Len(todo) - 1
          /\ Len(todo) \in Nat /\ Len(todo) >= 1
      BY <2>3, <2>5, <3>1, GotoSteps
    <3>3. 2 \in 1 .. Len(todo') /\ todo'[2] = pin
      BY <3>1, <3>2
    <3> QED
      BY <2>2, <3>3 DEF PinPending
  <2>13. /\ port'[0].direction = Target /\ port'[0].dirPin = port[0].dirPin
         /\ port'[0].state = port[0].state /\ port'[0].rxIrq = port[0].rxIrq
         /\ port'[0].dmx = port[0].dmx /\ port'[0].rdm = port[0].rdm
         /\ port'[0].dma = port[0].dma /\ port'[0].shift = port[0].shift
         /\ port'[0].tc = port[0].tc /\ port'[0].style = port[0].style
    BY <2>1, <2>4 DEF Port
  <2>14. Turned'
    BY <1>2, <2>1, <2>9, <2>10, <2>11, <2>12, <2>13, WidgetHead DEF Turned
  <2>15. OnWire'
    BY <1>2, <2>4, <2>10, <2>13, WidgetHead DEF OnWire
  <2>16. Answering'
    BY <1>2, HeadOnly
  <2> QED
    BY <2>9, <2>14, <2>15, <2>16
<1> QED
  BY <1>1, <1>2 DEF SetPortDirectionStep

\* DataEnable: an input listens, an output selects its style.
LEMMA WidgetEnable ==
  ASSUME WidgetInv, UNCHANGED own, DataEnableStep(0)
  PROVE  Requested' /\ Turned' /\ OnWire' /\ Answering'
<1>1. At("DataEnable", 0) /\ continuous' = continuous
  BY DEF DataEnableStep
<1>2. CASE port[0].direction = "kOutput"
  <2> DEFINE s == SX("SetOutputStyle", 0, "kConstant")
  <2>1. Goto(<< s >>) /\ port' = [port EXCEPT ![0].state = "kTx", ![0].dmx = "kIdle"]
    BY <1>1, <1>2, WidgetHead DEF DataEnableStep, SetOutputStyle, OnWire
  <2>2. s \in Step /\ s.op = "SetOutputStyle" /\ s.x = "kConstant"
    BY <1>1, WidgetHead DEF SX, Step, OutputStyles
  <2> HIDE DEF s
  <2>3. output /\ ~timing /\ Target = "kOutput"
    BY <1>1, <1>2, WidgetHead DEF Target, EnableOps, Directions
  <2>4. Fits(s) /\ s.op # "SetPortDirection"
    BY <2>2, <2>3 DEF Fits, DmxOps, EnableOps, RdmOps
  <2>5. /\ Requested' /\ Answering' /\ (\A o : At(o, 0)' <=> o = s.op) /\ todo' # << >>
        /\ (PinPending => "DataEnable" = "SetPin" \/ PinPending')
    BY <1>1, <2>1, <2>2, <2>3, <2>4, ReplacedOne
  <2>6. /\ Turned /\ OnWire /\ todo # << >> /\ port[0].rdm = "kIdle"
        /\ \A o : At(o, 0) <=> o = "DataEnable"
        /\ Target' = Target /\ timing' = timing /\ output' = output
    BY <1>1, WidgetHead
  <2>7. /\ port'[0].direction = "kOutput" /\ port'[0].dirPin = port[0].dirPin
        /\ port'[0].state = "kTx" /\ port'[0].dmx = "kIdle" /\ port'[0].rdm = port[0].rdm
        /\ port'[0].dma = port[0].dma /\ port'[0].shift = port[0].shift
        /\ port'[0].tc = port[0].tc /\ port'[0].style = port[0].style
    BY <1>1, <1>2, <2>1, WidgetHead DEF Port
  <2>8. Turned'
    BY <1>2, <2>2, <2>3, <2>5, <2>6, <2>7 DEF Turned
  <2>9. OnWire'
    BY <1>1, <2>2, <2>3, <2>5, <2>6, <2>7 DEF OnWire
  <2> QED
    BY <2>5, <2>8, <2>9
<1>3. CASE port[0].direction # "kOutput"
  <2>1. Goto(<< >>) /\ port' = [port EXCEPT ![0].state = "kRx", ![0].rxIrq = TRUE]
    BY <1>1, <1>3 DEF DataEnableStep
  <2>2. /\ Requested' /\ Answering' /\ (\A o : At(o, 0)' => o \in Later)
        /\ (todo' = << >> => output \/ "DataEnable" \in Final)
        /\ (PinPending => "DataEnable" = "SetPin" \/ PinPending')
    BY <1>1, <2>1, ReplacedNone
  <2>3. port[0].direction = "kInput" /\ ~output /\ ~timing
    BY <1>1, <1>3, WidgetHead DEF Directions
  <2>4. Turned'
    BY <1>1, <2>1, <2>2, <2>3, WidgetHead DEF Turned, Later, Port
  <2>5. OnWire'
    BY <1>1, <2>1, <2>2, <2>3, WidgetHead DEF OnWire, Later, Port
  <2> QED
    BY <2>2, <2>4, <2>5
<1> QED
  BY <1>2, <1>3

\* The RDM packet starts when the last slots of the one before have gone.
LEMMA WidgetRdm ==
  ASSUME WidgetInv, UNCHANGED own,
         \/ StartRdmOutputStep(0) \/ ArmRdmBreakStep(0)
         \/ DriveBreakStep(0) /\ At("DriveRdmBreak", 0)
  PROVE  Requested' /\ Turned' /\ OnWire' /\ Answering'
<1>1. ASSUME NEW op \in RdmOps, NEW next \in {"DriveRdmBreak", "ArmRdmBreak"},
             At(op, 0), Goto(<< S(next, 0) >>), continuous' = continuous,
             ~port[0].shift, port' = port \/ port' = [port EXCEPT ![0].txPin = "low"]
      PROVE  Requested' /\ Turned' /\ OnWire' /\ Answering'
  <2> DEFINE s == S(next, 0)
  <2>1. s \in Step /\ s.op = next /\ Goto(<< s >>)
    BY <1>1, WidgetHead DEF PlainOps
  <2> HIDE DEF s
  <2>2. /\ Fits(s) /\ s.op # "SetPortDirection" /\ s.op \in Final /\ op \in Final
        /\ timing /\ op # "SetPin" /\ op # "SetPortDirection"
    BY <1>1, <2>1, WidgetHead DEF Fits, RdmOps, Final, EnableOps, DmxOps
  <2>3. /\ Requested' /\ Answering' /\ (\A o : At(o, 0)' <=> o = s.op) /\ todo' # << >>
        /\ (PinPending => op = "SetPin" \/ PinPending')
    BY <1>1, <2>1, <2>2, ReplacedOne
  <2>4. /\ port'[0].direction = port[0].direction /\ port'[0].dirPin = port[0].dirPin
        /\ port'[0].state = port[0].state /\ port'[0].rxIrq = port[0].rxIrq
        /\ port'[0].dmx = port[0].dmx /\ port'[0].rdm = port[0].rdm
        /\ port'[0].dma = port[0].dma /\ port'[0].shift = port[0].shift
        /\ port'[0].tc = port[0].tc /\ port'[0].style = port[0].style
    BY <1>1, WidgetHead DEF Port
  <2>5. /\ Turned /\ OnWire /\ todo # << >> /\ port[0].rdm = "kIdle"
        /\ port[0].direction = Target
        /\ \A o : At(o, 0) <=> o = op
        /\ Target' = Target /\ timing' = timing /\ output' = output
    BY <1>1, <2>2, WidgetHead
  <2>6. s.op \in {"DriveRdmBreak", "ArmRdmBreak"}
        /\ op \in {"StartRdmOutput", "DriveRdmBreak", "ArmRdmBreak"}
    BY <1>1, <2>1 DEF RdmOps
  <2>7. Turned'
    BY <2>2, <2>3, <2>4, <2>5, <2>6 DEF Turned
  <2>8. OnWire'
    BY <1>1, <2>2, <2>3, <2>4, <2>5, <2>6 DEF OnWire
  <2> QED
    BY <2>3, <2>7, <2>8
<1>2. CASE StartRdmOutputStep(0)
  <2>1. At("StartRdmOutput", 0) /\ port[0].tc /\ Goto(<< S("DriveRdmBreak", 0) >>)
        /\ port' = port /\ continuous' = continuous
    BY <1>2 DEF StartRdmOutputStep
  <2>2. ~port[0].shift
    BY <2>1, WidgetHead DEF OnWire
  <2> QED
    BY <1>1, <2>1, <2>2 DEF RdmOps
<1>3. CASE DriveBreakStep(0) /\ At("DriveRdmBreak", 0)
  <2>1. ~At("DriveBreak", 0)
    BY <1>3, WidgetHead
  <2>2. Goto(<< S("ArmRdmBreak", 0) >>) /\ continuous' = continuous
        /\ port' = [port EXCEPT ![0].txPin = "low"]
    BY <1>3, <2>1 DEF DriveBreakStep
  <2>3. ~port[0].shift
    BY <1>3, WidgetHead DEF OnWire
  <2> QED
    BY <1>1, <1>3, <2>2, <2>3 DEF RdmOps
<1>4. CASE ArmRdmBreakStep(0)
  <2>1. /\ At("ArmRdmBreak", 0) /\ Goto(<< >>) /\ continuous' = continuous
        /\ port' = [port EXCEPT ![0].armed = TRUE, ![0].rdm = "kBreak"]
    BY <1>4 DEF ArmRdmBreakStep
  <2>2. timing /\ ~output /\ Target = "kOutput"
    BY <2>1, WidgetHead DEF RdmOps, Target
  <2>3. Requested' /\ Answering' /\ todo' = << >> /\ (PinPending => PinPending')
    BY <2>1, <2>2, ReplacedNone DEF Final, RdmOps
  <2>4. \A o : ~At(o, 0)'
    BY <2>3 DEF At
  <2>5. /\ Turned /\ OnWire /\ todo # << >> /\ port[0].rdm = "kIdle"
        /\ port[0].direction = Target /\ 0 \in Ports
        /\ \A o : At(o, 0) <=> o = "ArmRdmBreak"
        /\ Target' = Target /\ timing' = timing /\ output' = output
    BY <2>1, WidgetHead
  <2>6. port[0].dmx = "kIdle" /\ ~port[0].shift
    BY <2>2, <2>5 DEF OnWire
  <2>7. port[0].dma = "none"
    BY <2>5, <2>6 DEF WidgetInv, IInv, DmaShifts
  <2>8. /\ port'[0].direction = port[0].direction /\ port'[0].dirPin = port[0].dirPin
        /\ port'[0].state = port[0].state /\ port'[0].rxIrq = port[0].rxIrq
        /\ port'[0].dmx = port[0].dmx /\ port'[0].rdm = "kBreak"
        /\ port'[0].dma = port[0].dma /\ port'[0].shift = port[0].shift
        /\ port'[0].tc = port[0].tc /\ port'[0].style = port[0].style
    BY <2>1, WidgetHead DEF Port
  <2>9. Turned'
    BY <2>2, <2>3, <2>4, <2>5, <2>8 DEF Turned
  <2>10. OnWire'
    BY <2>1, <2>2, <2>3, <2>4, <2>5, <2>6, <2>7, <2>8 DEF OnWire
  <2> QED
    BY <2>3, <2>9, <2>10
<1> QED
  BY <1>2, <1>3, <1>4

LEMMA WidgetMain ==
  ASSUME WidgetInv, UNCHANGED own, MainStep(0)
  PROVE  WidgetInv'
<1>1. ~(SyncPortStep(0) \/ BlackoutStep(0) \/ ClearDataStep(0) \/ SendDiscoveryStep(0)
        \/ WaitDiscoveryStep(0))
  <2>1. \A op \in {"SyncPort", "Blackout", "ClearData", "SendDiscovery", "WaitDiscovery"} :
          ~At(op, 0)
    BY HeadFits DEF Fits, DisableOps, EnableOps, DmxOps, RdmOps
  <2> QED
    BY <2>1 DEF SyncPortStep, BlackoutStep, ClearDataStep, SendDiscoveryStep, WaitDiscoveryStep
<1>2. DriveBreakStep(0) => At("DriveBreak", 0) \/ At("DriveRdmBreak", 0)
  BY DEF DriveBreakStep
<1>3. Requested' /\ Turned' /\ OnWire' /\ Answering'
  BY <1>1, <1>2, WidgetOutput, WidgetDisable, WidgetDirection, WidgetEnable, WidgetRdm
     DEF MainStep
<1>4. IInv'
  BY PortZero, MainInv DEF WidgetInv
<1>5. OwnTypes'
  BY DEF WidgetInv, OwnTypes, own
<1> QED
  BY <1>3, <1>4, <1>5 DEF WidgetInv

-----------------------------------------------------------------------------
(***************************************************************************)
(* The interrupts                                                          *)
(***************************************************************************)
LEMMA WidgetTimer ==
  ASSUME WidgetInv, UNCHANGED own, TimerIrq(0)
  PROVE  Turned' /\ OnWire' /\ Answering'
<1>1. /\ port \in [Ports -> Port] /\ 0 \in Ports /\ port[0] \in Port
      /\ Turned /\ OnWire /\ Answering
  BY PortZero DEF WidgetInv
<1>2. /\ todo' = todo /\ continuous' = continuous /\ (PinPending' <=> PinPending)
      /\ \A o : At(o, 0)' <=> At(o, 0)
  BY DEF TimerIrq, At, PinPending
<1>3. /\ timing' = timing /\ output' = output /\ Target' = Target
      /\ answer' = answer /\ sendState' = sendState /\ turn' = turn
  BY DEF own, Target
<1>4. At("DriveRdmBreak", 0) \/ At("ArmRdmBreak", 0) => timing
  BY HeadFits DEF Fits, RdmOps
\* While DMX is output nothing of an RDM packet is on the port.
<1>5. CASE port[0].dmx # "kIdle"
  <2>1. /\ port[0].rdm = "kIdle" /\ port[0].dma # "rdm"
        /\ ~At("DriveRdmBreak", 0) /\ ~At("ArmRdmBreak", 0)
    BY <1>1, <1>4, <1>5 DEF OnWire, At
  <2>2. /\ port'[0].direction = port[0].direction /\ port'[0].dirPin = port[0].dirPin
        /\ port'[0].state = port[0].state /\ port'[0].rxIrq = port[0].rxIrq
        /\ port'[0].style = port[0].style /\ port'[0].rdm = port[0].rdm
        /\ \/ /\ port'[0].dma = port[0].dma /\ port'[0].shift = port[0].shift
              /\ port'[0].tc = port[0].tc
           \/ port'[0].dma = "dmx" /\ port'[0].shift /\ ~port'[0].tc
    BY <1>1, <1>5 DEF TimerIrq, DmxTimer, StartDma, Port
  <2>3. Turned'
    BY <1>1, <1>2, <1>3, <1>5, <2>2 DEF Turned
  <2>4. OnWire'
    BY <1>1, <1>2, <1>3, <1>5, <2>1, <2>2 DEF OnWire
  <2>5. Answering'
    BY <1>1, <1>2, <1>3, <2>2 DEF Answering
  <2> QED
    BY <2>3, <2>4, <2>5
<1>6. CASE port[0].dmx = "kIdle" /\ port[0].rdm # "kIdle"
  <2>1. /\ timing /\ todo = << >> /\ port[0].direction = "kOutput"
        /\ port[0].dma # "dmx" /\ port[0].dirPin = "kOutput"
        /\ \A o : ~At(o, 0)
        /\ answer = "none" \/ sendState = "kOnDataChangeOnly"
    <3>1. timing /\ todo = << >> /\ port[0].direction = "kOutput" /\ port[0].dma # "dmx"
      BY <1>1, <1>6 DEF OnWire
    <3>2. ~PinPending
      BY <3>1 DEF PinPending
    <3>3. port[0].dirPin = "kOutput"
      BY <1>1, <3>1, <3>2 DEF Turned
    <3>4. \A o : ~At(o, 0)
      BY <3>1 DEF At
    <3>5. answer = "none" \/ sendState = "kOnDataChangeOnly"
      BY <1>1, <1>6, <3>1 DEF Answering
    <3> QED
      BY <3>1, <3>3, <3>4, <3>5
  <2>2. Answering'
    BY <1>3, <2>1 DEF Answering
  <2>3. \/ /\ port'[0].direction = port[0].direction /\ port'[0].dirPin = port[0].dirPin
           /\ port'[0].state = port[0].state /\ port'[0].rxIrq = port[0].rxIrq
           /\ port'[0].style = port[0].style /\ port'[0].dmx = port[0].dmx
           /\ \/ /\ port[0].rdm = "kBreak" /\ port'[0].rdm = "kMab"
                 /\ port'[0].dma = port[0].dma /\ port'[0].shift = port[0].shift
                 /\ port'[0].tc = port[0].tc
              \/ /\ port[0].rdm = "kMab" /\ port'[0].rdm = "kMab"
                 /\ port'[0].dma = "rdm" /\ port'[0].shift /\ ~port'[0].tc
        \/ /\ port[0].rdm = "kDirection" /\ port'[0].rdm = "kIdle"
           /\ port'[0].direction = "kInput" /\ port'[0].dirPin = "kInput"
           /\ port'[0].state = "kRx" /\ port'[0].rxIrq
           /\ port'[0].style = port[0].style /\ port'[0].dmx = port[0].dmx
           /\ port'[0].dma = port[0].dma /\ port'[0].shift = port[0].shift
           /\ port'[0].tc = port[0].tc
    BY <1>1, <1>6, <2>1 DEF TimerIrq, RdmTimer, StartDma, Port
  <2>4. Turned'
    BY <1>1, <1>2, <1>3, <1>6, <2>1, <2>3 DEF Turned
  <2>5. OnWire'
    BY <1>1, <1>2, <1>3, <1>6, <2>1, <2>3 DEF OnWire
  <2> QED
    BY <2>2, <2>4, <2>5
<1>7. CASE port[0].dmx = "kIdle" /\ port[0].rdm = "kIdle"
  <2>1. /\ port'[0].direction = port[0].direction /\ port'[0].dirPin = port[0].dirPin
        /\ port'[0].state = port[0].state /\ port'[0].rxIrq = port[0].rxIrq
        /\ port'[0].style = port[0].style /\ port'[0].dmx = port[0].dmx
        /\ port'[0].rdm = port[0].rdm /\ port'[0].dma = port[0].dma
        /\ port'[0].shift = port[0].shift /\ port'[0].tc = port[0].tc
    BY <1>1, <1>7 DEF TimerIrq, RdmTimer, Port
  <2> QED
    BY <1>1, <1>2, <1>3, <2>1 DEF Turned, OnWire, Answering
<1> QED
  BY <1>5, <1>6, <1>7

LEMMA WidgetDma ==
  ASSUME WidgetInv, UNCHANGED own, DmaIrq(0) \/ Shifted(0)
  PROVE  Turned' /\ OnWire' /\ Answering'
<1>1. /\ port \in [Ports -> Port] /\ 0 \in Ports /\ port[0] \in Port
      /\ Turned /\ OnWire /\ Answering
  BY PortZero DEF WidgetInv
<1>2. /\ todo' = todo /\ continuous' = continuous /\ (PinPending' <=> PinPending)
      /\ \A o : At(o, 0)' <=> At(o, 0)
  BY DEF DmaIrq, Shifted, At, PinPending
<1>3. /\ timing' = timing /\ output' = output /\ Target' = Target
      /\ answer' = answer /\ sendState' = sendState /\ turn' = turn
  BY DEF own, Target
<1>4. /\ port'[0].direction = port[0].direction /\ port'[0].dirPin = port[0].dirPin
      /\ port'[0].state = port[0].state /\ port'[0].rxIrq = port[0].rxIrq
      /\ port'[0].style = port[0].style /\ port'[0].dma = "none"
      /\ (port'[0].dmx = "kIdle" <=> port[0].dmx = "kIdle")
      /\ (port'[0].rdm = "kIdle" <=> port[0].rdm = "kIdle")
      /\ port'[0].shift => port[0].shift
      /\ port'[0].shift => port'[0].tc = port[0].tc
  <2>1. CASE DmaIrq(0)
    BY <1>1, <2>1 DEF DmaIrq, Port, OnWire
  <2>2. CASE Shifted(0)
    BY <1>1, <2>2 DEF Shifted, Port
  <2> QED
    BY <2>1, <2>2
<1>5. Turned'
  BY <1>1, <1>2, <1>3, <1>4 DEF Turned
<1>6. OnWire'
  BY <1>1, <1>2, <1>3, <1>4 DEF OnWire
<1>7. Answering'
  BY <1>1, <1>2, <1>3, <1>4 DEF Answering
<1> QED
  BY <1>5, <1>6, <1>7

LEMMA WidgetIrq ==
  ASSUME WidgetInv, UNCHANGED own, Irq(0)
  PROVE  WidgetInv'
<1>1. Turned' /\ OnWire' /\ Answering'
  BY WidgetTimer, WidgetDma DEF Irq
<1>2. todo' = todo
  BY DEF Irq, TimerIrq, DmaIrq, Shifted
<1>3. Requested'
  BY <1>2 DEF WidgetInv, Requested, Fits, Target, own
<1>4. OwnTypes'
  BY DEF WidgetInv, OwnTypes, own
<1>5. IInv'
  BY PortZero, IrqInv DEF WidgetInv
<1> QED
  BY <1>1, <1>3, <1>4, <1>5 DEF WidgetInv

-----------------------------------------------------------------------------
(***************************************************************************)
(* The host and the widget's loop                                          *)
(***************************************************************************)
\* A part of Run that makes no call; the transaction may end, its packet gone.
LEMMA Uncalled ==
  ASSUME WidgetInv, todo = << >>, UNCHANGED <<port, continuous, todo, output>>,
         timing' \in BOOLEAN, timing' = timing \/ (~timing' /\ port[0].rdm = "kIdle")
  PROVE  IInv' /\ Requested' /\ Turned' /\ OnWire'
<1>1. IInv'
  BY StutterInv DEF WidgetInv, vars
<1>2. \A o : ~At(o, 0) /\ ~At(o, 0)'
  BY DEF At
<1>3. Requested'
  <2>1. Len(todo') = 0
    OBVIOUS
  <2>2. ~(output' /\ timing')
    BY DEF WidgetInv, Requested
  <2> QED
    BY <2>1, <2>2 DEF Requested
<1>4. Turned'
  BY <1>2 DEF WidgetInv, Turned, PinPending
<1>5. OnWire'
  BY <1>2 DEF WidgetInv, OnWire
<1> QED
  BY <1>1, <1>3, <1>4, <1>5

\* A request outside of a transaction: its first step turns the port.
LEMMA Requests ==
  ASSUME WidgetInv, NEW steps \in Seq(Step), Call(steps), Len(steps) # 0,
         steps[1].op = "SetPortDirection",
         ~timing, timing' \in BOOLEAN, output' \in BOOLEAN,
         ~(output' /\ timing'), timing' => ~output,
         \A i \in 1 .. Len(steps) :
           /\ Fits(steps[i])'
           /\ i # 1 => steps[i].op \in Later
           /\ ~output' => (steps[i].op \in Final <=> i = Len(steps))
  PROVE  IInv' /\ Requested' /\ Turned' /\ OnWire'
<1>1. /\ todo = << >> /\ todo' = steps /\ port' = port /\ continuous' = continuous
      /\ \A o : ~At(o, 0)
  BY DEF Call, At
<1>2. IInv'
  BY CallInv DEF WidgetInv
<1>3. Requested'
  BY <1>1 DEF Requested
<1>4. \A o : At(o, 0)' <=> o = "SetPortDirection"
  <2>1. steps[1] \in Step /\ Len(steps) \in Nat
    <3>1. 1 \in 1 .. Len(steps)
      OBVIOUS
    <3> QED
      BY <3>1, ElementOfSeq
  <2>2. steps[1].p = 0
    BY <2>1, OnePort DEF Step
  <2>3. todo' \in Seq(Step) /\ Len(todo') # 0 /\ todo'[1] = steps[1]
    BY <1>1
  <2> QED
    BY <2>2, <2>3, AtHeadNext
<1>5. ~PinPending /\ todo' # << >>
  <2>1. Len(todo) = 0
    BY <1>1
  <2> QED
    BY <1>1, <2>1 DEF PinPending
<1>6. /\ Turned /\ OnWire /\ port[0].rdm = "kIdle" /\ port[0].direction \in Directions
      /\ port[0].dirPin = port[0].direction
  <2>1. Turned /\ OnWire /\ port[0] \in Port
    BY PortZero DEF WidgetInv
  <2> QED
    BY <1>5, <2>1 DEF Turned, OnWire, Port
<1>7. Turned'
  BY <1>1, <1>4, <1>5, <1>6 DEF Turned
<1>8. OnWire'
  BY <1>1, <1>4, <1>6 DEF OnWire, Turned, Directions
<1> QED
  BY <1>2, <1>3, <1>7, <1>8

\* The requests are made of two or three steps.
LEMMA Appended ==
  ASSUME NEW s \in Step, NEW t \in Step, NEW u \in Step
  PROVE  /\ << s >> \o << t >> \in Seq(Step) /\ Len(<< s >> \o << t >>) = 2
         /\ (<< s >> \o << t >>)[1] = s /\ (<< s >> \o << t >>)[2] = t
         /\ (<< s >> \o << t >>) \o << u >> \in Seq(Step)
         /\ Len((<< s >> \o << t >>) \o << u >>) = 3
         /\ ((<< s >> \o << t >>) \o << u >>)[1] = s
         /\ ((<< s >> \o << t >>) \o << u >>)[2] = t
         /\ ((<< s >> \o << t >>) \o << u >>)[3] = u
<1> DEFINE one == << s >>
           two == << t >>
           three == << u >>
           both == one \o two
<1>1. /\ one \in Seq(Step) /\ Len(one) = 1 /\ one[1] = s
      /\ two \in Seq(Step) /\ Len(two) = 1 /\ two[1] = t
      /\ three \in Seq(Step) /\ Len(three) = 1 /\ three[1] = u
  BY Lengths
<1> HIDE DEF one, two, three
<1>2. both \in Seq(Step) /\ Len(both) = 2 /\ both[1] = s /\ both[2] = t
  BY <1>1, ConcatProperties
<1> HIDE DEF both
<1>3. /\ both \o three \in Seq(Step) /\ Len(both \o three) = 3
      /\ (both \o three)[1] = s /\ (both \o three)[2] = t /\ (both \o three)[3] = u
  BY <1>1, <1>2, ConcatProperties
<1> QED
  BY <1>2, <1>3 DEF both, one, two, three

LEMMA TwoSteps ==
  ASSUME WidgetInv, NEW s \in Step, NEW t \in Step, Call(<< s >> \o << t >>),
         s.op = "SetPortDirection", t.op \in Later,
         ~timing, timing' \in BOOLEAN, output' \in BOOLEAN,
         ~(output' /\ timing'), timing' => ~output,
         Fits(s)', Fits(t)', ~output' => t.op \in Final
  PROVE  IInv' /\ Requested' /\ Turned' /\ OnWire'
<1>1. PICK steps \in Seq(Step) :
        /\ steps = << s >> \o << t >>
        /\ Len(steps) = 2 /\ steps[1] = s /\ steps[2] = t
  <2>1. << s >> \o << t >> \in Seq(Step)
    BY Appended
  <2> WITNESS << s >> \o << t >> \in Seq(Step)
  <2> QED
    BY Appended
<1>2. \A i \in 1 .. Len(steps) : (i = 1 /\ steps[i] = s) \/ (i = 2 /\ steps[i] = t)
  <2>1. \A i \in 1 .. 2 : i = 1 \/ i = 2
    OBVIOUS
  <2> QED
    BY <1>1, <2>1
<1>3. \A i \in 1 .. Len(steps) :
        /\ Fits(steps[i])'
        /\ i # 1 => steps[i].op \in Later
        /\ ~output' => (steps[i].op \in Final <=> i = Len(steps))
  BY <1>1, <1>2 DEF Final, EnableOps, RdmOps
<1>4. Call(steps) /\ Len(steps) # 0 /\ steps[1].op = "SetPortDirection"
  BY <1>1
<1> QED
  BY <1>3, <1>4, Requests

LEMMA ThreeSteps ==
  ASSUME WidgetInv, NEW s \in Step, NEW t \in Step, NEW u \in Step,
         Call((<< s >> \o << t >>) \o << u >>),
         s.op = "SetPortDirection", t.op \in Later, u.op \in Later,
         ~timing, ~timing', timing' \in BOOLEAN, output',  output' \in BOOLEAN,
         Fits(s)', Fits(t)', Fits(u)'
  PROVE  IInv' /\ Requested' /\ Turned' /\ OnWire'
<1>1. PICK steps \in Seq(Step) :
        /\ steps = (<< s >> \o << t >>) \o << u >>
        /\ Len(steps) = 3 /\ steps[1] = s /\ steps[2] = t /\ steps[3] = u
  <2>1. (<< s >> \o << t >>) \o << u >> \in Seq(Step)
    BY Appended
  <2> WITNESS (<< s >> \o << t >>) \o << u >> \in Seq(Step)
  <2> QED
    BY Appended
<1>2. \A i \in 1 .. Len(steps) :
        \/ (i = 1 /\ steps[i] = s) \/ (i = 2 /\ steps[i] = t) \/ (i = 3 /\ steps[i] = u)
  <2>1. \A i \in 1 .. 3 : i = 1 \/ i = 2 \/ i = 3
    OBVIOUS
  <2> QED
    BY <1>1, <2>1
<1>3. \A i \in 1 .. Len(steps) :
        /\ Fits(steps[i])'
        /\ i # 1 => steps[i].op \in Later
        /\ ~output' => (steps[i].op \in Final <=> i = Len(steps))
  BY <1>2
<1>4. Call(steps) /\ Len(steps) # 0 /\ steps[1].op = "SetPortDirection"
  BY <1>1
<1> QED
  BY <1>3, <1>4, Requests

\* The requests that take the port down.
LEMMA WidgetTakeDown ==
  ASSUME WidgetInv, Orderly, ParamsSnNameRequest \/ ReceiveDmxOnChange
  PROVE  WidgetInv'
<1>1. /\ ~timing /\ ~timing' /\ ~output' /\ timing' = timing /\ output' = FALSE
      /\ discovery' = discovery /\ sendState' \in SendStates
      /\ answer' = answer /\ turn' = "rdm" /\ Call(TakeDown)
  BY DEF Orderly, ParamsSnNameRequest, ReceiveDmxOnChange, HostReady, Request, Turn,
     WidgetInv, OwnTypes
<1> DEFINE s == SX("SetPortDirection", 0, "kInput")
           t == SX("SetPortDirectionEnable", 0, "kInput")
<1>2. TakeDown = << s >> \o << t >>
  BY DEF TakeDown, SetPortDirection
<1>3. /\ s \in Step /\ s.op = "SetPortDirection" /\ s.x = "kInput"
      /\ t \in Step /\ t.op = "SetPortDirectionEnable" /\ t.x = "kInput"
  BY PortZero DEF SX, Step, DirectionOps, Directions
<1>4. Fits(s)' /\ Fits(t)' /\ t.op \in Later /\ t.op \in Final
  BY <1>1, <1>3 DEF Fits, Target, Later, Final, EnableOps, DisableOps, DmxOps, RdmOps
<1> HIDE DEF s, t
<1>5. IInv' /\ Requested' /\ Turned' /\ OnWire'
  BY <1>1, <1>2, <1>3, <1>4, PortZero, TwoSteps
<1>6. OwnTypes' /\ Answering'
  BY <1>1 DEF WidgetInv, OwnTypes, Answering
<1> QED
  BY <1>5, <1>6 DEF WidgetInv

LEMMA WidgetOutputOnly ==
  ASSUME WidgetInv, Orderly, SendDmxPacketRequestOutputOnly
  PROVE  WidgetInv'
<1>1. /\ timing' = timing /\ discovery' = discovery /\ sendState' = sendState
      /\ answer' = answer /\ turn' = "rdm" /\ turn = "host" /\ todo = << >>
  BY DEF SendDmxPacketRequestOutputOnly, Request, Turn
<1>2. CASE timing
  <2>1. UNCHANGED <<port, continuous, todo, output>>
    BY <1>1, <1>2 DEF SendDmxPacketRequestOutputOnly, Request, Call
  <2>2. IInv' /\ Requested' /\ Turned' /\ OnWire'
    BY <1>1, <1>2, <2>1, PortZero, Uncalled
  <2>3. OwnTypes' /\ Answering'
    BY <1>1, <1>2, <2>1 DEF WidgetInv, OwnTypes, Answering
  <2> QED
    BY <2>2, <2>3 DEF WidgetInv
<1>3. CASE ~timing
  <2>1. Call(OutputOnly) /\ output' = TRUE /\ ~timing'
    BY <1>1, <1>3 DEF SendDmxPacketRequestOutputOnly, Request
  <2> DEFINE s == SX("SetPortDirection", 0, "kOutput")
             t == SX("SetSendData", 0, "kDirect")
             u == SX("SetPortDirectionEnable", 0, "kOutput")
  <2>2. OutputOnly = (<< s >> \o << t >>) \o << u >>
    BY DEF OutputOnly, SetPortDirection, SetTransmitData
  <2>3. /\ s \in Step /\ s.op = "SetPortDirection" /\ s.x = "kOutput"
        /\ t \in Step /\ t.op = "SetSendData"
        /\ u \in Step /\ u.op = "SetPortDirectionEnable" /\ u.x = "kOutput"
    BY PortZero DEF SX, Step, DirectionOps, Directions, DataOps, SendStyles
  <2>4. Fits(s)' /\ Fits(t)' /\ Fits(u)' /\ t.op \in Later /\ u.op \in Later
    BY <2>1, <2>3 DEF Fits, Target, Later, EnableOps, DisableOps, DmxOps, RdmOps
  <2> HIDE DEF s, t, u
  <2>5. IInv' /\ Requested' /\ Turned' /\ OnWire'
    BY <1>1, <1>3, <2>1, <2>2, <2>3, <2>4, PortZero, ThreeSteps
  <2>6. OwnTypes' /\ Answering'
    BY <1>1, <1>3, <2>1 DEF WidgetInv, OwnTypes, Answering
  <2> QED
    BY <2>5, <2>6 DEF WidgetInv
<1> QED
  BY <1>2, <1>3

LEMMA WidgetSendRdm ==
  ASSUME WidgetInv, Orderly, NEW isDiscovery \in BOOLEAN, SendRdm(isDiscovery)
  PROVE  WidgetInv'
<1>1. /\ ~timing /\ ~output /\ timing' = TRUE /\ output' = FALSE
      /\ discovery' = isDiscovery /\ sendState' = sendState
      /\ answer' = answer /\ turn' = "rdm" /\ turn = "host" /\ Call(RdmTransmit(0))
  BY DEF Orderly, SendRdm, HostReady, Request, Turn, WidgetInv, OwnTypes
<1> DEFINE s == SX("SetPortDirection", 0, "kOutput")
           t == S("StartRdmOutput", 0)
<1>2. RdmTransmit(0) = << s >> \o << t >>
  BY DEF RdmTransmit, SetPortDirection
<1>3. /\ s \in Step /\ s.op = "SetPortDirection" /\ s.x = "kOutput"
      /\ t \in Step /\ t.op = "StartRdmOutput"
  BY PortZero DEF S, SX, Step, DirectionOps, Directions, PlainOps
<1>4. Fits(s)' /\ Fits(t)' /\ t.op \in Later /\ t.op \in Final
  BY <1>1, <1>3 DEF Fits, Target, Later, Final, EnableOps, DisableOps, DmxOps, RdmOps
<1> HIDE DEF s, t
<1>5. IInv' /\ Requested' /\ Turned' /\ OnWire'
  BY <1>1, <1>2, <1>3, <1>4, PortZero, TwoSteps
\* What is left of an answer was passed on, or dropped, in this round.
<1>6. answer = "none" \/ sendState = "kOnDataChangeOnly"
  BY <1>1 DEF WidgetInv, Answering
<1>7. OwnTypes' /\ Answering'
  BY <1>1, <1>6 DEF WidgetInv, OwnTypes, Answering
<1> QED
  BY <1>5, <1>7 DEF WidgetInv

\* The parts of Run that make no call.
LEMMA WidgetRun ==
  ASSUME WidgetInv, Orderly, NoByte \/ ReceivedRdmPacket \/ RdmTimeout
  PROVE  WidgetInv'
<1>1. todo = << >> /\ UNCHANGED <<port, continuous, todo, output, sendState>>
  BY DEF NoByte, ReceivedRdmPacket, RdmTimeout, Turn
<1>2. /\ timing' \in BOOLEAN /\ (timing' = timing \/ (~timing' /\ port[0].rdm = "kIdle"))
      /\ OwnTypes' /\ Answering'
  <2>1. CASE NoByte
    BY <2>1 DEF NoByte, Turn, WidgetInv, OwnTypes, Answering
  <2>2. CASE ReceivedRdmPacket
    BY <2>2 DEF ReceivedRdmPacket, RdmTimeOutMessage, Turn, WidgetInv, OwnTypes, Answering,
       Answers
  <2>3. CASE RdmTimeout
    <3>1. turn = "timeout" /\ turn' = "host" /\ answer' = answer
      BY <2>3 DEF RdmTimeout, Turn
    <3>2. CASE SecondOver /\ RdmTimeOutMessage
      <4>1. port[0].dmx = "kIdle"
        BY <1>1, <3>2 DEF SecondOver, WidgetInv, OnWire, At
      <4>2. port[0].rdm = "kIdle"
        BY <3>2, <4>1 DEF SecondOver, RdmSending
      <4>3. answer = "none" \/ sendState = "kOnDataChangeOnly"
        BY <3>2 DEF SecondOver, Orderly
      <4> QED
        BY <1>1, <3>1, <3>2, <4>2, <4>3 DEF RdmTimeOutMessage, WidgetInv, OwnTypes, Answering
    <3>3. CASE UNCHANGED <<timing, discovery>>
      BY <1>1, <3>1, <3>3 DEF WidgetInv, OwnTypes, Answering
    <3> QED
      BY <2>3, <3>2, <3>3 DEF RdmTimeout
  <2> QED
    BY <2>1, <2>2, <2>3
<1>3. IInv' /\ Requested' /\ Turned' /\ OnWire'
  BY <1>1, <1>2, Uncalled
<1> QED
  BY <1>2, <1>3 DEF WidgetInv

LEMMA WidgetAnswered ==
  ASSUME WidgetInv, Orderly, Answered
  PROVE  WidgetInv'
<1>1. /\ timing /\ todo = << >> /\ port[0].rdm = "kIdle"
      /\ UNCHANGED <<port, continuous, todo, output, timing, discovery, sendState, turn>>
      /\ answer' \in Answers
  BY DEF Answered, Orderly
<1>2. IInv' /\ Requested' /\ Turned' /\ OnWire'
  BY <1>1, PortZero, Uncalled
<1>3. OwnTypes' /\ Answering'
  BY <1>1 DEF WidgetInv, OwnTypes, Answering
<1> QED
  BY <1>2, <1>3 DEF WidgetInv

-----------------------------------------------------------------------------
(***************************************************************************)
(* The inductive invariant and what follows from it                        *)
(***************************************************************************)
LEMMA WidgetInitInv == WidgetInit => WidgetInv
<1> SUFFICES ASSUME WidgetInit PROVE WidgetInv
  OBVIOUS
<1>1. TypeOK
  <2>1. [direction |-> "kInput", state |-> "kIdle", style |-> "kConstant",
         dmx |-> "kIdle", rdm |-> "kIdle", read |-> 0, write |-> 0,
         pending |-> FALSE, rxIrq |-> FALSE, txPin |-> "af",
         dirPin |-> "kInput", armed |-> FALSE, dma |-> "none",
         shift |-> FALSE, tc |-> TRUE] \in Port
    BY Zenon DEF Port, Directions, PortStates, OutputStyles, DmxStates, RdmStates
  <2>2. port \in [Ports -> Port]
    BY <2>1, Zenon DEF WidgetInit
  <2>3. continuous \in BOOLEAN /\ todo \in Seq(Step)
    BY DEF WidgetInit
  <2> QED
    BY <2>2, <2>3, Zenon DEF TypeOK
<1>2. NoLostWakeup /\ DmaShifts /\ TcComes
  BY DEF WidgetInit, NoLostWakeup, DmaShifts, TcComes
<1>3. OwnTypes /\ Answering
  BY DEF WidgetInit, OwnTypes, Answering, SendStates, Answers
<1>5. Requested
  <2>1. Len(todo) = 0 /\ ~timing
    BY DEF WidgetInit
  <2> QED
    BY <2>1 DEF Requested
<1>4. Turned /\ OnWire
  BY OnePort DEF WidgetInit, Turned, OnWire, At
<1> QED
  BY <1>1, <1>2, <1>3, <1>4, <1>5 DEF WidgetInv, IInv

LEMMA WidgetStep ==
  ASSUME Orderly, WidgetInv, [WidgetNext]_widgetVars
  PROVE  WidgetInv'
<1>1. CASE UNCHANGED widgetVars
  <2>1. IInv'
    BY <1>1, StutterInv DEF WidgetInv, widgetVars, vars
  <2>2. OwnTypes' /\ Requested' /\ Answering'
    BY <1>1 DEF WidgetInv, widgetVars, own, OwnTypes, Requested, Answering, Fits, Target
  <2>3. Turned' /\ OnWire'
    BY <1>1 DEF WidgetInv, widgetVars, own, Turned, OnWire, At, Target, PinPending
  <2> QED
    BY <2>1, <2>2, <2>3 DEF WidgetInv
<1>2. CASE Driver
  BY <1>2, WidgetMain, WidgetIrq DEF Driver
<1>3. CASE NoByte \/ ReceivedRdmPacket \/ RdmTimeout
  BY <1>3, WidgetRun
<1>4. CASE ParamsSnNameRequest \/ ReceiveDmxOnChange
  BY <1>4, WidgetTakeDown
<1>5. CASE SendDmxPacketRequestOutputOnly
  BY <1>5, WidgetOutputOnly
<1>6. CASE SendRdmPacketRequest \/ SendRdmDiscoveryRequest
  BY <1>6, WidgetSendRdm DEF SendRdmPacketRequest, SendRdmDiscoveryRequest
<1>7. CASE Answered
  BY <1>7, WidgetAnswered
<1> QED
  BY <1>1, <1>2, <1>3, <1>4, <1>5, <1>6, <1>7 DEF WidgetNext

\* A packet is on the wire while its transaction lasts, and nothing of the
\* driver is under way then: the pin is where the port is.
LEMMA InvRdmOnTheWire == WidgetInv => RdmOnTheWire
<1> SUFFICES ASSUME WidgetInv, port[0].dma = "rdm"  PROVE port[0].dirPin = "kOutput"
  BY DEF RdmOnTheWire
<1>1. todo = << >> /\ port[0].direction = "kOutput"
  BY DEF WidgetInv, OnWire
<1>2. ~PinPending
  BY <1>1 DEF PinPending
<1> QED
  BY <1>1, <1>2 DEF WidgetInv, Turned

LEMMA InvPinAgrees == WidgetInv => PinAgrees
<1> SUFFICES ASSUME WidgetInv, todo = << >>
             PROVE  /\ port[0].dirPin = port[0].direction
                    /\ port[0].state = "kRx" => port[0].rxIrq /\ port[0].direction = "kInput"
  BY DEF PinAgrees
<1>1. ~PinPending /\ ~At("DataDisable", 0)
  BY DEF PinPending, At
<1> QED
  BY <1>1 DEF WidgetInv, Turned

LEMMA InvOutputStops == WidgetInv => OutputStops
<1> SUFFICES ASSUME WidgetInv, todo = << >>, ~output, ~RdmSending
             PROVE  port[0].dirPin = "kInput"
  BY DEF OutputStops
<1>1. ~PinPending /\ \A o : ~At(o, 0)
  BY DEF PinPending, At
<1>2. port[0].rdm # "kIdle" => port[0].dmx = "kIdle"
  BY <1>1 DEF WidgetInv, OnWire
<1>3. port[0].direction \in Directions /\ port[0].direction # "kOutput"
  BY <1>2, PortZero DEF RdmSending, WidgetInv, Turned, Port
<1> QED
  BY <1>1, <1>3 DEF WidgetInv, Turned, Directions

LEMMA WidgetAlways == ASSUME Orderly PROVE WidgetSpec => []WidgetInv
<1>1. WidgetInv /\ [WidgetNext]_widgetVars => WidgetInv'
  BY WidgetStep
<1> QED
  BY <1>1, WidgetInitInv, PTL DEF WidgetSpec

\* Whatever the host and the responders do, the requests are made of steps.
LEMMA RequestSteps ==
  TakeDown \in Seq(Step) /\ OutputOnly \in Seq(Step) /\ RdmTransmit(0) \in Seq(Step)
<1> DEFINE off == SX("SetPortDirection", 0, "kOutput")
           in == SX("SetPortDirection", 0, "kInput")
           listen == SX("SetPortDirectionEnable", 0, "kInput")
           data == SX("SetSendData", 0, "kDirect")
           send == SX("SetPortDirectionEnable", 0, "kOutput")
           rdm == S("StartRdmOutput", 0)
<1>1. 0 \in Ports
  BY OnePort
<1>2. /\ off \in Step /\ in \in Step /\ listen \in Step
      /\ data \in Step /\ send \in Step /\ rdm \in Step
  BY <1>1 DEF S, SX, Step, DirectionOps, Directions, DataOps, SendStyles, PlainOps
<1>3. /\ TakeDown = << in >> \o << listen >>
      /\ OutputOnly = (<< off >> \o << data >>) \o << send >>
      /\ RdmTransmit(0) = << off >> \o << rdm >>
  BY DEF TakeDown, OutputOnly, RdmTransmit, SetPortDirection, SetTransmitData
<1> HIDE DEF off, in, listen, data, send, rdm
<1>4. << in >> \o << listen >> \in Seq(Step) /\ << off >> \o << rdm >> \in Seq(Step)
  BY <1>2, Appended
<1>5. (<< off >> \o << data >>) \o << send >> \in Seq(Step)
  BY <1>2, Appended
<1> QED
  BY <1>3, <1>4, <1>5, Zenon

LEMMA WidgetTypeStep ==
  ASSUME IInv, OwnTypes, [WidgetNext]_widgetVars
  PROVE  IInv' /\ OwnTypes'
<1>1. CASE UNCHANGED widgetVars
  BY <1>1, StutterInv DEF widgetVars, vars, own, OwnTypes
<1>2. CASE Driver
  <2>1. IInv'
    BY <1>2, OnePort, MainInv, IrqInv DEF Driver
  <2>2. OwnTypes'
    BY <1>2 DEF Driver, own, OwnTypes
  <2> QED
    BY <2>1, <2>2
<1>3. CASE NoByte \/ Answered \/ ReceivedRdmPacket \/ RdmTimeout
  <2>1. UNCHANGED vars
    BY <1>3 DEF NoByte, Answered, ReceivedRdmPacket, RdmTimeout, vars
  <2>2. OwnTypes'
    BY <1>3 DEF NoByte, Answered, ReceivedRdmPacket, RdmTimeout, RdmTimeOutMessage, Turn,
       OwnTypes, Answers
  <2> QED
    BY <2>1, <2>2, StutterInv
<1>4. CASE \/ ParamsSnNameRequest \/ ReceiveDmxOnChange \/ SendDmxPacketRequestOutputOnly
           \/ SendRdmPacketRequest \/ SendRdmDiscoveryRequest
  <2>1. \E steps \in Seq(Step) : Call(steps)
    <3>1. << >> \in Seq(Step)
      OBVIOUS
    <3> QED
      BY <1>4, <3>1, RequestSteps DEF ParamsSnNameRequest, ReceiveDmxOnChange,
         SendDmxPacketRequestOutputOnly, SendRdmPacketRequest, SendRdmDiscoveryRequest,
         SendRdm, Request
  <2>2. OwnTypes'
    BY <1>4 DEF ParamsSnNameRequest, ReceiveDmxOnChange, SendDmxPacketRequestOutputOnly,
       SendRdmPacketRequest, SendRdmDiscoveryRequest, SendRdm, Request, Turn, OwnTypes
  <2> QED
    BY <2>1, <2>2, CallInv
<1> QED
  BY <1>1, <1>2, <1>3, <1>4 DEF WidgetNext

\* The variables of the widget and of its port keep their types, whatever the
\* host and the responders do.
THEOREM WidgetTypeCorrect == WidgetSpec => []WidgetTypeOK
<1>1. WidgetInit => IInv /\ OwnTypes
  BY WidgetInitInv DEF WidgetInv
<1>2. (IInv /\ OwnTypes) /\ [WidgetNext]_widgetVars => (IInv /\ OwnTypes)'
  BY WidgetTypeStep
<1>3. IInv /\ OwnTypes => WidgetTypeOK
  BY DEF IInv, OwnTypes, WidgetTypeOK
<1> QED
  BY <1>1, <1>2, <1>3, PTL DEF WidgetSpec

\* SetPortDirection, RdmTransmit and the timer's handler: for as long as the
\* slots of an RDM request are on the wire, the line driver is on.
THEOREM WidgetRdmOnTheWire == ASSUME Orderly PROVE WidgetSpec => []RdmOnTheWire
<1> QED
  BY InvRdmOnTheWire, WidgetAlways, PTL

\* The early return of SetPortDirection, and the switch the timer's handler
\* makes behind the main loop's back: whenever no request is under way, the
\* direction pin is where the driver's table says it is and a port that listens
\* has its receive interrupts on.
THEOREM WidgetPinAgrees == ASSUME Orderly PROVE WidgetSpec => []PinAgrees
<1> QED
  BY InvPinAgrees, WidgetAlways, PTL

\* The labels that take the port down: once a request other than Output Only
\* Send DMX is carried out, the widget does not drive the line, but for the RDM
\* packet it was asked to send.
THEOREM WidgetOutputStops == ASSUME Orderly PROVE WidgetSpec => []OutputStops
<1> QED
  BY InvOutputStops, WidgetAlways, PTL
=============================================================================
