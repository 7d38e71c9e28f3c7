---------------------------- MODULE DmxSendProof ----------------------------
(***************************************************************************)
(* A node with triggered outputs, for every number of ports, every order   *)
(* of its calls and every moment of the interrupts: its packets are not    *)
(* cut, its lines are released and its stopped outputs are silent.  At the *)
(* end, a node with one output of any style, whose packets are not cut     *)
(* either if the inter-packet time is longer than two slots.               *)
(*                                                                         *)
(* `todo' is, in this node, at most one function of the driver on its way, *)
(* the first k steps, and calls that wait behind it.                       *)
(***************************************************************************)
EXTENDS DmxSend, DmxTransmitProof, FiniteSetTheorems, SequenceTheorems

\* Outputs are triggered (what the node configures unless told otherwise), and
\* Blackout is not called while an output is stopped: otherwise DataEnable's
\* assertion, for one, does not hold.
Triggered == Styles \subseteq {"kDelta"} /\ ~BlackoutStopped

\* A call that waits its turn: the loops of Sync and of Blackout.
Waiting == {"SyncPort", "Blackout", "SetPortDirectionEnable"}

\* What a function may consist of when one step of it is left.
Single == {"SetPortDirection", "SetPin", "DataDisable", "WaitIdle", "DataEnable",
           "SetOutputStyle", "SetSendData", "SwitchBuffer", "CopyData",
           "StartSendStyleDirect", "StartDmxOutput", "DriveBreak", "ArmBreak"}

\* The steps that the state of their port depends on.
Busy == {"SetPortDirection", "DataDisable", "WaitIdle", "StartDmxOutput", "DriveBreak",
         "ArmBreak"}

NotBusy == \A p \in Ports, op \in Busy : ~At(op, p)

Shape(k) ==
  /\ k <= Len(todo)
  /\ \A i \in 1 .. k : todo[i].p = todo[1].p
  /\ \A i \in (k + 1) .. Len(todo) : todo[i].op \in Waiting
  /\ k = 1 => todo[1].op \in Single
  /\ k = 2 => \/ todo[1].op \in {"DataDisable", "WaitIdle"} /\ todo[2].op = "SetPin"
              \/ todo[1].op \in {"SetPin", "ClearData"} /\ todo[2].op = "DataEnable"
  /\ k = 3 => /\ todo[1].op \in {"DataDisable", "WaitIdle"}
              /\ todo[2].op \in {"SetPin", "ClearData"}
              /\ todo[3].op = "DataEnable"

\* A port is enabled once, after it has been disabled, and it is a started one.
Enabling(k) ==
  k # 0 /\ todo[k].op = "DataEnable" =>
    /\ todo[1].p \in started /\ port[todo[1].p].direction = "kOutput"
    /\ port[todo[1].p].state = "kIdle" \/ todo[1].op = "DataDisable"
    /\ \A i \in (k + 1) .. Len(todo) :
         todo[i].op = "SetPortDirectionEnable" => todo[i].p # todo[1].p

Programmed == \E k \in 0 .. 3 : Shape(k) /\ Enabling(k)

Argument(i) ==
  /\ todo[i].op \in {"SetPortDirection", "SetPortDirectionEnable"} => todo[i].x = "kOutput"
  /\ todo[i].op = "SetOutputStyle" => todo[i].x = "kDelta"
  /\ todo[i].op = "SetPortDirection" => Len(todo) = 1
  /\ todo[i].op = "SetPortDirectionEnable" =>
       todo[i].p \in started /\ port[todo[i].p].state = "kIdle"
  /\ todo[i].op = "Blackout" =>
       (port[todo[i].p].direction = "kOutput" => todo[i].p \in started)

\* The starts of Sync are of different ports.
Apart(i, j) ==
  todo[i].op = "SetPortDirectionEnable" =>
    /\ todo[j].op # "Blackout"
    /\ todo[j].op = "SetPortDirectionEnable" /\ i # j => todo[i].p # todo[j].p

Calling == /\ \A i \in 1 .. Len(todo) : Argument(i)
           /\ \A i, j \in 1 .. Len(todo) : Apart(i, j)

Doing(p) ==
  /\ At("DataDisable", p) => port[p].direction = "kOutput"
  /\ At("WaitIdle", p) => port[p].state = "kIdle"
  /\ At("StartDmxOutput", p) \/ At("DriveBreak", p) \/ At("ArmBreak", p)
       => port[p].state = "kTx" /\ port[p].dmx = "kIdle"
  /\ At("DriveBreak", p) \/ At("ArmBreak", p) => ~port[p].shift
  /\ At("ArmBreak", p) => port[p].txPin = "low"

\* The pin is low in a break only, and slots are on the wire only behind a mark.
Sending(p) ==
  /\ port[p].style = "kDelta" /\ port[p].rdm = "kIdle" /\ port[p].dmx # "kDmxInter"
  /\ port[p].dma # "none" => port[p].dma = "dmx" /\ port[p].dmx = "kDmxMab"
  /\ port[p].shift => ~port[p].tc /\ port[p].txPin = "af" /\ port[p].dmx # "kDmxBreak"
  /\ port[p].txPin = "low" => port[p].dmx = "kDmxBreak" \/ At("ArmBreak", p)

\* A port that is not enabled has sent its last packet.
Stopped(p) ==
  /\ port[p].state # "kRx"
  /\ port[p].state = "kIdle" => port[p].dmx = "kIdle" \/ At("WaitIdle", p)
  /\ port[p].state = "kTx" => p \in started \/ At("SetPortDirection", p) \/ At("DataDisable", p)

PortsInv == \A p \in Ports : Doing(p) /\ Sending(p) /\ Stopped(p)

NodeInv == /\ IInv /\ started \subseteq Ports /\ hasData \subseteq Ports
           /\ Programmed /\ Calling /\ PortsInv

-----------------------------------------------------------------------------
(***************************************************************************)
(* What is to be done                                                      *)
(***************************************************************************)
\* The step that is being done decides how much of the function is left.
LEMMA Progress ==
  ASSUME NodeInv, NEW p \in Ports, NEW op, At(op, p)
  PROVE  /\ op \in Waiting \cup Single \cup {"ClearData"}
         /\ \E k \in 0 .. 3 : /\ Shape(k) /\ Enabling(k)
                              /\ op \in Waiting <=> k = 0
                              /\ k # 0 => op \in Single \cup {"ClearData"}
                              /\ k = 0 \/ k = 1 \/ k = 2 \/ k = 3
<1>1. todo \in Seq(Step) /\ Len(todo) \in Nat /\ Len(todo) # 0 /\ todo[1].op = op
  BY AtHead DEF NodeInv, IInv, TypeOK
<1>2. PICK k \in 0 .. 3 : Shape(k) /\ Enabling(k)
  BY DEF NodeInv, Programmed
<1>3. k = 0 \/ k = 1 \/ k = 2 \/ k = 3
  BY <1>2
<1>4. CASE k = 0
  BY <1>1, <1>2, <1>4 DEF Shape
<1>5. CASE k = 1
  BY <1>1, <1>2, <1>5 DEF Shape, Single, Waiting
<1>6. CASE k = 2 \/ k = 3
  BY <1>1, <1>2, <1>6 DEF Shape, Single, Waiting
<1> QED
  BY <1>2, <1>3, <1>4, <1>5, <1>6

LEMMA StepPort == \A s \in Step : s.p \in Ports
BY DEF Step

\* Behind the step that was done, the waiting calls stay what they are.
LEMMA CallsStay ==
  ASSUME NodeInv, NEW p \in Ports, NEW op, At(op, p), NEW steps \in Seq(Step), Goto(steps),
         started \subseteq started', op # "SetPortDirection",
         \A q \in Ports : port'[q].direction = port[q].direction
                            \/ (op = "SetPortDirectionEnable" /\ q = p),
         \A q \in Ports : port[q].state = "kIdle" =>
                            port'[q].state = "kIdle" \/ (op = "DataEnable" /\ q = p),
         \A i \in 1 .. Len(steps) :
           /\ steps[i].op \notin {"SetPortDirection"} \cup Waiting
           /\ steps[i].op = "SetOutputStyle" => steps[i].x = "kDelta"
  PROVE  Calling'
<1>1. /\ todo \in Seq(Step) /\ todo # << >> /\ todo[1].op = op /\ todo[1].p = p /\ Calling
  BY AtHead DEF NodeInv, IInv, TypeOK, At
<1>2. /\ todo' \in Seq(Step) /\ Len(todo) \in Nat /\ Len(todo) >= 1 /\ Len(steps) \in Nat
      /\ Len(todo') = Len(steps) + Len(todo) - 1
      /\ \A i \in 1 .. Len(steps) : todo'[i] = steps[i]
      /\ \A i \in (Len(steps) + 1) .. Len(todo') : todo'[i] = todo[i - Len(steps) + 1]
  BY <1>1, GotoSteps
<1>3. PICK k \in 0 .. 3 : /\ Shape(k) /\ Enabling(k)
                          /\ op \in Waiting <=> k = 0
                          /\ k # 0 => op \in Single \cup {"ClearData"}
                          /\ k = 0 \/ k = 1 \/ k = 2 \/ k = 3
  BY Progress
\* Enabling a port disturbs no start that waits.
<1>4. ASSUME op = "DataEnable", NEW i \in 2 .. Len(todo)
      PROVE  todo[i].op = "SetPortDirectionEnable" => todo[i].p # p
  <2>1. k = 1
    BY <1>1, <1>3, <1>4 DEF Shape, Waiting
  <2> QED
    BY <1>1, <1>2, <1>4, <2>1, <1>3 DEF Enabling
<1>5. ASSUME NEW i \in 2 .. Len(todo)
      PROVE  todo[i].op = "Blackout" => op # "SetPortDirectionEnable"
  BY <1>1, <1>2, <1>5 DEF Calling, Apart
<1>6. ASSUME NEW i \in 1 .. Len(todo')  PROVE Argument(i)'
  <2>1. CASE i <= Len(steps)
    <3>1. todo'[i] = steps[i] /\ i \in 1 .. Len(steps)
      BY <1>2, <1>6, <2>1
    <3> QED
      BY <3>1 DEF Argument, Waiting
  <2>2. CASE i > Len(steps)
    <3> DEFINE m == i - Len(steps) + 1
    <3>0. i \in (Len(steps) + 1) .. Len(todo')
      BY <1>2, <1>6, <2>2
    <3>1. m \in 2 .. Len(todo) /\ todo'[i] = todo[m] /\ m \in 1 .. Len(todo)
      BY <1>2, <3>0
    <3> HIDE DEF m
    <3>2. Argument(m) /\ todo[m].p \in Ports
      BY <1>1, <3>1, StepPort DEF Calling
    <3>3. todo[m].op # "SetPortDirection"
      BY <1>2, <1>3, <3>1, <3>2, <1>1 DEF Shape, Waiting, Argument
    <3>4. todo[m].op = "SetPortDirectionEnable" => port'[todo[m].p].state = "kIdle"
      BY <1>4, <3>1, <3>2 DEF Argument
    <3>5. todo[m].op = "Blackout" => port'[todo[m].p].direction = port[todo[m].p].direction
      BY <1>5, <3>1, <3>2
    <3> QED
      BY <3>1, <3>2, <3>3, <3>4, <3>5 DEF Argument
  <2> QED
    BY <1>2, <1>6, <2>1, <2>2
<1>7. ASSUME NEW i \in 1 .. Len(todo'), NEW j \in 1 .. Len(todo')  PROVE Apart(i, j)'
  <2>1. CASE i <= Len(steps) \/ j <= Len(steps)
    <3>1. \/ todo'[i] = steps[i] /\ i \in 1 .. Len(steps)
          \/ todo'[j] = steps[j] /\ j \in 1 .. Len(steps)
      BY <1>2, <1>7, <2>1
    <3> QED
      BY <3>1 DEF Apart, Waiting
  <2>2. CASE i > Len(steps) /\ j > Len(steps)
    <3> DEFINE m == i - Len(steps) + 1
               n == j - Len(steps) + 1
    <3>0. /\ i \in (Len(steps) + 1) .. Len(todo')
          /\ j \in (Len(steps) + 1) .. Len(todo')
      BY <1>2, <1>7, <2>2
    <3>1. /\ m \in 1 .. Len(todo) /\ todo'[i] = todo[m]
          /\ n \in 1 .. Len(todo) /\ todo'[j] = todo[n]
          /\ i # j => m # n
      BY <1>2, <3>0
    <3> HIDE DEF m, n
    <3>2. Apart(m, n)
      BY <1>1, <3>1 DEF Calling
    <3> QED
      BY <3>1, <3>2 DEF Apart
  <2> QED
    BY <1>2, <1>7, <2>1, <2>2
<1> QED
  BY <1>6, <1>7 DEF Calling

\* A step that is replaced by one step at most.
LEMMA Advance ==
  ASSUME NodeInv, NEW p \in Ports, NEW op, At(op, p), NEW steps \in Seq(Step), Goto(steps),
         op # "SetPortDirection",
         Len(steps) = 0 \/ Len(steps) = 1,
         Len(steps) = 1 => /\ steps[1].p = p
                           /\ steps[1].op \in Single \ {"SetPortDirection", "DataEnable"}
                           /\ steps[1].op = "SetOutputStyle" => steps[1].x = "kDelta"
                           /\ op \notin {"WaitIdle", "SetPin", "ClearData"}
                           /\ op = "DataDisable" => steps[1].op = "WaitIdle",
         started' = started,
         \A q \in Ports : port'[q].direction = port[q].direction,
         \A q \in Ports : port[q].state = "kIdle" =>
                            port'[q].state = "kIdle" \/ (op = "DataEnable" /\ q = p),
         op = "DataDisable" => port'[p].state = "kIdle"
  PROVE  /\ Programmed' /\ Calling'
         /\ Len(steps) = 1 => \A o, q : At(o, q)' <=> o = steps[1].op /\ q = p
         /\ Len(steps) # 1 => NotBusy'
<1>1. /\ todo \in Seq(Step) /\ todo # << >> /\ todo[1].op = op /\ todo[1].p = p /\ Calling
  BY AtHead DEF NodeInv, IInv, TypeOK, At
<1>2. /\ todo' \in Seq(Step) /\ Len(todo) \in Nat /\ Len(todo) >= 1 /\ Len(steps) \in Nat
      /\ Len(todo') = Len(steps) + Len(todo) - 1
      /\ \A i \in 1 .. Len(steps) : todo'[i] = steps[i]
      /\ \A i \in (Len(steps) + 1) .. Len(todo') : todo'[i] = todo[i - Len(steps) + 1]
  BY <1>1, GotoSteps
<1>3. PICK k \in 0 .. 3 : /\ Shape(k) /\ Enabling(k)
                          /\ op \in Waiting <=> k = 0
                          /\ k # 0 => op \in Single \cup {"ClearData"}
                          /\ k = 0 \/ k = 1 \/ k = 2 \/ k = 3
  BY Progress
<1>4. Calling'
  <2>1. \A i \in 1 .. Len(steps) : i = 1 /\ Len(steps) = 1
    BY <1>2
  <2>2. \A i \in 1 .. Len(steps) :
           /\ steps[i].op \notin {"SetPortDirection"} \cup Waiting
           /\ steps[i].op = "SetOutputStyle" => steps[i].x = "kDelta"
    BY <2>1 DEF Single, Waiting
  <2>3. \A q \in Ports : port'[q].direction = port[q].direction
                             \/ (op = "SetPortDirectionEnable" /\ q = p)
    OBVIOUS
  <2>4. started \subseteq started' /\ op # "SetPortDirection"
    OBVIOUS
  <2> QED
    BY <2>2, <2>3, <2>4, CallsStay
<1>5. CASE Len(steps) = 1
  <2>1. /\ Len(todo') = Len(todo) /\ todo'[1] = steps[1]
        /\ \A i \in 2 .. Len(todo) : todo'[i] = todo[i]
    BY <1>2, <1>5
  <2>2. \A o, q : At(o, q)' <=> o = steps[1].op /\ q = p
    BY <1>2, <1>5, <2>1, AtHeadNext
  <2>3. CASE k = 0 \/ k = 1
    <3>1. Shape(1)'
      BY <1>1, <1>2, <1>3, <1>5, <2>1, <2>3 DEF Shape
    <3>2. Enabling(1)'
      BY <1>5, <2>1 DEF Enabling
    <3> QED
      BY <1>4, <1>5, <2>2, <3>1, <3>2 DEF Programmed
  <2>4. CASE k = 2 \/ k = 3
    <3>1. op = "DataDisable" /\ steps[1].op = "WaitIdle"
      BY <1>1, <1>3, <1>5, <2>4 DEF Shape
    <3>2. Shape(k)'
      BY <1>1, <1>2, <1>3, <1>5, <2>1, <2>4, <3>1 DEF Shape
    <3>3. Enabling(k)'
      BY <1>1, <1>2, <1>3, <1>5, <2>1, <2>4, <3>1 DEF Enabling, Shape
    <3> QED
      BY <1>3, <1>4, <1>5, <2>2, <3>2, <3>3 DEF Programmed
  <2> QED
    BY <1>3, <2>3, <2>4
<1>6. CASE Len(steps) = 0
  <2>1. Len(todo') = Len(todo) - 1 /\ \A i \in 1 .. Len(todo') : todo'[i] = todo[i + 1]
    BY <1>2, <1>6
  <2>2. CASE k = 0 \/ k = 1
    <3>0. ASSUME NEW i \in 1 .. Len(todo')  PROVE todo'[i].op \in Waiting
      <4>1. i + 1 \in (k + 1) .. Len(todo)
        BY <1>2, <2>1, <2>2, <3>0
      <4> QED
        BY <1>3, <2>1, <3>0, <4>1 DEF Shape
    <3>1. Shape(0)'
      BY <1>2, <3>0 DEF Shape
    <3>2. Enabling(0)'
      BY DEF Enabling
    <3>3. NotBusy'
      BY <1>2, <3>1, AtHeadNext DEF Shape, Waiting, Busy, NotBusy
    <3> QED
      BY <1>4, <1>6, <3>1, <3>2, <3>3 DEF Programmed
  <2>3. CASE k = 2 \/ k = 3
    <3>1. /\ todo'[1].op \in {"SetPin", "ClearData", "DataEnable"} /\ todo'[1].p = p
          /\ todo'[k - 1].op = todo[k].op /\ Len(todo) >= k
          /\ k = 2 => todo'[1].op # "ClearData"
          /\ k = 3 => todo'[1].op # "DataEnable" /\ todo'[2].op = "DataEnable" /\ todo'[2].p = p
      BY <1>1, <1>2, <1>3, <2>1, <2>3 DEF Shape
    <3>2. \A i \in k .. Len(todo') : i + 1 \in (k + 1) .. Len(todo) /\ todo'[i] = todo[i + 1]
      BY <1>2, <2>1, <2>3
    <3>7. \A i \in k .. Len(todo') : todo'[i].op \in Waiting
      BY <1>3, <3>2 DEF Shape
    <3>3. Shape(k - 1)'
      BY <1>2, <2>1, <2>3, <3>1, <3>7 DEF Shape, Single
    <3>4. Enabling(k - 1)'
      <4>1. SUFFICES ASSUME todo[k].op = "DataEnable"
                     PROVE  /\ p \in started' /\ port'[p].direction = "kOutput"
                            /\ port'[p].state = "kIdle"
                            /\ \A i \in k .. Len(todo') :
                                 todo'[i].op = "SetPortDirectionEnable" => todo'[i].p # p
        BY <3>1, <2>3, <1>3 DEF Enabling
      <4>2. op # "DataEnable"
        BY <1>1, <1>3, <2>3 DEF Shape
      <4> QED
        <5>1. /\ p \in started /\ port[p].direction = "kOutput"
              /\ port[p].state = "kIdle" \/ op = "DataDisable"
              /\ \A i \in (k + 1) .. Len(todo) :
                   todo[i].op = "SetPortDirectionEnable" => todo[i].p # p
          BY <1>1, <1>3, <2>3, <4>1 DEF Enabling
        <5>2. \A i \in k .. Len(todo') :
                todo'[i].op = "SetPortDirectionEnable" => todo'[i].p # p
          BY <3>2, <5>1
        <5> QED
          BY <4>2, <5>1, <5>2
    <3>5. NotBusy'
      BY <1>2, <3>1, AtHeadNext DEF Busy, NotBusy
    <3>6. k - 1 \in 0 .. 3
      BY <2>3
    <3> QED
      BY <1>4, <1>6, <3>3, <3>4, <3>5, <3>6 DEF Programmed
  <2> QED
    BY <1>3, <2>2, <2>3
<1> QED
  BY <1>4, <1>5, <1>6

\* The same, with no step left, and with one.
LEMMA AdvanceDone ==
  ASSUME NodeInv, NEW p \in Ports, NEW op, At(op, p), Goto(<< >>),
         op # "SetPortDirection", started' = started,
         \A q \in Ports : port'[q].direction = port[q].direction,
         \A q \in Ports : port[q].state = "kIdle" =>
                            port'[q].state = "kIdle" \/ (op = "DataEnable" /\ q = p),
         op = "DataDisable" => port'[p].state = "kIdle"
  PROVE  Programmed' /\ Calling' /\ NotBusy'
<1> DEFINE steps == << >>
<1>1. steps \in Seq(Step) /\ Len(steps) = 0 /\ Len(steps) # 1 /\ Goto(steps)
  BY Lengths
<1> HIDE DEF steps
<1>3. Len(steps) = 1 => /\ steps[1].p = p
                        /\ steps[1].op \in Single \ {"SetPortDirection", "DataEnable"}
                        /\ steps[1].op = "SetOutputStyle" => steps[1].x = "kDelta"
                        /\ op \notin {"WaitIdle", "SetPin", "ClearData"}
                        /\ op = "DataDisable" => steps[1].op = "WaitIdle"
  BY <1>1
<1>4. Len(steps) = 0 \/ Len(steps) = 1
  BY <1>1
<1>5. steps \in Seq(Step) /\ Goto(steps)
  BY <1>1
<1>2. Programmed' /\ Calling'
  BY <1>3, <1>4, <1>5, Advance
<1>6. Len(steps) # 1 => NotBusy'
  BY <1>3, <1>4, <1>5, Advance
<1> QED
  BY <1>1, <1>2, <1>6

LEMMA AdvanceTo ==
  ASSUME NodeInv, NEW p \in Ports, NEW op, At(op, p), NEW s \in Step, Goto(<< s >>),
         op \notin {"SetPortDirection", "WaitIdle", "SetPin", "ClearData"}, s.p = p,
         s.op \in Single \ {"SetPortDirection", "DataEnable"},
         s.op = "SetOutputStyle" => s.x = "kDelta",
         op = "DataDisable" => s.op = "WaitIdle",
         started' = started,
         \A q \in Ports : port'[q].direction = port[q].direction,
         \A q \in Ports : port[q].state = "kIdle" =>
                            port'[q].state = "kIdle" \/ (op = "DataEnable" /\ q = p),
         op = "DataDisable" => port'[p].state = "kIdle"
  PROVE  Programmed' /\ Calling' /\ (\A o, q : At(o, q)' <=> o = s.op /\ q = p)
<1> DEFINE steps == << s >>
<1>1. steps \in Seq(Step) /\ Len(steps) = 1 /\ steps[1] = s /\ Goto(steps)
  BY Lengths
<1> HIDE DEF steps
<1>2. /\ steps[1].p = p
      /\ steps[1].op \in Single \ {"SetPortDirection", "DataEnable"}
      /\ steps[1].op = "SetOutputStyle" => steps[1].x = "kDelta"
      /\ op \notin {"WaitIdle", "SetPin", "ClearData"}
      /\ op = "DataDisable" => steps[1].op = "WaitIdle"
  BY <1>1
<1>3. op # "SetPortDirection"
  OBVIOUS
<1>4. /\ Programmed' /\ Calling'
      /\ Len(steps) = 1 => \A o, q : At(o, q)' <=> o = steps[1].op /\ q = p
  BY <1>1, <1>2, <1>3, Advance
<1> QED
  BY <1>1, <1>4

\* A call that is replaced by the steps of a function that enables the port.
LEMMA Expand ==
  ASSUME NodeInv, NEW p \in Ports, NEW op \in {"SetPortDirectionEnable", "Blackout"},
         At(op, p), NEW steps \in Seq(Step), Goto(steps), p \in started, started' = started,
         port'[p].direction = "kOutput",
         \/ /\ Len(steps) = 1 /\ steps[1].p = p
            /\ steps[1].op = "DataEnable" /\ port'[p].state = "kIdle"
         \/ /\ Len(steps) = 3 /\ steps[1].p = p /\ steps[2].p = p /\ steps[3].p = p
            /\ steps[1].op = "DataDisable" /\ steps[2].op \in {"SetPin", "ClearData"}
            /\ steps[3].op = "DataEnable",
         \A q \in Ports : port'[q].direction = port[q].direction
                            \/ (op = "SetPortDirectionEnable" /\ q = p),
         \A q \in Ports : port'[q].state = port[q].state
  PROVE  /\ Programmed' /\ Calling'
         /\ \A o, q : At(o, q)' <=> o = steps[1].op /\ q = p
<1>1. /\ todo \in Seq(Step) /\ todo # << >> /\ todo[1].op = op /\ todo[1].p = p /\ Calling
  BY AtHead DEF NodeInv, IInv, TypeOK, At
<1>2. /\ todo' \in Seq(Step) /\ Len(todo) \in Nat /\ Len(todo) >= 1 /\ Len(steps) \in Nat
      /\ Len(todo') = Len(steps) + Len(todo) - 1
      /\ \A i \in 1 .. Len(steps) : todo'[i] = steps[i]
      /\ \A i \in (Len(steps) + 1) .. Len(todo') : todo'[i] = todo[i - Len(steps) + 1]
  BY <1>1, GotoSteps
<1>3. Shape(0)
  BY Progress DEF Waiting
<1>4. Calling'
  <2>0. Len(steps) = 1 \/ Len(steps) = 3
    OBVIOUS
  <2>1. \A i \in 1 .. Len(steps) : i = 1 \/ i = 2 \/ i = 3
    <3>1. (\A i \in 1 .. 1 : i = 1) /\ (\A i \in 1 .. 3 : i = 1 \/ i = 2 \/ i = 3)
      OBVIOUS
    <3> QED
      BY <2>0, <3>1
  <2>2. \A i \in 1 .. Len(steps) :
           /\ steps[i].op \notin {"SetPortDirection"} \cup Waiting
           /\ steps[i].op = "SetOutputStyle" => steps[i].x = "kDelta"
    BY <2>1 DEF Waiting
  <2>3. \A q \in Ports : port[q].state = "kIdle" =>
                            port'[q].state = "kIdle" \/ (op = "DataEnable" /\ q = p)
    OBVIOUS
  <2>4. started \subseteq started' /\ op # "SetPortDirection"
    OBVIOUS
  <2> QED
    BY <2>2, <2>3, <2>4, CallsStay
<1>5. \A o, q : At(o, q)' <=> o = steps[1].op /\ q = p
  BY <1>2, AtHeadNext
<1>6. ASSUME NEW i \in (Len(steps) + 1) .. Len(todo')
      PROVE  todo'[i].op \in Waiting
             /\ (todo'[i].op = "SetPortDirectionEnable" => todo'[i].p # p)
  <2> DEFINE m == i - Len(steps) + 1
  <2>1. m \in 2 .. Len(todo) /\ m \in 1 .. Len(todo) /\ todo'[i] = todo[m]
    BY <1>2, <1>6
  <2> HIDE DEF m
  <2>2. todo[m].op \in Waiting
    BY <1>3, <2>1 DEF Shape
  <2>3. Apart(m, 1)
    BY <1>1, <1>2, <2>1 DEF Calling
  <2> QED
    BY <1>1, <2>1, <2>2, <2>3 DEF Apart
<1>7. CASE Len(steps) = 1
  <2>1. todo'[1] = steps[1] /\ Len(todo') >= 1
    BY <1>2, <1>7
  <2>2. Shape(1)'
    BY <1>2, <1>6, <1>7, <2>1 DEF Shape, Single
  <2>3. Enabling(1)'
    BY <1>6, <1>7, <2>1 DEF Enabling
  <2> QED
    BY <1>4, <1>5, <2>2, <2>3 DEF Programmed
<1>8. CASE Len(steps) = 3
  <2>1. todo'[1] = steps[1] /\ todo'[2] = steps[2] /\ todo'[3] = steps[3] /\ Len(todo') >= 3
    BY <1>2, <1>8
  <2>2. Shape(3)'
    <3>1. \A i \in 1 .. 3 : todo'[i].p = p
      <4>1. \A i \in 1 .. 3 : i = 1 \/ i = 2 \/ i = 3
        OBVIOUS
      <4> QED
        BY <1>8, <2>1, <4>1
    <3> QED
      BY <1>2, <1>6, <1>8, <2>1, <3>1 DEF Shape
  <2>3. Enabling(3)'
    BY <1>6, <1>8, <2>1 DEF Enabling
  <2> QED
    BY <1>4, <1>5, <2>2, <2>3 DEF Programmed
<1> QED
  BY <1>7, <1>8

\* SetPortDirection is only called when nothing waits.
LEMMA ExpandDisable ==
  ASSUME NodeInv, NEW p \in Ports, At("SetPortDirection", p), NEW steps \in Seq(Step),
         Goto(steps), steps[1].p = p, steps[1].op = "DataDisable",
         \/ Len(steps) = 1
         \/ Len(steps) = 2 /\ steps[2].p = p /\ steps[2].op = "SetPin"
  PROVE  /\ Programmed' /\ Calling'
         /\ \A o, q : At(o, q)' <=> o = "DataDisable" /\ q = p
<1>1. /\ todo \in Seq(Step) /\ todo # << >> /\ Len(todo) = 1
  BY AtHead DEF NodeInv, IInv, TypeOK, At, Calling, Argument
<1>2. /\ todo' \in Seq(Step) /\ Len(steps) \in Nat /\ Len(todo') = Len(steps)
      /\ \A i \in 1 .. Len(steps) : todo'[i] = steps[i]
  BY <1>1, GotoSteps
<1>3. \A o, q : At(o, q)' <=> o = "DataDisable" /\ q = p
  BY <1>2, AtHeadNext
<1>4. \A i \in 1 .. Len(todo') : /\ todo'[i].op = "DataDisable" \/ todo'[i].op = "SetPin"
                                 /\ todo'[i].p = p /\ (i = 1 \/ i = 2)
  <2>1. \A i \in 1 .. Len(steps) : i = 1 \/ (i = 2 /\ Len(steps) = 2)
    BY <1>2
  <2> QED
    BY <1>2, <2>1
<1>5. Calling'
  BY <1>4 DEF Calling, Argument, Apart
<1>6. Shape(Len(steps))'
  BY <1>2, <1>4 DEF Shape, Single
<1>7. Enabling(Len(steps))'
  BY <1>2, <1>4 DEF Enabling
<1>8. Len(steps) \in 0 .. 3
  OBVIOUS
<1> QED
  BY <1>3, <1>5, <1>6, <1>7, <1>8 DEF Programmed

-----------------------------------------------------------------------------
(***************************************************************************)
(* The ports                                                               *)
(***************************************************************************)
\* A step of the main loop for port p leaves the others as they are.
LEMMA OtherPorts ==
  ASSUME NodeInv, NEW p \in Ports, NEW op, At(op, p), started' = started,
         \A q \in Ports \ {p} : port'[q] = port[q],
         \A q \in Ports \ {p} : \A o \in Busy : ~At(o, q)',
         Doing(p)' /\ Sending(p)' /\ Stopped(p)'
  PROVE  PortsInv'
<1> SUFFICES ASSUME NEW q \in Ports \ {p}  PROVE Doing(q)' /\ Sending(q)' /\ Stopped(q)'
  BY DEF PortsInv
<1>1. \A o : ~At(o, q)
  BY DEF At
<1>2. port'[q] = port[q] /\ Sending(q) /\ Stopped(q)
  BY DEF NodeInv, PortsInv
<1>3. \A o \in {"SetPortDirection", "DataDisable", "WaitIdle", "StartDmxOutput",
                 "DriveBreak", "ArmBreak"} : ~At(o, q)'
  BY DEF Busy
<1> QED
  BY <1>1, <1>2, <1>3 DEF Doing, Sending, Stopped

\* Of the ports nothing changes that the driver's state machine looks at.
Alike(p) ==
  /\ \A q \in Ports \ {p} : port'[q] = port[q]
  /\ port'[p].direction = port[p].direction /\ port'[p].state = port[p].state
  /\ port'[p].style = port[p].style /\ port'[p].dmx = port[p].dmx
  /\ port'[p].rdm = port[p].rdm /\ port'[p].txPin = port[p].txPin
  /\ port'[p].dma = port[p].dma /\ port'[p].shift = port[p].shift
  /\ port'[p].tc = port[p].tc

\* A step that does not depend on the state of the port, nor the next one.
LEMMA QuietStep ==
  ASSUME NodeInv, NEW p \in Ports, NEW op, At(op, p), op \notin Busy, started' = started,
         Alike(p), NotBusy'
  PROVE  PortsInv'
<1>1. \A o \in {"SetPortDirection", "DataDisable", "WaitIdle", "StartDmxOutput",
                 "DriveBreak", "ArmBreak"} : ~At(o, p) /\ ~At(o, p)'
  BY DEF Busy, At, NotBusy
<1>2. Sending(p) /\ Stopped(p)
  BY DEF NodeInv, PortsInv
<1>3. Doing(p)' /\ Sending(p)' /\ Stopped(p)'
  BY <1>1, <1>2 DEF Doing, Sending, Stopped, Alike
<1> QED
  BY <1>3, OtherPorts DEF Alike, NotBusy

\* SetPin, ClearData, SetOutputStyle, SetSendData, SwitchBuffer, CopyData: the
\* packet's data, and pins that are not the transmitter's.
LEMMA QuietDone ==
  ASSUME NodeInv, NEW p \in Ports, NEW op, At(op, p), started' = started, Alike(p),
         op \notin Busy, Goto(<< >>)
  PROVE  Programmed' /\ Calling' /\ PortsInv'
<1>1. /\ \A q \in Ports : port'[q].direction = port[q].direction
      /\ \A q \in Ports : port[q].state = "kIdle" =>
                            port'[q].state = "kIdle" \/ (op = "DataEnable" /\ q = p)
  BY DEF Alike
<1>2. op # "SetPortDirection" /\ op # "DataDisable"
  BY DEF Busy
<1>3. Programmed' /\ Calling' /\ NotBusy'
  BY <1>1, <1>2, AdvanceDone
<1> QED
  BY <1>3, QuietStep

LEMMA QuietTo ==
  ASSUME NodeInv, NEW p \in Ports, NEW op, At(op, p), started' = started, Alike(p),
         op \notin Busy \cup {"SetPin", "ClearData"}, NEW s \in Step, Goto(<< s >>), s.p = p,
         s.op \in {"SwitchBuffer", "CopyData", "StartSendStyleDirect"}
  PROVE  Programmed' /\ Calling' /\ PortsInv'
<1>1. /\ \A q \in Ports : port'[q].direction = port[q].direction
      /\ \A q \in Ports : port[q].state = "kIdle" =>
                            port'[q].state = "kIdle" \/ (op = "DataEnable" /\ q = p)
  BY DEF Alike
<1>2. /\ op \notin {"SetPortDirection", "WaitIdle", "SetPin", "ClearData"}
      /\ op # "DataDisable" /\ op \notin Busy
      /\ s.op \in Single \ {"SetPortDirection", "DataEnable"} /\ s.op # "SetOutputStyle"
      /\ s.op \notin Busy
  BY DEF Busy, Single
<1>3. Programmed' /\ Calling' /\ (\A o, q : At(o, q)' <=> o = s.op /\ q = p)
  BY <1>1, <1>2, AdvanceTo
<1>4. NotBusy'
  BY <1>2, <1>3 DEF NotBusy
<1> QED
  BY <1>2, <1>3, <1>4, QuietStep

LEMMA NodePort ==
  ASSUME NodeInv, NEW p \in Ports
  PROVE  /\ port \in [Ports -> Port] /\ port[p] \in Port /\ todo \in Seq(Step)
         /\ Doing(p) /\ Sending(p) /\ Stopped(p)
BY DEF NodeInv, IInv, TypeOK, PortsInv

\* What the main loop is doing with port p.
LEMMA NodeHead ==
  ASSUME NodeInv, NEW p \in Ports, NEW op, At(op, p)
  PROVE  /\ op \in Waiting \cup Single \cup {"ClearData"}
         /\ op \in {"SetPortDirection", "SetPortDirectionEnable"} => Head(todo).x = "kOutput"
         /\ op = "SetOutputStyle" => Head(todo).x = "kDelta"
         /\ op = "SetPortDirectionEnable" => p \in started /\ port[p].state = "kIdle"
         /\ op = "Blackout" => (port[p].direction = "kOutput" => p \in started)
         /\ op = "DataEnable" => /\ p \in started /\ port[p].direction = "kOutput"
                                 /\ port[p].state = "kIdle"
<1>1. /\ todo \in Seq(Step) /\ Len(todo) \in Nat /\ Len(todo) >= 1
      /\ todo[1].op = op /\ todo[1].p = p /\ Head(todo) = todo[1]
  BY AtHead DEF NodeInv, IInv, TypeOK, At
<1>2. Argument(1)
  BY <1>1 DEF NodeInv, Calling
<1>3. op = "DataEnable" => /\ p \in started /\ port[p].direction = "kOutput"
                           /\ port[p].state = "kIdle"
  <2> SUFFICES ASSUME op = "DataEnable"
               PROVE  p \in started /\ port[p].direction = "kOutput" /\ port[p].state = "kIdle"
    OBVIOUS
  <2>1. PICK k \in 0 .. 3 : /\ Shape(k) /\ Enabling(k)
                            /\ k = 0 \/ k = 1 \/ k = 2 \/ k = 3
                            /\ op \in Waiting <=> k = 0
    BY Progress
  <2>2. k = 1
    BY <1>1, <2>1 DEF Shape, Waiting
  <2> QED
    BY <1>1, <2>1, <2>2 DEF Enabling
<1> QED
  BY <1>1, <1>2, <1>3, Progress DEF Argument

LEMMA NodeSets ==
  ASSUME NodeInv, NEW p \in Ports, started' = started,
         SetPinStep(p) \/ ClearDataStep(p) \/ SetOutputStyleStep(p)
  PROVE  Programmed' /\ Calling' /\ PortsInv'
<1>1. port \in [Ports -> Port] /\ port[p] \in Port /\ Sending(p)
  BY NodePort
<1>2. CASE SetPinStep(p)
  <2>1. At("SetPin", p) /\ Goto(<< >>) /\ port' = [port EXCEPT ![p].dirPin = Head(todo).x]
    BY <1>2 DEF SetPinStep
  <2>2. Alike(p)
    BY <1>1, <2>1 DEF Alike, Port
  <2> QED
    BY <2>1, <2>2, QuietDone DEF Busy
<1>3. CASE ClearDataStep(p)
  <2>1. At("ClearData", p) /\ Goto(<< >>) /\ port' = port
    BY <1>3 DEF ClearDataStep
  <2>2. Alike(p)
    BY <2>1 DEF Alike
  <2> QED
    BY <2>1, <2>2, QuietDone DEF Busy
<1>4. CASE SetOutputStyleStep(p)
  <2>1. At("SetOutputStyle", p) /\ Head(todo).x = "kDelta"
    BY <1>4, NodeHead DEF SetOutputStyleStep
  <2>2. Goto(<< >>) /\ port' = [port EXCEPT ![p].style = "kDelta"]
    BY <1>4, <2>1 DEF SetOutputStyleStep
  <2>3. Alike(p)
    BY <1>1, <2>2 DEF Sending, Port, Alike
  <2> QED
    BY <2>1, <2>2, <2>3, QuietDone DEF Busy
<1> QED
  BY <1>2, <1>3, <1>4

LEMMA NodeData ==
  ASSUME NodeInv, NEW p \in Ports, started' = started,
         SetSendDataStep(p) \/ SwitchBufferStep(p) \/ CopyDataStep(p)
  PROVE  Programmed' /\ Calling' /\ PortsInv'
<1>1. port \in [Ports -> Port] /\ port[p] \in Port /\ todo \in Seq(Step)
  BY NodePort
<1>2. CASE SetSendDataStep(p)
  <2> DEFINE s == SX(IF port[p].read = port[p].write THEN "SwitchBuffer" ELSE "CopyData",
                     p, Head(todo).x)
  <2>1. At("SetSendData", p) /\ Goto(<< s >>) /\ port' = port
    BY <1>2 DEF SetSendDataStep
  <2>2. Head(todo).x \in SendStyles
    BY <1>1, <2>1, HeadArgument DEF DataOps
  <2>3. s \in Step /\ s.op \in {"SwitchBuffer", "CopyData"} /\ s.p = p
    BY <2>2 DEF SX, Step, DataOps
  <2>4. Alike(p)
    BY <2>1 DEF Alike
  <2> HIDE DEF s
  <2> QED
    BY <2>1, <2>3, <2>4, QuietTo DEF Busy
<1>3. CASE SwitchBufferStep(p)
  <2> DEFINE s == SX("CopyData", p, Head(todo).x)
  <2>1. At("SwitchBuffer", p) /\ Goto(<< s >>) /\ port' = [port EXCEPT ![p].write = 1 - @]
    BY <1>3 DEF SwitchBufferStep
  <2>2. Head(todo).x \in SendStyles
    BY <1>1, <2>1, HeadArgument DEF DataOps
  <2>3. s \in Step /\ s.op = "CopyData" /\ s.p = p
    BY <2>2 DEF SX, Step, DataOps
  <2>4. Alike(p)
    BY <1>1, <2>1 DEF Alike, Port
  <2> HIDE DEF s
  <2> QED
    BY <2>1, <2>3, <2>4, QuietTo DEF Busy
<1>4. CASE CopyDataStep(p)
  <2> DEFINE s == S("StartSendStyleDirect", p)
  <2>1. At("CopyData", p) /\ port' = [port EXCEPT ![p].pending = TRUE]
        /\ (Goto(<< >>) \/ Goto(<< s >>))
    BY <1>4 DEF CopyDataStep
  <2>2. s \in Step /\ s.op = "StartSendStyleDirect" /\ s.p = p
    BY PlainStep DEF PlainOps, S
  <2>3. Alike(p)
    BY <1>1, <2>1 DEF Alike, Port
  <2> HIDE DEF s
  <2>4. CASE Goto(<< >>)
    BY <2>1, <2>3, <2>4, QuietDone DEF Busy
  <2>5. CASE Goto(<< s >>)
    BY <2>1, <2>2, <2>3, <2>5, QuietTo DEF Busy
  <2> QED
    BY <2>1, <2>4, <2>5
<1> QED
  BY <1>2, <1>3, <1>4

\* A packet is started for an enabled port that sends none.
LEMMA NodeTrigger ==
  ASSUME NodeInv, NEW p \in Ports, started' = started,
         StartSendStyleDirectStep(p) \/ SyncPortStep(p)
  PROVE  Programmed' /\ Calling' /\ PortsInv'
<1> DEFINE s == S("StartDmxOutput", p)
<1>1. port \in [Ports -> Port] /\ port[p] \in Port /\ Sending(p) /\ Stopped(p)
  BY NodePort
<1>2. s \in Step /\ s.op = "StartDmxOutput" /\ s.p = p
  BY PlainStep DEF PlainOps, S
<1>3. PICK op \in {"StartSendStyleDirect", "SyncPort"} :
        /\ At(op, p) /\ (Goto(<< >>) \/ (CanTrigger(p) /\ Goto(<< s >>)))
        /\ port' = port \/ port' = [port EXCEPT ![p].pending = FALSE]
  BY DEF StartSendStyleDirectStep, SyncPortStep
<1>4. Alike(p)
  BY <1>1, <1>3 DEF Alike, Port
<1> HIDE DEF s
<1>5. CASE Goto(<< >>)
  BY <1>3, <1>4, <1>5, QuietDone DEF Busy
<1>6. CASE CanTrigger(p) /\ Goto(<< s >>)
  <2>1. /\ op \notin {"SetPortDirection", "WaitIdle", "SetPin", "ClearData"} /\ op # "DataDisable"
        /\ s.op \in Single \ {"SetPortDirection", "DataEnable"} /\ s.op # "SetOutputStyle"
    BY <1>2 DEF Single
  <2>2. /\ \A q \in Ports : port'[q].direction = port[q].direction
        /\ \A q \in Ports : port[q].state = "kIdle" =>
                              port'[q].state = "kIdle" \/ (op = "DataEnable" /\ q = p)
    BY <1>4 DEF Alike
  <2>3. Programmed' /\ Calling' /\ (\A o, q : At(o, q)' <=> o = s.op /\ q = p)
    BY <1>2, <1>3, <1>6, <2>1, <2>2, AdvanceTo
  <2>4. Doing(p)' /\ Sending(p)' /\ Stopped(p)'
    <3>1. ~At("ArmBreak", p) /\ ~At("WaitIdle", p) /\ ~At("SetPortDirection", p) /\ ~At("DataDisable", p)
      BY <1>3 DEF At
    <3> QED
      BY <1>1, <1>2, <1>4, <1>6, <2>3, <3>1 DEF Doing, Sending, Stopped, Alike, CanTrigger
  <2>5. \A q \in Ports \ {p} : \A o \in Busy : ~At(o, q)'
    BY <2>3
  <2>6. \A q \in Ports \ {p} : port'[q] = port[q]
    BY <1>4 DEF Alike
  <2> QED
    BY <1>3, <2>3, <2>4, <2>5, <2>6, OtherPorts
<1> QED
  BY <1>3, <1>5, <1>6

\* The packet's break: the flag that says the line is free, the pin, the timer.
LEMMA NodeBreak ==
  ASSUME NodeInv, NEW p \in Ports, started' = started,
         StartDmxOutputStep(p) \/ DriveBreakStep(p) \/ ArmBreakStep(p)
  PROVE  Programmed' /\ Calling' /\ PortsInv'
<1>1. port \in [Ports -> Port] /\ port[p] \in Port /\ Doing(p) /\ Sending(p) /\ Stopped(p)
  BY NodePort
<1>2. CASE StartDmxOutputStep(p)
  <2> DEFINE s == S("DriveBreak", p)
  <2>1. s \in Step /\ s.op = "DriveBreak" /\ s.p = p
    BY PlainStep DEF PlainOps, S
  <2>2. At("StartDmxOutput", p) /\ port[p].tc /\ Goto(<< s >>) /\ port' = port
    BY <1>2 DEF StartDmxOutputStep
  <2> HIDE DEF s
  <2>3. s.op \in Single \ {"SetPortDirection", "DataEnable"} /\ s.op # "SetOutputStyle"
    BY <2>1 DEF Single
  <2>4. Programmed' /\ Calling' /\ (\A o, q : At(o, q)' <=> o = s.op /\ q = p)
    BY <2>1, <2>2, <2>3, AdvanceTo
  <2>5. Doing(p)' /\ Sending(p)' /\ Stopped(p)'
    <3>1. ~At("ArmBreak", p) /\ ~At("WaitIdle", p) /\ ~At("SetPortDirection", p) /\ ~At("DataDisable", p)
      BY <2>2 DEF At
    <3> QED
      BY <1>1, <2>1, <2>2, <2>4, <3>1 DEF Doing, Sending, Stopped
  <2>6. \A q \in Ports \ {p} : \A o \in Busy : ~At(o, q)'
    BY <2>4
  <2> QED
    BY <2>2, <2>4, <2>5, <2>6, OtherPorts
<1>3. CASE DriveBreakStep(p)
  <2> DEFINE s == S("ArmBreak", p)
  <2>1. s \in Step /\ s.op = "ArmBreak" /\ s.p = p
    BY PlainStep DEF PlainOps, S
  <2>2. ~At("DriveRdmBreak", p)
    BY NodeHead DEF Waiting, Single
  <2>3. At("DriveBreak", p) /\ Goto(<< s >>) /\ port' = [port EXCEPT ![p].txPin = "low"]
    BY <1>3, <2>2 DEF DriveBreakStep
  <2> HIDE DEF s
  <2>4. /\ port'[p].direction = port[p].direction /\ port'[p].state = port[p].state
        /\ port'[p].style = port[p].style /\ port'[p].dmx = port[p].dmx
        /\ port'[p].rdm = port[p].rdm /\ port'[p].txPin = "low"
        /\ port'[p].dma = port[p].dma /\ port'[p].shift = port[p].shift
        /\ port'[p].tc = port[p].tc
        /\ \A q \in Ports \ {p} : port'[q] = port[q]
    BY <1>1, <2>3 DEF Port
  <2>5. s.op \in Single \ {"SetPortDirection", "DataEnable"} /\ s.op # "SetOutputStyle"
    BY <2>1 DEF Single
  <2>6. Programmed' /\ Calling' /\ (\A o, q : At(o, q)' <=> o = s.op /\ q = p)
    BY <2>1, <2>3, <2>4, <2>5, AdvanceTo
  <2>7. Doing(p)' /\ Sending(p)' /\ Stopped(p)'
    <3>1. ~At("WaitIdle", p) /\ ~At("SetPortDirection", p) /\ ~At("DataDisable", p)
      BY <2>3 DEF At
    <3> QED
      BY <1>1, <2>1, <2>3, <2>4, <2>6, <3>1 DEF Doing, Sending, Stopped
  <2>8. \A q \in Ports \ {p} : \A o \in Busy : ~At(o, q)'
    BY <2>6
  <2> QED
    BY <2>3, <2>4, <2>6, <2>7, <2>8, OtherPorts
<1>4. CASE ArmBreakStep(p)
  <2>1. At("ArmBreak", p) /\ Goto(<< >>)
        /\ port' = [port EXCEPT ![p].armed = TRUE, ![p].dmx = "kDmxBreak"]
    BY <1>4 DEF ArmBreakStep
  <2>2. /\ port'[p].direction = port[p].direction /\ port'[p].state = port[p].state
        /\ port'[p].style = port[p].style /\ port'[p].dmx = "kDmxBreak"
        /\ port'[p].rdm = port[p].rdm /\ port'[p].txPin = port[p].txPin
        /\ port'[p].dma = port[p].dma /\ port'[p].shift = port[p].shift
        /\ port'[p].tc = port[p].tc
        /\ \A q \in Ports \ {p} : port'[q] = port[q]
    BY <1>1, <2>1 DEF Port
  <2>3. Programmed' /\ Calling' /\ NotBusy'
    <3>1. /\ \A q \in Ports : port'[q].direction = port[q].direction
          /\ \A q \in Ports : port[q].state = "kIdle" =>
                port'[q].state = "kIdle" \/ ("ArmBreak" = "DataEnable" /\ q = p)
      BY <2>2
    <3>2. At("ArmBreak", p) /\ Goto(<< >>)
      BY <2>1
    <3> QED
      BY <3>1, <3>2, AdvanceDone
  <2>4. Doing(p)' /\ Sending(p)' /\ Stopped(p)'
    <3>1. ~At("WaitIdle", p) /\ ~At("SetPortDirection", p) /\ ~At("DataDisable", p)
      BY <2>1 DEF At
    <3>2. \A o \in {"SetPortDirection", "DataDisable", "WaitIdle", "StartDmxOutput",
                     "DriveBreak", "ArmBreak"} : ~At(o, p)'
      BY <2>3 DEF NotBusy, Busy
    <3> QED
      BY <1>1, <2>1, <2>2, <3>1, <3>2 DEF Doing, Sending, Stopped
  <2>5. \A q \in Ports \ {p} : \A o \in Busy : ~At(o, q)'
    BY <2>3 DEF NotBusy
  <2> QED
    BY <2>1, <2>2, <2>3, <2>4, <2>5, OtherPorts
<1> QED
  BY <1>2, <1>3, <1>4

\* The port is disabled, and its packet is waited for.
LEMMA NodeDisable ==
  ASSUME NodeInv, NEW p \in Ports, started' = started,
         DataDisableStep(p) \/ WaitIdleStep(p)
  PROVE  Programmed' /\ Calling' /\ PortsInv'
<1>1. port \in [Ports -> Port] /\ port[p] \in Port /\ Doing(p) /\ Sending(p) /\ Stopped(p)
  BY NodePort
<1>2. CASE DataDisableStep(p)
  <2> DEFINE s == S("WaitIdle", p)
  <2>1. s \in Step /\ s.op = "WaitIdle" /\ s.p = p
    BY PlainStep DEF PlainOps, S
  <2>2. At("DataDisable", p) /\ port[p].direction = "kOutput"
    BY <1>1, <1>2 DEF DataDisableStep, Doing
  <2>3. \/ port[p].state = "kIdle" /\ port' = port /\ Goto(<< >>)
        \/ /\ port[p].state # "kIdle" /\ Goto(<< s >>)
           /\ port' = [port EXCEPT ![p].state = "kIdle"]
    BY <1>2, <2>2 DEF DataDisableStep
  <2> HIDE DEF s
  <2>4. /\ port'[p].direction = port[p].direction /\ port'[p].state = "kIdle"
        /\ port'[p].style = port[p].style /\ port'[p].dmx = port[p].dmx
        /\ port'[p].rdm = port[p].rdm /\ port'[p].txPin = port[p].txPin
        /\ port'[p].dma = port[p].dma /\ port'[p].shift = port[p].shift
        /\ port'[p].tc = port[p].tc
        /\ \A q \in Ports \ {p} : port'[q] = port[q]
    BY <1>1, <2>3 DEF Port
  <2>5. /\ \A q \in Ports : port'[q].direction = port[q].direction
        /\ \A q \in Ports : port[q].state = "kIdle" =>
              port'[q].state = "kIdle" \/ ("DataDisable" = "DataEnable" /\ q = p)
    BY <2>4
  <2>6. ~At("ArmBreak", p) /\ ~At("WaitIdle", p) /\ ~At("SetPortDirection", p)
    BY <2>2 DEF At
  <2>7. CASE port[p].state = "kIdle" /\ Goto(<< >>)
    <3>1. Programmed' /\ Calling' /\ NotBusy'
      BY <2>2, <2>4, <2>5, <2>7, AdvanceDone
    <3>2. \A o \in {"SetPortDirection", "DataDisable", "WaitIdle", "StartDmxOutput",
                     "DriveBreak", "ArmBreak"} : ~At(o, p)'
      BY <3>1 DEF NotBusy, Busy
    <3>3. Doing(p)' /\ Sending(p)' /\ Stopped(p)'
      BY <1>1, <2>4, <2>6, <2>7, <3>2 DEF Doing, Sending, Stopped
    <3>4. \A q \in Ports \ {p} : \A o \in Busy : ~At(o, q)'
      BY <3>1 DEF NotBusy
    <3> QED
      BY <2>2, <2>4, <3>1, <3>3, <3>4, OtherPorts
  <2>8. CASE Goto(<< s >>)
    <3>1. s.op \in Single \ {"SetPortDirection", "DataEnable"} /\ s.op # "SetOutputStyle"
      BY <2>1 DEF Single
    <3>2. Programmed' /\ Calling' /\ (\A o, q : At(o, q)' <=> o = s.op /\ q = p)
      BY <2>1, <2>2, <2>4, <2>5, <2>8, <3>1, AdvanceTo
    <3>3. Doing(p)' /\ Sending(p)' /\ Stopped(p)'
      BY <1>1, <2>1, <2>4, <2>6, <3>2 DEF Doing, Sending, Stopped
    <3>4. \A q \in Ports \ {p} : \A o \in Busy : ~At(o, q)'
      BY <3>2
    <3> QED
      BY <2>2, <2>4, <3>2, <3>3, <3>4, OtherPorts
  <2> QED
    BY <2>3, <2>7, <2>8
<1>3. CASE WaitIdleStep(p)
  <2>1. At("WaitIdle", p) /\ port[p].dmx = "kIdle" /\ Goto(<< >>) /\ port' = port
    BY <1>1, <1>3 DEF WaitIdleStep, Sending
  <2>2. /\ \A q \in Ports : port'[q].direction = port[q].direction
        /\ \A q \in Ports : port[q].state = "kIdle" =>
              port'[q].state = "kIdle" \/ ("WaitIdle" = "DataEnable" /\ q = p)
    BY <2>1
  <2>3. Programmed' /\ Calling' /\ NotBusy'
    BY <2>1, <2>2, AdvanceDone
  <2>4. Doing(p)' /\ Sending(p)' /\ Stopped(p)'
    <3>1. ~At("ArmBreak", p) /\ ~At("SetPortDirection", p) /\ ~At("DataDisable", p)
      BY <2>1 DEF At
    <3>2. \A o \in {"SetPortDirection", "DataDisable", "WaitIdle", "StartDmxOutput",
                     "DriveBreak", "ArmBreak"} : ~At(o, p)'
      BY <2>3 DEF NotBusy, Busy
    <3> QED
      BY <1>1, <2>1, <3>1, <3>2 DEF Doing, Sending, Stopped
  <2>5. \A q \in Ports \ {p} : \A o \in Busy : ~At(o, q)'
    BY <2>3 DEF NotBusy
  <2> QED
    BY <2>1, <2>3, <2>4, <2>5, OtherPorts
<1> QED
  BY <1>2, <1>3

\* The port is enabled; it has sent its last packet.
LEMMA NodeEnable ==
  ASSUME NodeInv, NEW p \in Ports, started' = started, DataEnableStep(p)
  PROVE  Programmed' /\ Calling' /\ PortsInv'
<1>1. port \in [Ports -> Port] /\ port[p] \in Port /\ Sending(p) /\ Stopped(p)
  BY NodePort
<1>2. /\ At("DataEnable", p) /\ p \in started /\ port[p].direction = "kOutput"
      /\ port[p].state = "kIdle"
  BY NodeHead DEF DataEnableStep
<1> DEFINE s == SX("SetOutputStyle", p, "kDelta")
<1>3. s \in Step /\ s.op = "SetOutputStyle" /\ s.p = p /\ s.x = "kDelta"
  BY DEF SX, Step, OutputStyles
<1>4. Goto(<< s >>) /\ port' = [port EXCEPT ![p].state = "kTx", ![p].dmx = "kIdle"]
  BY <1>1, <1>2 DEF DataEnableStep, SetOutputStyle, Sending
<1> HIDE DEF s
<1>5. ~At("WaitIdle", p) /\ ~At("ArmBreak", p)
  BY <1>2 DEF At
<1>6. /\ port'[p].direction = port[p].direction /\ port'[p].state = "kTx"
      /\ port'[p].style = port[p].style /\ port'[p].dmx = port[p].dmx
      /\ port'[p].rdm = port[p].rdm /\ port'[p].txPin = port[p].txPin
      /\ port'[p].dma = port[p].dma /\ port'[p].shift = port[p].shift
      /\ port'[p].tc = port[p].tc
      /\ \A q \in Ports \ {p} : port'[q] = port[q]
  BY <1>1, <1>2, <1>4, <1>5 DEF Port, Stopped
<1>7. /\ \A q \in Ports : port'[q].direction = port[q].direction
      /\ \A q \in Ports : port[q].state = "kIdle" =>
            port'[q].state = "kIdle" \/ ("DataEnable" = "DataEnable" /\ q = p)
  BY <1>6
<1>8. s.op \in Single \ {"SetPortDirection", "DataEnable"}
  BY <1>3 DEF Single
<1>9. Programmed' /\ Calling' /\ (\A o, q : At(o, q)' <=> o = s.op /\ q = p)
  BY <1>2, <1>3, <1>4, <1>7, <1>8, AdvanceTo
<1>10. Doing(p)' /\ Sending(p)' /\ Stopped(p)'
  BY <1>1, <1>2, <1>3, <1>5, <1>6, <1>9 DEF Doing, Sending, Stopped
<1>11. \A q \in Ports \ {p} : \A o \in Busy : ~At(o, q)'
  BY <1>3, <1>9
<1> QED
  BY <1>2, <1>6, <1>9, <1>10, <1>11, OtherPorts

LEMMA Joined ==
  ASSUME NEW s \in Step, NEW t \in Step, NEW u \in Step
  PROVE  /\ << s, t >> \o << >> = << s, t >> /\ << s >> \o << >> = << s >>
         /\ << s, t >> \o << u >> = << s, t, u >> /\ << >> \o << u >> = << u >>
<1>1. << s, t >> \o << >> = << s, t >>
  OBVIOUS
<1>2. << s >> \o << >> = << s >>
  OBVIOUS
<1>3. << >> \o << u >> = << u >>
  OBVIOUS
<1>4. << s, t >> \o << u >> = << s, t, u >>
  <2>1. << s, t >> \in Seq(Step) /\ << u >> \in Seq(Step) /\ << s, t, u >> \in Seq(Step)
    OBVIOUS
  <2>2. Len(<< s, t >> \o << u >>) = Len(<< s, t, u >>)
    OBVIOUS
  <2>3. \A i \in 1 .. 3 : (<< s, t >> \o << u >>)[i] = << s, t, u >>[i]
    OBVIOUS
  <2>4. << s, t >> \o << u >> \in Seq(Step) /\ Len(<< s, t, u >>) = 3
    OBVIOUS
  <2> QED
    BY <2>1, <2>2, <2>3, <2>4, SeqEqual
<1> QED
  BY <1>1, <1>2, <1>3, <1>4

\* The direction is an output's, here; what follows of it is the disabling of a
\* started port, or the enabling of one that is not.
LEMMA NodeDirection ==
  ASSUME NodeInv, NEW p \in Ports, started' = started, SetPortDirectionStep(p)
  PROVE  Programmed' /\ Calling' /\ PortsInv'
<1>1. port \in [Ports -> Port] /\ port[p] \in Port /\ Sending(p) /\ Stopped(p)
  BY NodePort
<1> DEFINE s == S("DataDisable", p)
           t == SX("SetPin", p, "kOutput")
           u == S("DataEnable", p)
<1>2. /\ s \in Step /\ s.op = "DataDisable" /\ s.p = p
      /\ t \in Step /\ t.op = "SetPin" /\ t.p = p
      /\ u \in Step /\ u.op = "DataEnable" /\ u.p = p
  <2>1. s \in Step /\ u \in Step
    BY PlainStep DEF PlainOps
  <2>2. t \in Step
    BY DirectionStep DEF DirectionOps, Directions
  <2> QED
    BY <2>1, <2>2 DEF S, SX
<1>3. \/ /\ At("SetPortDirection", p)
         /\ Goto(<< s, t >>) \/ Goto(<< s >>)
      \/ /\ At("SetPortDirectionEnable", p)
         /\ Goto(<< s, t, u >>) \/ (port[p].direction = "kOutput" /\ Goto(<< u >>))
  <2>1. PICK enable \in BOOLEAN :
          /\ At(IF enable THEN "SetPortDirectionEnable" ELSE "SetPortDirection", p)
          /\ Goto((IF port[p].direction # Head(todo).x
                     THEN << S("DataDisable", p), SX("SetPin", p, Head(todo).x) >>
                     ELSE IF enable THEN << >> ELSE << S("DataDisable", p) >>)
                  \o (IF enable THEN << S("DataEnable", p) >> ELSE << >>))
    BY DEF SetPortDirectionStep
  <2>2. Head(todo).x = "kOutput"
    BY <2>1, NodeHead
  <2>3. CASE enable
    <3>1. At("SetPortDirectionEnable", p)
      BY <2>1, <2>3
    <3>2. CASE port[p].direction # "kOutput"
      <4>1. Goto(<< s, t >> \o << u >>)
        BY <2>1, <2>2, <2>3, <3>2
      <4> HIDE DEF s, t, u
      <4> QED
        BY <1>2, <3>1, <4>1, Joined
    <3>3. CASE port[p].direction = "kOutput"
      <4>1. Goto(<< >> \o << u >>)
        BY <2>1, <2>2, <2>3, <3>3
      <4> HIDE DEF s, t, u
      <4> QED
        BY <1>2, <3>1, <3>3, <4>1, Joined
    <3> QED
      BY <3>2, <3>3
  <2>4. CASE ~enable
    <3>1. At("SetPortDirection", p)
      BY <2>1, <2>4
    <3>2. CASE port[p].direction # "kOutput"
      <4>1. Goto(<< s, t >> \o << >>)
        BY <2>1, <2>2, <2>4, <3>2
      <4> HIDE DEF s, t, u
      <4> QED
        BY <1>2, <3>1, <4>1, Joined
    <3>3. CASE port[p].direction = "kOutput"
      <4>1. Goto(<< s >> \o << >>)
        BY <2>1, <2>2, <2>4, <3>3
      <4> HIDE DEF s, t, u
      <4> QED
        BY <1>2, <3>1, <4>1, Joined
    <3> QED
      BY <3>2, <3>3
  <2> QED
    BY <2>3, <2>4
<1>4. port' = [port EXCEPT ![p].direction = "kOutput"]
  <2>1. At("SetPortDirection", p) \/ At("SetPortDirectionEnable", p)
    BY <1>3
  <2>2. Head(todo).x = "kOutput"
    BY <2>1, NodeHead
  <2> QED
    BY <2>2 DEF SetPortDirectionStep
<1> HIDE DEF s, t, u
<1>5. /\ port'[p].direction = "kOutput" /\ port'[p].state = port[p].state
      /\ port'[p].style = port[p].style /\ port'[p].dmx = port[p].dmx
      /\ port'[p].rdm = port[p].rdm /\ port'[p].txPin = port[p].txPin
      /\ port'[p].dma = port[p].dma /\ port'[p].shift = port[p].shift
      /\ port'[p].tc = port[p].tc
      /\ \A q \in Ports \ {p} : port'[q] = port[q]
  BY <1>1, <1>4 DEF Port
<1>6. CASE At("SetPortDirection", p) /\ (Goto(<< s, t >>) \/ Goto(<< s >>))
  <2>1. \E steps \in Seq(Step) :
          /\ Goto(steps) /\ steps[1] = s
          /\ Len(steps) = 1 \/ (Len(steps) = 2 /\ steps[2] = t)
    <3>1. /\ << s, t >> \in Seq(Step) /\ Len(<< s, t >>) = 2
          /\ << s, t >>[1] = s /\ << s, t >>[2] = t
          /\ << s >> \in Seq(Step) /\ Len(<< s >>) = 1 /\ << s >>[1] = s
      BY <1>2, Lengths
    <3>2. CASE Goto(<< s, t >>)
      <4> USE <3>1
      <4> WITNESS << s, t >> \in Seq(Step)
      <4> QED
        BY <3>1, <3>2
    <3>3. CASE Goto(<< s >>)
      <4> USE <3>1
      <4> WITNESS << s >> \in Seq(Step)
      <4> QED
        BY <3>1, <3>3
    <3> QED
      BY <1>6, <3>2, <3>3
  <2>10. PICK steps \in Seq(Step) :
          /\ Goto(steps) /\ steps[1] = s
          /\ Len(steps) = 1 \/ (Len(steps) = 2 /\ steps[2] = t)
    BY <2>1
  <2>2. Programmed' /\ Calling' /\ (\A o, q : At(o, q)' <=> o = "DataDisable" /\ q = p)
    BY <1>2, <1>6, <2>10, ExpandDisable
  <2>3. ~At("ArmBreak", p) /\ ~At("WaitIdle", p)
    BY <1>6 DEF At
  <2>4. Doing(p)' /\ Sending(p)' /\ Stopped(p)'
    BY <1>1, <1>5, <2>2, <2>3 DEF Doing, Sending, Stopped
  <2>5. \A q \in Ports \ {p} : \A o \in Busy : ~At(o, q)'
    BY <2>2
  <2> QED
    BY <1>5, <1>6, <2>2, <2>4, <2>5, OtherPorts
<1>7. CASE /\ At("SetPortDirectionEnable", p)
           /\ Goto(<< s, t, u >>) \/ (port[p].direction = "kOutput" /\ Goto(<< u >>))
  <2>1. p \in started /\ port[p].state = "kIdle"
    BY <1>7, NodeHead
  <2>10. \E steps \in Seq(Step) :
          /\ Goto(steps)
          /\ \/ Len(steps) = 1 /\ steps[1] = u
             \/ Len(steps) = 3 /\ steps[1] = s /\ steps[2] = t /\ steps[3] = u
    <3>1. /\ << s, t, u >> \in Seq(Step) /\ Len(<< s, t, u >>) = 3
          /\ << s, t, u >>[1] = s /\ << s, t, u >>[2] = t /\ << s, t, u >>[3] = u
          /\ << u >> \in Seq(Step) /\ Len(<< u >>) = 1 /\ << u >>[1] = u
      BY <1>2, Lengths
    <3>2. CASE Goto(<< s, t, u >>)
      <4> USE <3>1
      <4> WITNESS << s, t, u >> \in Seq(Step)
      <4> QED
        BY <3>1, <3>2
    <3>3. CASE Goto(<< u >>)
      <4> USE <3>1
      <4> WITNESS << u >> \in Seq(Step)
      <4> QED
        BY <3>1, <3>3
    <3> QED
      BY <1>7, <3>2, <3>3
  <2>2. PICK steps \in Seq(Step) :
          /\ Goto(steps)
          /\ \/ Len(steps) = 1 /\ steps[1] = u
             \/ Len(steps) = 3 /\ steps[1] = s /\ steps[2] = t /\ steps[3] = u
    BY <2>10
  <2>3. /\ \A q \in Ports : port'[q].direction = port[q].direction
                            \/ ("SetPortDirectionEnable" = "SetPortDirectionEnable" /\ q = p)
        /\ \A q \in Ports : port'[q].state = port[q].state
    BY <1>5
  <2>4. \/ /\ Len(steps) = 1 /\ steps[1].p = p
           /\ steps[1].op = "DataEnable" /\ port'[p].state = "kIdle"
        \/ /\ Len(steps) = 3 /\ steps[1].p = p /\ steps[2].p = p /\ steps[3].p = p
           /\ steps[1].op = "DataDisable" /\ steps[2].op \in {"SetPin", "ClearData"}
           /\ steps[3].op = "DataEnable"
    BY <1>2, <1>5, <2>1, <2>2
  <2>5. Programmed' /\ Calling' /\ (\A o, q : At(o, q)' <=> o = steps[1].op /\ q = p)
    BY <1>5, <1>7, <2>1, <2>2, <2>3, <2>4, Expand
  <2>6. steps[1].op = "DataDisable" \/ steps[1].op = "DataEnable"
    BY <2>4
  <2>7. ~At("ArmBreak", p) /\ ~At("WaitIdle", p) /\ ~At("SetPortDirection", p) /\ ~At("DataDisable", p)
    BY <1>7 DEF At
  <2>8. Doing(p)' /\ Sending(p)' /\ Stopped(p)'
    BY <1>1, <1>5, <2>5, <2>6, <2>7 DEF Doing, Sending, Stopped
  <2>9. \A q \in Ports \ {p} : \A o \in Busy : ~At(o, q)'
    BY <2>5
  <2> QED
    BY <1>5, <1>7, <2>5, <2>8, <2>9, OtherPorts
<1> QED
  BY <1>3, <1>6, <1>7

LEMMA NodeBlackout ==
  ASSUME NodeInv, NEW p \in Ports, started' = started, BlackoutStep(p)
  PROVE  Programmed' /\ Calling' /\ PortsInv'
<1>1. port \in [Ports -> Port] /\ port[p] \in Port /\ Sending(p) /\ Stopped(p)
  BY NodePort
<1> DEFINE s == S("DataDisable", p)
           t == S("ClearData", p)
           u == S("DataEnable", p)
<1>2. /\ s \in Step /\ s.op = "DataDisable" /\ s.p = p
      /\ t \in Step /\ t.op = "ClearData" /\ t.p = p
      /\ u \in Step /\ u.op = "DataEnable" /\ u.p = p
  BY PlainStep DEF PlainOps, S
<1>3. At("Blackout", p) /\ port' = port
      /\ (Goto(<< >>) \/ (port[p].direction = "kOutput" /\ Goto(<< s, t, u >>)))
  BY DEF BlackoutStep
<1> HIDE DEF s, t, u
<1>4. CASE Goto(<< >>)
  BY <1>3, <1>4, QuietDone DEF Busy, Alike
<1>5. CASE port[p].direction = "kOutput" /\ Goto(<< s, t, u >>)
  <2>1. p \in started
    BY <1>3, <1>5, NodeHead
  <2> DEFINE steps == << s, t, u >>
  <2>2. /\ steps \in Seq(Step) /\ Goto(steps)
        /\ Len(steps) = 3 /\ steps[1] = s /\ steps[2] = t /\ steps[3] = u
    BY <1>2, <1>5, Lengths
  <2> HIDE DEF steps
  <2>3. /\ \A q \in Ports : port'[q].direction = port[q].direction
                            \/ ("Blackout" = "SetPortDirectionEnable" /\ q = p)
        /\ \A q \in Ports : port'[q].state = port[q].state
        /\ port'[p].direction = "kOutput"
    BY <1>3, <1>5
  <2>4. \/ /\ Len(steps) = 1 /\ steps[1].p = p
           /\ steps[1].op = "DataEnable" /\ port'[p].state = "kIdle"
        \/ /\ Len(steps) = 3 /\ steps[1].p = p /\ steps[2].p = p /\ steps[3].p = p
           /\ steps[1].op = "DataDisable" /\ steps[2].op \in {"SetPin", "ClearData"}
           /\ steps[3].op = "DataEnable"
    BY <1>2, <2>2
  <2>5. Programmed' /\ Calling' /\ (\A o, q : At(o, q)' <=> o = steps[1].op /\ q = p)
    BY <1>3, <2>1, <2>2, <2>3, <2>4, Expand
  <2>7. ~At("ArmBreak", p) /\ ~At("WaitIdle", p) /\ ~At("SetPortDirection", p) /\ ~At("DataDisable", p)
    BY <1>3 DEF At
  <2>8. Doing(p)' /\ Sending(p)' /\ Stopped(p)'
    BY <1>1, <1>2, <1>3, <1>5, <2>2, <2>5, <2>7 DEF Doing, Sending, Stopped
  <2>9. \A q \in Ports \ {p} : \A o \in Busy : ~At(o, q)'
    BY <2>5
  <2> QED
    BY <1>3, <2>5, <2>8, <2>9, OtherPorts
<1> QED
  BY <1>3, <1>4, <1>5

\* The steps of the other calls of the driver do not occur.
LEMMA NodeMain ==
  ASSUME NodeInv, NEW p \in Ports, started' = started, MainStep(p)
  PROVE  Programmed' /\ Calling' /\ PortsInv'
<1>1. \A op \in {"RxOff", "WaitTc", "ForceIdle", "ConstantDisable", "ConstantStart",
                 "StartRdmOutput", "ArmRdmBreak", "SendDiscovery", "WaitDiscovery"} : ~At(op, p)
  BY NodeHead DEF Waiting, Single
<1>2. ~(RxOffStep(p) \/ WaitTcStep(p) \/ ForceIdleStep(p) \/ ConstantLoopStep(p)
         \/ StartRdmOutputStep(p) \/ ArmRdmBreakStep(p) \/ SendDiscoveryStep(p)
         \/ WaitDiscoveryStep(p))
  BY <1>1 DEF RxOffStep, WaitTcStep, ForceIdleStep, ConstantLoopStep, StartRdmOutputStep,
              ArmRdmBreakStep, SendDiscoveryStep, WaitDiscoveryStep
<1> QED
  BY <1>2, NodeSets, NodeData, NodeTrigger, NodeBreak, NodeDisable, NodeEnable,
     NodeDirection, NodeBlackout DEF MainStep

-----------------------------------------------------------------------------
(***************************************************************************)
(* The interrupts, the calls of the node and the invariant                 *)
(***************************************************************************)
\* Interrupts and the network leave what is to be done as it is.
LEMMA Unmoved ==
  ASSUME NodeInv, todo' = todo, started' = started,
         \A q \in Ports : /\ port'[q].direction = port[q].direction
                          /\ port'[q].state = port[q].state
  PROVE  Programmed' /\ Calling'
<1>1. todo \in Seq(Step) /\ Calling
  BY DEF NodeInv, IInv, TypeOK
<1>2. \A i \in 1 .. Len(todo) : todo[i].p \in Ports
  BY <1>1, StepPort
<1>3. PICK k \in 0 .. 3 : Shape(k) /\ Enabling(k)
  BY DEF NodeInv, Programmed
<1>4. Shape(k)'
  BY <1>3 DEF Shape
<1>5. Enabling(k)'
  <2>1. CASE k = 0
    BY <2>1 DEF Enabling
  <2>2. CASE k # 0
    <3>1. todo[1].p \in Ports
      BY <1>1, <1>2, <1>3, <2>2 DEF Shape
    <3> QED
      BY <1>3, <3>1 DEF Enabling
  <2> QED
    BY <2>1, <2>2
<1>6. \A i \in 1 .. Len(todo) : Argument(i)'
  BY <1>1, <1>2 DEF Calling, Argument
<1>7. \A i, j \in 1 .. Len(todo) : Apart(i, j)'
  BY <1>1 DEF Calling, Apart
<1> QED
  BY <1>3, <1>4, <1>5, <1>6, <1>7 DEF Programmed, Calling

\* In triggered output the timer runs a break and a mark after it, and the DMA
\* interrupt ends the packet.
LEMMA NodeIrq ==
  ASSUME NodeInv, NEW p \in Ports, started' = started, Irq(p)
  PROVE  Programmed' /\ Calling' /\ PortsInv'
<1>1. port \in [Ports -> Port] /\ port[p] \in Port /\ Doing(p) /\ Sending(p) /\ Stopped(p)
  BY NodePort
<1>2. todo' = todo /\ \A o, q : At(o, q)' <=> At(o, q)
  BY DEF Irq, TimerIrq, DmaIrq, Shifted, At
<1>3. port[p].rdm = "kIdle" /\ port[p].style = "kDelta" /\ port[p].dmx # "kDmxInter"
  BY <1>1 DEF Sending
<1>4. /\ port'[p].direction = port[p].direction /\ port'[p].state = port[p].state
      /\ port'[p].style = port[p].style /\ port'[p].rdm = port[p].rdm
      /\ \A q \in Ports \ {p} : port'[q] = port[q]
      /\ \/ /\ port[p].dmx = "kDmxBreak" /\ port'[p].dmx = "kDmxMab" /\ port'[p].txPin = "af"
            /\ port'[p].dma = port[p].dma /\ port'[p].shift = port[p].shift
            /\ port'[p].tc = port[p].tc
         \/ /\ port[p].dmx = "kDmxMab" /\ port'[p].dmx = "kDmxMab"
            /\ port'[p].txPin = port[p].txPin
            /\ port'[p].dma = "dmx" /\ port'[p].shift = TRUE /\ port'[p].tc = FALSE
         \/ /\ port'[p].dmx = port[p].dmx /\ port'[p].txPin = port[p].txPin
            /\ port'[p].dma = port[p].dma /\ port'[p].shift = port[p].shift
            /\ port'[p].tc = port[p].tc
         \/ /\ port[p].dma # "none" /\ port'[p].dma = "none"
            /\ port'[p].dmx = "kIdle"
            /\ port'[p].txPin = port[p].txPin
            /\ port'[p].shift = port[p].shift /\ port'[p].tc = port[p].tc
         \/ /\ port'[p].dmx = port[p].dmx /\ port'[p].txPin = port[p].txPin
            /\ port[p].dma = "none" /\ port'[p].dma = "none"
            /\ port'[p].shift = FALSE
  <2>1. CASE TimerIrq(p)
    BY <1>1, <1>3, <2>1 DEF TimerIrq, DmxTimer, RdmTimer, StartDma, Port
  <2>2. CASE DmaIrq(p)
    BY <1>1, <1>3, <2>2 DEF DmaIrq, Port
  <2>3. CASE Shifted(p)
    BY <1>1, <1>3, <2>3 DEF Shifted, Port
  <2> QED
    BY <2>1, <2>2, <2>3 DEF Irq
<1>5. Programmed' /\ Calling'
  <2>1. \A q \in Ports : /\ port'[q].direction = port[q].direction
                         /\ port'[q].state = port[q].state
    BY <1>4
  <2> QED
    BY <1>2, <2>1, Unmoved
<1>6. Doing(p)'
  BY <1>1, <1>2, <1>3, <1>4 DEF Doing, Sending
<1>7. Sending(p)'
  <2>1. port[p].txPin \in {"af", "low"}
    BY <1>1 DEF Port
  <2> QED
    BY <1>1, <1>2, <1>3, <1>4, <2>1 DEF Doing, Sending
<1>8. Stopped(p)'
  BY <1>1, <1>2, <1>3, <1>4 DEF Stopped, Sending
<1>9. ASSUME NEW q \in Ports \ {p}  PROVE Doing(q)' /\ Sending(q)' /\ Stopped(q)'
  <2>1. port'[q] = port[q] /\ Doing(q) /\ Sending(q) /\ Stopped(q)
    BY <1>4, NodePort
  <2> QED
    BY <1>2, <2>1 DEF Doing, Sending, Stopped
<1> QED
  BY <1>5, <1>6, <1>7, <1>8, <1>9 DEF PortsInv

\* A call finds every port between two packets or with a packet under way that
\* needs no step of the main loop.
LEMMA CallPorts ==
  ASSUME NodeInv, NEW steps \in Seq(Step), Call(steps),
         \A q \in Ports, op \in Busy \ {"SetPortDirection"} : ~At(op, q)',
         \A q \in started : q \in started' \/ At("SetPortDirection", q)'
  PROVE  PortsInv'
<1> SUFFICES ASSUME NEW q \in Ports  PROVE Doing(q)' /\ Sending(q)' /\ Stopped(q)'
  BY DEF PortsInv
<1>1. port'[q] = port[q] /\ todo = << >> /\ Sending(q) /\ Stopped(q)
  BY NodePort DEF Call
<1>2. \A op : ~At(op, q)
  BY <1>1 DEF At
<1>3. \A op \in {"DataDisable", "WaitIdle", "StartDmxOutput", "DriveBreak", "ArmBreak"} :
        ~At(op, q)'
  BY DEF Busy
<1> QED
  BY <1>1, <1>2, <1>3 DEF Doing, Sending, Stopped

LEMMA CallOne ==
  ASSUME NodeInv, NEW s \in Step, Call(<< s >>),
         s.op \in {"SetPortDirection", "SetPortDirectionEnable", "SetSendData", "SetOutputStyle"},
         s.op \in {"SetPortDirection", "SetPortDirectionEnable"} => s.x = "kOutput",
         s.op = "SetOutputStyle" => s.x = "kDelta",
         s.op = "SetPortDirectionEnable" => s.p \in started' /\ port[s.p].state = "kIdle",
         \A q \in started : q \in started' \/ (s.op = "SetPortDirection" /\ q = s.p)
  PROVE  Programmed' /\ Calling' /\ PortsInv'
<1> DEFINE steps == << s >>
<1>1. steps \in Seq(Step) /\ Len(steps) = 1 /\ steps[1] = s /\ Call(steps)
  BY Lengths
<1> HIDE DEF steps
<1>2. todo' \in Seq(Step) /\ Len(todo') = 1 /\ todo'[1] = s /\ port' = port
  BY <1>1 DEF Call
<1>3. \A o, q : At(o, q)' <=> o = s.op /\ q = s.p
  BY <1>2, AtHeadNext
<1>4. PortsInv'
  <2>1. \A q \in Ports, op \in Busy \ {"SetPortDirection"} : ~At(op, q)'
    BY <1>3 DEF Busy
  <2>2. \A q \in started : q \in started' \/ At("SetPortDirection", q)'
    BY <1>3
  <2> QED
    BY <1>1, <2>1, <2>2, CallPorts
<1>5. \A i \in 1 .. Len(todo') : i = 1
  BY <1>2
<1>6. Calling'
  BY <1>2, <1>5 DEF Calling, Argument, Apart
<1>7. CASE s.op = "SetPortDirectionEnable"
  <2>1. Shape(0)' /\ Enabling(0)'
    BY <1>2, <1>5, <1>7 DEF Shape, Enabling, Waiting
  <2> QED
    BY <1>4, <1>6, <2>1 DEF Programmed
<1>8. CASE s.op # "SetPortDirectionEnable"
  <2>1. Shape(1)' /\ Enabling(1)'
    BY <1>2, <1>8 DEF Shape, Enabling, Single
  <2> QED
    BY <1>4, <1>6, <2>1 DEF Programmed
<1> QED
  BY <1>7, <1>8

\* Start, Stop, SetData, SyncPort, SetStyle: one call of the driver.
LEMMA NodeCallOne ==
  ASSUME Triggered, NodeInv, NEW p \in Ports,
         Start(p) \/ Stop(p) \/ SetData(p) \/ SyncPort(p) \/ SetStyle(p)
  PROVE  NodeInv'
<1>1. /\ port \in [Ports -> Port] /\ port[p] \in Port /\ Stopped(p)
      /\ IInv /\ started \subseteq Ports /\ hasData \subseteq Ports
  BY NodePort DEF NodeInv
<1>2. SUFFICES ASSUME NEW s \in Step, Call(<< s >>), s.p = p,
         s.op \in {"SetPortDirection", "SetPortDirectionEnable", "SetSendData", "SetOutputStyle"},
         s.op \in {"SetPortDirection", "SetPortDirectionEnable"} => s.x = "kOutput",
         s.op = "SetOutputStyle" => s.x = "kDelta",
         s.op = "SetPortDirectionEnable" => p \notin started /\ p \in started',
         \A q \in started : q \in started' \/ (s.op = "SetPortDirection" /\ q = p),
         started' \subseteq Ports, hasData' \subseteq Ports
               PROVE  NodeInv'
  <2>1. CASE Start(p)
    <3> DEFINE s == SX("SetPortDirectionEnable", p, "kOutput")
    <3>1. s \in Step /\ s.op = "SetPortDirectionEnable" /\ s.p = p /\ s.x = "kOutput"
      BY DEF SX, Step, DirectionOps, Directions
    <3>2. Call(<< s >>) /\ started' = started \cup {p} /\ hasData' = hasData /\ p \notin started
      BY <2>1 DEF Start, SetPortDirection
    <3> HIDE DEF s
    <3> QED
      BY <1>1, <1>2, <3>1, <3>2
  <2>2. CASE Stop(p)
    <3> DEFINE s == SX("SetPortDirection", p, "kOutput")
    <3>1. s \in Step /\ s.op = "SetPortDirection" /\ s.p = p /\ s.x = "kOutput"
      BY DEF SX, Step, DirectionOps, Directions
    <3>2. Call(<< s >>) /\ started' = started \ {p} /\ hasData' = hasData
      BY <2>2 DEF Stop, SetPortDirection
    <3> HIDE DEF s
    <3> QED
      BY <1>1, <1>2, <3>1, <3>2
  <2>3. CASE SetData(p) \/ SyncPort(p)
    <3>1. PICK style \in SendStyles : Call(SetTransmitData(p, style))
      BY <2>3 DEF SetData, SyncPort, SendStyles
    <3> DEFINE s == SX("SetSendData", p, style)
    <3>2. s \in Step /\ s.op = "SetSendData" /\ s.p = p
      BY DEF SX, Step, DataOps
    <3>3. Call(<< s >>) /\ started' = started /\ hasData' = hasData
      BY <2>3, <3>1 DEF SetData, SyncPort, SetTransmitData
    <3> HIDE DEF s
    <3> QED
      BY <1>1, <1>2, <3>2, <3>3
  <2>4. CASE SetStyle(p)
    <3> DEFINE s == SX("SetOutputStyle", p, "kDelta")
    <3>1. s \in Step /\ s.op = "SetOutputStyle" /\ s.p = p /\ s.x = "kDelta"
      BY DEF SX, Step, OutputStyles
    <3>2. Call(<< s >>) /\ started' = started /\ hasData' = hasData
      BY <2>4 DEF SetStyle, SetOutputStyle, Triggered
    <3> HIDE DEF s
    <3> QED
      BY <1>1, <1>2, <3>1, <3>2
  <2> QED
    BY <2>1, <2>2, <2>3, <2>4
<1>3. s.op = "SetPortDirectionEnable" => s.p \in started' /\ port[s.p].state = "kIdle"
  <2> SUFFICES ASSUME s.op = "SetPortDirectionEnable"  PROVE p \in started' /\ port[p].state = "kIdle"
    BY <1>2
  <2>1. \A op : ~At(op, p)
    BY <1>2 DEF Call, At
  <2> QED
    BY <1>1, <1>2, <2>1 DEF Stopped, Port, PortStates
<1>4. Programmed' /\ Calling' /\ PortsInv'
  BY <1>2, <1>3, CallOne
<1>5. IInv'
  <2>1. << s >> \in Seq(Step)
    BY Lengths
  <2> QED
    BY <1>1, <1>2, <2>1, CallInv
<1> QED
  BY <1>2, <1>4, <1>5 DEF NodeInv

LEMMA StartTypes ==
  ASSUME NEW ports, ports \subseteq Ports, NEW f \in Ascending(ports)
  PROVE  /\ StartSteps(f) \in Seq(Step) /\ Len(StartSteps(f)) \in Nat
         /\ \A i \in 1 .. Len(StartSteps(f)) :
              /\ StartSteps(f)[i].op = "SetPortDirectionEnable"
              /\ StartSteps(f)[i].p \in ports /\ StartSteps(f)[i].x = "kOutput"
         /\ \A i, j \in 1 .. Len(StartSteps(f)) :
              i # j => StartSteps(f)[i].p # StartSteps(f)[j].p
<1>1. N \in Nat \ {0}
  BY ParametersAssumption
<1>2. IsFiniteSet(Ports) /\ Ports \subseteq Nat
  BY <1>1, FS_Interval DEF Ports
<1>3. Cardinality(ports) \in Nat
  BY <1>2, FS_Subset, FS_CardinalityType
<1> DEFINE n == Cardinality(ports)
           starts == StartSteps(f)
<1>4. n \in Nat /\ f \in [1 .. n -> ports] /\ \A i, j \in 1 .. n : i < j => f[i] < f[j]
  BY <1>3 DEF Ascending
<1> HIDE DEF n
<1>5. \A i \in 1 .. n : f[i] \in ports /\ f[i] \in Ports /\ f[i] \in Nat
  BY <1>2, <1>4
<1>6. DOMAIN starts = 1 .. n /\ \A i \in 1 .. n : starts[i] = SX("SetPortDirectionEnable", f[i], "kOutput")
  BY <1>4 DEF StartSteps
<1>7. \A i \in 1 .. n : SX("SetPortDirectionEnable", f[i], "kOutput") \in Step
  BY <1>5, DirectionStep DEF DirectionOps, Directions
<1>8. starts \in [1 .. n -> Step]
  BY <1>4, <1>7 DEF StartSteps
<1> HIDE DEF starts
<1>9. starts \in Seq(Step) /\ Len(starts) = n
  BY <1>4, <1>8
<1>10. \A i, j \in 1 .. n : i # j => f[i] # f[j]
  <2> SUFFICES ASSUME NEW i \in 1 .. n, NEW j \in 1 .. n, i # j  PROVE f[i] # f[j]
    OBVIOUS
  <2>1. i < j \/ j < i
    BY <1>4
  <2> QED
    BY <1>4, <1>5, <2>1
<1>11. \A i \in 1 .. n : /\ starts[i].op = "SetPortDirectionEnable" /\ starts[i].p = f[i]
                         /\ starts[i].x = "kOutput"
  BY <1>6 DEF SX
<1>12. /\ starts \in Seq(Step) /\ Len(starts) \in Nat
       /\ \A i \in 1 .. Len(starts) : /\ starts[i].op = "SetPortDirectionEnable"
                                      /\ starts[i].p \in ports /\ starts[i].x = "kOutput"
       /\ \A i, j \in 1 .. Len(starts) : i # j => starts[i].p # starts[j].p
  BY <1>4, <1>5, <1>9, <1>10, <1>11
<1> QED
  BY <1>12 DEF starts

LEMMA EachPort ==
  ASSUME NEW op \in PlainOps
  PROVE  /\ ForEachPort(op) \in Seq(Step) /\ Len(ForEachPort(op)) = N /\ N \in Nat
         /\ \A i \in 1 .. N : ForEachPort(op)[i].op = op /\ ForEachPort(op)[i].p = i - 1
<1>1. N \in Nat
  BY ParametersAssumption
<1>2. ForEachPort(op) \in Seq(Step)
  BY ForEachPortType
<1>3. DOMAIN ForEachPort(op) = 1 .. N
  BY DEF ForEachPort
<1>4. Len(ForEachPort(op)) = N
  <2> DEFINE each == ForEachPort(op)
  <2>1. each \in Seq(Step) /\ DOMAIN each = 1 .. N
    BY <1>2, <1>3
  <2> HIDE DEF each
  <2>2. Len(each) \in Nat /\ DOMAIN each = 1 .. Len(each)
    BY <2>1
  <2>3. Len(each) = N
    BY <1>1, <2>1, <2>2
  <2> QED
    BY <2>3 DEF each
<1>5. \A i \in 1 .. N : ForEachPort(op)[i].op = op /\ ForEachPort(op)[i].p = i - 1
  BY DEF ForEachPort, S
<1> QED
  BY <1>1, <1>2, <1>4, <1>5

\* Sync: a step for every port, then the starts of ports that are not started.
LEMMA NodeSync ==
  ASSUME NodeInv, SyncAll
  PROVE  NodeInv'
<1>1. /\ port \in [Ports -> Port] /\ IInv /\ started \subseteq Ports /\ hasData \subseteq Ports
  BY DEF NodeInv, IInv, TypeOK
<1>2. PICK f \in Ascending(hasData \ started) : Call(Sync \o StartSteps(f))
  BY DEF SyncAll
<1>3. started' = started \cup hasData /\ hasData' = {}
  BY DEF SyncAll
<1> DEFINE each == Sync
           starts == StartSteps(f)
           steps == each \o starts
<1>4. /\ each \in Seq(Step) /\ Len(each) \in Nat
      /\ \A i \in 1 .. Len(each) : each[i].op = "SyncPort"
  BY EachPort DEF Sync, PlainOps
<1>5. /\ starts \in Seq(Step) /\ Len(starts) \in Nat
      /\ \A i \in 1 .. Len(starts) : /\ starts[i].op = "SetPortDirectionEnable"
                                     /\ starts[i].p \in hasData \ started
                                     /\ starts[i].x = "kOutput"
      /\ \A i, j \in 1 .. Len(starts) : i # j => starts[i].p # starts[j].p
  BY <1>1, StartTypes
<1> HIDE DEF each, starts
<1>6. /\ steps \in Seq(Step) /\ Len(steps) = Len(each) + Len(starts)
      /\ \A i \in 1 .. Len(each) : steps[i] = each[i]
      /\ \A i \in (Len(each) + 1) .. Len(steps) : steps[i] = starts[i - Len(each)]
  BY <1>4, <1>5
<1>7. Call(steps)
  BY <1>2 DEF each, starts
<1> HIDE DEF steps
<1>8. todo' = steps /\ todo = << >> /\ port' = port
  BY <1>7 DEF Call
<1>9. ASSUME NEW i \in 1 .. Len(steps)
      PROVE  \/ steps[i].op = "SyncPort"
             \/ /\ steps[i].op = "SetPortDirectionEnable" /\ steps[i].x = "kOutput"
                /\ steps[i].p \in hasData \ started
                /\ i - Len(each) \in 1 .. Len(starts) /\ steps[i] = starts[i - Len(each)]
  <2>1. CASE i <= Len(each)
    <3>1. i \in 1 .. Len(each)
      BY <1>4, <2>1
    <3> QED
      BY <1>4, <1>6, <3>1
  <2>2. CASE i > Len(each)
    <3>1. i \in (Len(each) + 1) .. Len(steps) /\ i - Len(each) \in 1 .. Len(starts)
      BY <1>4, <1>5, <1>6, <2>2
    <3> QED
      BY <1>5, <1>6, <3>1
  <2> QED
    BY <1>4, <2>1, <2>2
<1>10. \A q \in hasData \ started : port[q].state = "kIdle"
  <2> SUFFICES ASSUME NEW q \in hasData \ started  PROVE port[q].state = "kIdle"
    OBVIOUS
  <2>1. q \in Ports /\ port[q] \in Port /\ Stopped(q)
    BY <1>1, NodePort
  <2>2. \A op : ~At(op, q)
    BY <1>8 DEF At
  <2> QED
    BY <2>1, <2>2 DEF Stopped, Port, PortStates
<1>11. Programmed'
  <2>1. \A i \in 1 .. Len(steps) : steps[i].op \in Waiting
    BY <1>9 DEF Waiting
  <2>2. Len(steps) \in Nat
    BY <1>6
  <2>3. Shape(0)' /\ Enabling(0)'
    BY <1>8, <2>1, <2>2 DEF Shape, Enabling
  <2> QED
    BY <2>3 DEF Programmed
<1>12. Calling'
  <2>1. ASSUME NEW i \in 1 .. Len(steps)  PROVE Argument(i)'
    BY <1>3, <1>8, <1>9, <1>10 DEF Argument
  <2>2. ASSUME NEW i \in 1 .. Len(steps), NEW j \in 1 .. Len(steps)  PROVE Apart(i, j)'
    <3>1. steps[j].op # "Blackout"
      BY <1>9
    <3>2. ASSUME steps[i].op = "SetPortDirectionEnable", steps[j].op = "SetPortDirectionEnable",
                 i # j
          PROVE  steps[i].p # steps[j].p
      <4>1. /\ i - Len(each) \in 1 .. Len(starts) /\ steps[i] = starts[i - Len(each)]
            /\ j - Len(each) \in 1 .. Len(starts) /\ steps[j] = starts[j - Len(each)]
        BY <1>9, <3>2
      <4>2. i - Len(each) # j - Len(each)
        BY <1>4, <3>2
      <4> QED
        BY <1>5, <4>1, <4>2
    <3> QED
      BY <1>8, <3>1, <3>2 DEF Apart
  <2> QED
    BY <1>8, <2>1, <2>2 DEF Calling
<1>13. PortsInv'
  <2>1. \A q \in Ports, op \in Busy \ {"SetPortDirection"} : ~At(op, q)'
    <3>1. todo' \in Seq(Step) /\ (Len(todo') # 0 => 1 \in 1 .. Len(todo'))
      BY <1>6, <1>8
    <3> QED
      BY <1>8, <1>9, <3>1, AtHeadNext DEF Busy
  <2>2. \A q \in started : q \in started' \/ At("SetPortDirection", q)'
    BY <1>3
  <2> QED
    BY <1>6, <1>7, <2>1, <2>2, CallPorts
<1>14. IInv'
  BY <1>1, <1>6, <1>7, CallInv
<1> QED
  BY <1>1, <1>3, <1>11, <1>12, <1>13, <1>14 DEF NodeInv

\* Blackout: a step for every port, while every output is a started one.
LEMMA NodeBlackoutAll ==
  ASSUME Triggered, NodeInv, BlackoutAll
  PROVE  NodeInv'
<1>1. IInv /\ started \subseteq Ports /\ hasData \subseteq Ports
  BY DEF NodeInv
<1> DEFINE steps == Blackout
<1>2. /\ steps \in Seq(Step) /\ Len(steps) = N /\ N \in Nat
      /\ \A i \in 1 .. N : steps[i].op = "Blackout" /\ steps[i].p = i - 1
  BY EachPort DEF Blackout, PlainOps
<1>3. /\ Call(steps) /\ started' = started /\ hasData' = hasData
      /\ \A p \in Ports : port[p].direction = "kOutput" => p \in started
  BY DEF BlackoutAll, Triggered
<1> HIDE DEF steps
<1>4. todo' = steps /\ todo = << >> /\ port' = port
  BY <1>3 DEF Call
<1>5. Programmed'
  <2>1. Shape(0)' /\ Enabling(0)'
    BY <1>2, <1>4 DEF Shape, Enabling, Waiting
  <2> QED
    BY <2>1 DEF Programmed
<1>6. Calling'
  <2>1. \A i \in 1 .. N : steps[i].p \in Ports
    BY <1>2 DEF Ports
  <2> QED
    BY <1>2, <1>3, <1>4, <2>1 DEF Calling, Argument, Apart
<1>7. PortsInv'
  <2>1. \A q \in Ports, op \in Busy \ {"SetPortDirection"} : ~At(op, q)'
    <3>1. todo' \in Seq(Step) /\ (Len(todo') # 0 => 1 \in 1 .. N)
      BY <1>2, <1>4
    <3> QED
      BY <1>2, <1>4, <3>1, AtHeadNext DEF Busy
  <2>2. \A q \in started : q \in started' \/ At("SetPortDirection", q)'
    BY <1>3
  <2> QED
    BY <1>2, <1>3, <2>1, <2>2, CallPorts
<1>8. IInv'
  BY <1>1, <1>2, <1>3, CallInv
<1> QED
  BY <1>1, <1>3, <1>5, <1>6, <1>7, <1>8 DEF NodeInv

LEMMA NodeInitInv == NodeInit => NodeInv
<1> SUFFICES ASSUME NodeInit  PROVE NodeInv
  OBVIOUS
<1>1. IInv /\ todo = << >> /\ started = {} /\ hasData = {}
  BY InitInv DEF NodeInit, Init
<1>2. Len(todo) = 0
  BY <1>1
<1>3. Programmed
  <2>1. Shape(0) /\ Enabling(0)
    BY <1>2 DEF Shape, Enabling
  <2> QED
    BY <2>1 DEF Programmed
<1>4. Calling
  BY <1>2 DEF Calling
<1>5. PortsInv
  <2> SUFFICES ASSUME NEW p \in Ports  PROVE Doing(p) /\ Sending(p) /\ Stopped(p)
    BY DEF PortsInv
  <2>1. \A op : ~At(op, p)
    BY <1>1 DEF At
  <2>2. /\ port[p].state = "kIdle" /\ port[p].style = "kDelta" /\ port[p].dmx = "kIdle"
        /\ port[p].rdm = "kIdle" /\ port[p].txPin = "af" /\ port[p].dma = "none"
        /\ port[p].shift = FALSE
    BY DEF NodeInit, Init
  <2> QED
    BY <2>1, <2>2 DEF Doing, Sending, Stopped
<1> QED
  BY <1>1, <1>3, <1>4, <1>5 DEF NodeInv

LEMMA NodeStutter ==
  ASSUME NodeInv, UNCHANGED <<port, continuous, todo, started>>, hasData' \subseteq Ports
  PROVE  NodeInv'
<1>1. Programmed' /\ Calling'
  BY Unmoved
<1>2. IInv'
  BY StutterInv DEF NodeInv, vars
<1>3. PortsInv'
  BY DEF NodeInv, PortsInv, Doing, Sending, Stopped, At
<1> QED
  BY <1>1, <1>2, <1>3 DEF NodeInv

LEMMA NodeStep ==
  ASSUME Triggered, NodeInv, [NodeNext]_nodeVars
  PROVE  NodeInv'
<1>0. hasData \subseteq Ports /\ started \subseteq Ports /\ IInv
  BY DEF NodeInv
<1>1. ASSUME NEW p \in Ports, Start(p) \/ Stop(p) \/ SetData(p) \/ SyncPort(p) \/ SetStyle(p)
      PROVE  NodeInv'
  BY <1>1, NodeCallOne
<1>2. ASSUME NEW p \in Ports, Received(p)  PROVE NodeInv'
  BY <1>0, <1>2, NodeStutter DEF Received
<1>3. ASSUME NEW p \in Ports, Driver(p)  PROVE NodeInv'
  <2>1. started' = started /\ hasData' = hasData /\ (MainStep(p) \/ Irq(p))
    BY <1>3 DEF Driver
  <2>2. Programmed' /\ Calling' /\ PortsInv'
    BY <2>1, NodeMain, NodeIrq
  <2>3. IInv'
    BY <1>0, <2>1, MainInv, IrqInv
  <2> QED
    BY <1>0, <2>1, <2>2, <2>3 DEF NodeInv
<1>4. CASE SyncAll
  BY <1>4, NodeSync
<1>5. CASE BlackoutAll
  BY <1>5, NodeBlackoutAll
<1>6. CASE UNCHANGED nodeVars
  BY <1>0, <1>6, NodeStutter DEF nodeVars
<1> QED
  BY <1>1, <1>2, <1>3, <1>4, <1>5, <1>6 DEF NodeNext

-----------------------------------------------------------------------------
(***************************************************************************)
(* A node with one output, of any style                                    *)
(***************************************************************************)
\* One port, whose style is configured before its first start, and an
\* inter-packet time that is longer than the last two slots of a packet.  With a
\* second continuous output, a style that is changed later, or the shorter time
\* that a full universe leaves when no refresh rate is set, packets are cut.
Lone == N = 1 /\ ~Restyle /\ LongInter

Disabling == {"ConstantDisable", "DataDisable", "RxOff", "WaitIdle", "WaitTc", "ForceIdle"}
Selecting == {"SetOutputStyle", "ConstantDisable", "ConstantStart"}
Starting  == {"StartDmxOutput", "DriveBreak", "ArmBreak"}
Turning   == {"SetPortDirection", "SetPortDirectionEnable"}
RdmSteps  == {"StartRdmOutput", "DriveRdmBreak", "ArmRdmBreak", "SendDiscovery",
              "WaitDiscovery"}

\* A packet is started by hand only while the interrupts send none.
Ready(s) ==
  /\ s.op \notin RdmSteps
  /\ s.op \in Selecting => port[0].direction = "kInput" \/ port[0].dmx = "kIdle"
  /\ s.op \in Starting => port[0].dmx = "kIdle"
  /\ s.op \in {"DriveBreak", "ArmBreak"} => ~port[0].shift

\* A start waits behind the end of the packet before it and nothing else.
Queued ==
  \A i \in 1 .. Len(todo) :
    /\ Ready(todo[i])
    /\ todo[i].op \in Selecting \cup Starting =>
         i = 1 \/ (i = 2 /\ todo[1].op \in Disabling)
    /\ todo[i].op \in Turning => i = Len(todo)

OnLine ==
  LET q == port[0] IN
  /\ q.rdm = "kIdle" /\ q.dma # "rdm"
  /\ q.shift => ~q.tc /\ q.txPin = "af"
  /\ q.dmx = "kDmxMab" => q.txPin = "af"

Typed == IInv /\ started \subseteq Ports /\ hasData \subseteq Ports

LoneInv == Typed /\ Queued /\ OnLine

LEMMA LonePort ==
  ASSUME Lone, LoneInv
  PROVE  /\ Ports = {0} /\ 0 \in Ports /\ port \in [Ports -> Port] /\ port[0] \in Port
         /\ todo \in Seq(Step) /\ Len(todo) \in Nat
         /\ IInv /\ Queued /\ OnLine
<1>1. Ports = {0}
  BY DEF Lone, Ports
<1>2. port \in [Ports -> Port] /\ todo \in Seq(Step)
  BY DEF LoneInv, Typed, IInv, TypeOK
<1>3. port[0] \in Port /\ Len(todo) \in Nat
  BY <1>1, <1>2
<1> QED
  BY <1>1, <1>2, <1>3 DEF LoneInv, Typed

LEMMA LoneHead ==
  ASSUME Lone, LoneInv, NEW op, At(op, 0)
  PROVE  /\ Ready(Head(todo)) /\ Head(todo) \in Step /\ Head(todo).op = op
         /\ todo # << >> /\ todo[1].op = op /\ Len(todo) >= 1
         /\ op \in Turning => Len(todo) = 1
<1>1. todo \in Seq(Step) /\ Len(todo) \in Nat /\ Queued
  BY LonePort
<1>2. Len(todo) # 0 /\ todo[1].op = op /\ Head(todo) = todo[1] /\ todo # << >>
      /\ Head(todo) \in Step
  BY <1>1, AtHead DEF At
<1>3. 1 \in 1 .. Len(todo)
  BY <1>1, <1>2
<1>4. Ready(todo[1]) /\ (todo[1].op \in Turning => 1 = Len(todo))
  BY <1>1, <1>3 DEF Queued
<1> QED
  BY <1>1, <1>2, <1>4

\* Most steps of the main loop leave what is queued ready.
LEMMA ReadyStays ==
  ASSUME port'[0].direction = port[0].direction, port'[0].shift => port[0].shift,
         port'[0].dmx = port[0].dmx \/ port'[0].dmx = "kIdle"
  PROVE  \A s : Ready(s) => Ready(s)'
BY DEF Ready

\* A step is replaced by the steps it expands to.
LEMMA LoneReplaced ==
  ASSUME Lone, LoneInv, NEW op, At(op, 0), NEW steps \in Seq(Step), Goto(steps),
         \A i \in 1 .. Len(steps) :
           /\ Ready(steps[i])'
           /\ steps[i].op \notin Turning
           /\ steps[i].op \in Selecting \cup Starting =>
                i = 1 \/ (i = 2 /\ steps[1].op \in Disabling),
         op \in Disabling =>
           /\ Len(steps) = 0 \/ (Len(steps) = 1 /\ steps[1].op \in Disabling)
           /\ \A s \in Step : Ready(s) => Ready(s)'
  PROVE  Queued'
<1>1. todo \in Seq(Step) /\ todo # << >> /\ todo[1].op = op /\ Queued
  BY LonePort, LoneHead
<1>2. /\ todo' \in Seq(Step) /\ Len(todo) \in Nat /\ Len(todo) >= 1 /\ Len(steps) \in Nat
      /\ Len(todo') = Len(steps) + Len(todo) - 1
      /\ \A i \in 1 .. Len(steps) : todo'[i] = steps[i]
      /\ \A i \in (Len(steps) + 1) .. Len(todo') : todo'[i] = todo[i - Len(steps) + 1]
  BY <1>1, GotoSteps
<1>3. SUFFICES ASSUME NEW i \in 1 .. Len(todo')
               PROVE  /\ Ready(todo[i])'
                      /\ todo'[i].op \in Selecting \cup Starting =>
                           i = 1 \/ (i = 2 /\ todo'[1].op \in Disabling)
                      /\ todo'[i].op \in Turning => i = Len(todo')
  BY DEF Queued
<1>4. CASE i <= Len(steps)
  <2>1. i \in 1 .. Len(steps) /\ 1 \in 1 .. Len(steps)
    BY <1>2, <1>3, <1>4
  <2>2. todo'[i] = steps[i] /\ todo'[1] = steps[1]
    BY <1>2, <2>1
  <2>3. /\ Ready(steps[i])'
        /\ steps[i].op \notin Turning
        /\ steps[i].op \in Selecting \cup Starting =>
             i = 1 \/ (i = 2 /\ steps[1].op \in Disabling)
    BY <2>1
  <2>4. Ready(todo[i])'
    BY <2>2, <2>3 DEF Ready
  <2> QED
    BY <2>2, <2>3, <2>4
<1>5. CASE i > Len(steps)
  <2> DEFINE m == i - Len(steps) + 1
  <2>0. i \in (Len(steps) + 1) .. Len(todo')
    BY <1>2, <1>3, <1>5
  <2>1. /\ m \in 2 .. Len(todo) /\ todo'[i] = todo[m]
        /\ (m = Len(todo) => i = Len(todo'))
        /\ (m = 2 => i = Len(steps) + 1)
    BY <1>2, <2>0
  <2> HIDE DEF m
  <2>2. m \in 1 .. Len(todo) /\ m # 1
    BY <1>2, <2>1
  <2>3. /\ Ready(todo[m]) /\ (todo[m].op \in Turning => m = Len(todo))
        /\ (todo[m].op \in Selecting \cup Starting => m = 2 /\ op \in Disabling)
    BY <1>1, <2>2 DEF Queued
  <2>4. Ready(todo[i])'
    <3>1. PICK s \in Step : s = todo[m]
      BY <1>1, <2>2, ElementOfSeq
    <3>2. Ready(s)'
      <4>1. CASE op \in Disabling
        BY <2>3, <3>1, <4>1
      <4>2. CASE op \notin Disabling
        BY <2>3, <3>1, <4>2 DEF Ready, Starting
      <4> QED
        BY <4>1, <4>2
    <3> QED
      BY <2>1, <3>1, <3>2 DEF Ready
  <2>5. ASSUME todo'[i].op \in Selecting \cup Starting
        PROVE  i = 1 \/ (i = 2 /\ todo'[1].op \in Disabling)
    <3>1. i = Len(steps) + 1 /\ op \in Disabling
      BY <2>1, <2>3, <2>5
    <3>2. CASE Len(steps) = 0
      BY <3>1, <3>2
    <3>3. CASE Len(steps) # 0
      <4>1. Len(steps) = 1 /\ steps[1].op \in Disabling
        BY <3>1, <3>3
      <4>2. i = 2 /\ 1 \in 1 .. Len(steps)
        BY <3>1, <4>1
      <4> QED
        BY <1>2, <4>1, <4>2
    <3> QED
      BY <3>2, <3>3
  <2> QED
    BY <2>1, <2>3, <2>4, <2>5
<1> QED
  BY <1>2, <1>3, <1>4, <1>5

LEMMA LoneDone ==
  ASSUME Lone, LoneInv, NEW op, At(op, 0), Goto(<< >>),
         op \in Disabling => \A s \in Step : Ready(s) => Ready(s)'
  PROVE  Queued'
<1> DEFINE steps == << >>
<1>1. steps \in Seq(Step) /\ Len(steps) = 0 /\ Goto(steps)
  BY Lengths
<1> HIDE DEF steps
<1>2. \A i \in 1 .. Len(steps) : FALSE
  BY <1>1
<1> QED
  BY <1>1, <1>2, LoneReplaced

LEMMA LoneTo ==
  ASSUME Lone, LoneInv, NEW op, At(op, 0), NEW s \in Step, Goto(<< s >>),
         Ready(s)', s.op \notin Turning,
         op \in Disabling => s.op \in Disabling /\ \A t \in Step : Ready(t) => Ready(t)'
  PROVE  Queued'
<1>1. PICK steps \in Seq(Step) : /\ steps = << s >> /\ Len(steps) = 1 /\ steps[1] = s
  BY Lengths
<1>2. \A i \in 1 .. Len(steps) : i = 1 /\ steps[i] = s
  BY <1>1
<1> QED
  BY <1>1, <1>2, LoneReplaced

\* Several steps, none of which starts a packet.
Preparing == {s \in Step : s.op \in {"DataDisable", "SetPin", "DataEnable", "ClearData"}}

LEMMA LonePrepares ==
  ASSUME Lone, LoneInv, NEW op, At(op, 0), op \notin Disabling,
         NEW steps \in Seq(Preparing), Goto(steps)
  PROVE  Queued'
<1>1. steps \in Seq(Step) /\ \A i \in 1 .. Len(steps) : steps[i] \in Preparing
  BY DEF Preparing
<1>2. \A s \in Preparing : /\ Ready(s)' /\ s.op \notin Turning
                           /\ s.op \notin Selecting \cup Starting
  BY DEF Preparing, Ready, Turning, Selecting, Starting, RdmSteps
<1> QED
  BY <1>1, <1>2, LoneReplaced

\* What the driver's functions do to one output, in the order of MainStep.
LEMMA LoneDirection ==
  ASSUME Lone, LoneInv, SetPortDirectionStep(0) \/ BlackoutStep(0)
  PROVE  Queued' /\ OnLine'
<1>1. /\ 0 \in Ports /\ port \in [Ports -> Port] /\ port[0] \in Port
      /\ todo \in Seq(Step) /\ OnLine
  BY LonePort
<1>2. CASE SetPortDirectionStep(0)
  <2>1. PICK enable \in BOOLEAN :
          LET d == Head(todo).x IN
          /\ At(IF enable THEN "SetPortDirectionEnable" ELSE "SetPortDirection", 0)
          /\ port' = [port EXCEPT ![0].direction = d]
          /\ Goto((IF port[0].direction # d
                     THEN << S("DataDisable", 0), SX("SetPin", 0, d) >>
                     ELSE IF enable THEN << >> ELSE << S("DataDisable", 0) >>)
                  \o (IF enable THEN << S("DataEnable", 0) >> ELSE << >>))
    BY <1>2 DEF SetPortDirectionStep
  <2> DEFINE op == IF enable THEN "SetPortDirectionEnable" ELSE "SetPortDirection"
             off == S("DataDisable", 0)
             pin == SX("SetPin", 0, Head(todo).x)
             on == S("DataEnable", 0)
             first == IF port[0].direction # Head(todo).x THEN << off, pin >>
                      ELSE IF enable THEN << >> ELSE << off >>
             last == IF enable THEN << on >> ELSE << >>
  <2>2. At(op, 0) /\ Goto(first \o last)
    BY <2>1
  <2>3. op \in Turning /\ op \in DirectionOps /\ op \notin Disabling
    BY DEF Turning, DirectionOps, Disabling
  <2> HIDE DEF op
  <2>4. Head(todo).x \in Directions
    BY <1>1, <2>2, <2>3, HeadArgument
  <2>5. off \in Preparing /\ pin \in Preparing /\ on \in Preparing
    BY <1>1, <2>4 DEF Preparing, S, SX, Step, PlainOps, DirectionOps
  <2> HIDE DEF off, pin, on
  <2>6. first \in Seq(Preparing) /\ last \in Seq(Preparing)
    BY <2>5
  <2>7. first \o last \in Seq(Preparing)
    <3> HIDE DEF first, last
    <3> QED
      BY <2>6, ConcatProperties
  <2>8. Queued'
    <3> HIDE DEF first, last
    <3> QED
      BY <2>2, <2>3, <2>7, LonePrepares
  <2>9. OnLine'
    BY <1>1, <2>1 DEF OnLine, Port
  <2> QED
    BY <2>8, <2>9
<1>3. CASE BlackoutStep(0)
  <2>1. At("Blackout", 0) /\ port' = port /\ "Blackout" \notin Disabling
    BY <1>3 DEF BlackoutStep, Disabling
  <2>2. CASE port[0].direction = "kOutput"
    <3> DEFINE off == S("DataDisable", 0)
               clear == S("ClearData", 0)
               on == S("DataEnable", 0)
    <3>1. Goto(<< off, clear, on >>)
      BY <1>3, <2>2 DEF BlackoutStep
    <3>2. off \in Preparing /\ clear \in Preparing /\ on \in Preparing
      BY <1>1 DEF Preparing, S, Step, PlainOps
    <3> HIDE DEF off, clear, on
    <3>3. << off, clear, on >> \in Seq(Preparing)
      BY <3>2
    <3> QED
      BY <1>1, <2>1, <3>1, <3>3, LonePrepares DEF OnLine
  <2>3. CASE port[0].direction # "kOutput"
    <3>1. Goto(<< >>)
      BY <1>3, <2>3 DEF BlackoutStep
    <3> QED
      BY <1>1, <2>1, <3>1, LoneDone DEF OnLine
  <2> QED
    BY <2>2, <2>3
<1> QED
  BY <1>2, <1>3

\* DataDisable, and the loop of SetOutputStyle that calls it.
LEMMA LoneDisable ==
  ASSUME Lone, LoneInv,
         \/ DataDisableStep(0) \/ RxOffStep(0) \/ WaitIdleStep(0) \/ WaitTcStep(0)
         \/ ForceIdleStep(0) \/ (ConstantLoopStep(0) /\ At("ConstantDisable", 0))
  PROVE  Queued' /\ OnLine'
<1>1. /\ 0 \in Ports /\ port \in [Ports -> Port] /\ port[0] \in Port
      /\ todo \in Seq(Step) /\ OnLine
  BY LonePort
<1>2. /\ port'[0].direction = port[0].direction /\ port'[0].shift = port[0].shift
      /\ port'[0].dmx = port[0].dmx \/ port'[0].dmx = "kIdle"
      /\ port'[0].txPin = port[0].txPin /\ (port[0].tc \/ ~port'[0].tc)
      /\ port'[0].rdm = port[0].rdm /\ port'[0].dma = port[0].dma
  BY <1>1 DEF DataDisableStep, RxOffStep, WaitIdleStep, WaitTcStep, ForceIdleStep,
     ConstantLoopStep, Port
<1>3. OnLine'
  BY <1>1, <1>2 DEF OnLine
<1>4. \A s : Ready(s) => Ready(s)'
  BY <1>2, ReadyStays
<1> DEFINE Ending == {"DataDisable", "RxOff", "WaitIdle", "WaitTc", "ForceIdle"}
           Ends(op) == /\ op \in Disabling /\ At(op, 0)
                       /\ \/ Goto(<< >>)
                          \/ \E next \in Ending : Goto(<< S(next, 0) >>)
<1>5. ASSUME NEW op, Ends(op)  PROVE Queued'
  <2>1. CASE Goto(<< >>)
    BY <1>4, <1>5, <2>1, LoneDone
  <2>2. ASSUME NEW next \in Ending, Goto(<< S(next, 0) >>)  PROVE Queued'
    <3>1. S(next, 0) \in Step /\ S(next, 0).op = next
      BY <1>1, PlainStep DEF S, PlainOps
    <3>2. PICK s \in Step : s = S(next, 0) /\ s.op = next
      BY <3>1
    <3>3. Ready(s)' /\ s.op \notin Turning /\ s.op \in Disabling
      BY <3>2 DEF Ready, Disabling, Turning, Selecting, Starting, RdmSteps
    <3> QED
      BY <1>4, <1>5, <2>2, <3>2, <3>3, LoneTo
  <2> QED
    BY <1>5, <2>1, <2>2
<1>6. \E op : Ends(op)
  <2>1. CASE DataDisableStep(0)
    <3>1. Goto(<< >>) \/ Goto(<< S("WaitIdle", 0) >>) \/ Goto(<< S("RxOff", 0) >>)
      BY <2>1 DEF DataDisableStep
    <3>2. Ends("DataDisable")
      BY <2>1, <3>1 DEF DataDisableStep, Disabling
    <3> QED
      BY <3>2
  <2>2. CASE RxOffStep(0)
    <3>1. Ends("RxOff")
      BY <2>2 DEF RxOffStep, Disabling
    <3> QED
      BY <3>1
  <2>3. CASE WaitIdleStep(0)
    <3>1. Ends("WaitIdle")
      BY <2>3 DEF WaitIdleStep, Disabling
    <3> QED
      BY <3>1
  <2>4. CASE WaitTcStep(0)
    <3>1. Ends("WaitTc")
      BY <2>4 DEF WaitTcStep, Disabling
    <3> QED
      BY <3>1
  <2>5. CASE ForceIdleStep(0)
    <3>1. Ends("ForceIdle")
      BY <2>5 DEF ForceIdleStep, Disabling
    <3> QED
      BY <3>1
  <2>6. CASE ConstantLoopStep(0) /\ At("ConstantDisable", 0)
    <3>1. ~At("ConstantStart", 0)
      BY <2>6 DEF At
    <3>2. Goto(<< >>) \/ Goto(<< S("DataDisable", 0) >>)
      BY <2>6, <3>1 DEF ConstantLoopStep
    <3>3. Ends("ConstantDisable")
      BY <2>6, <3>2 DEF Disabling
    <3> QED
      BY <3>3
  <2> QED
    BY <2>1, <2>2, <2>3, <2>4, <2>5, <2>6
<1> HIDE DEF Ends
<1> QED
  BY <1>3, <1>5, <1>6

\* One packet: it is started while the interrupts send none, and its break is
\* driven when the last slots of the one before it have gone.
LEMMA LoneStart ==
  ASSUME Lone, LoneInv,
         \/ StartSendStyleDirectStep(0) \/ SyncPortStep(0) \/ StartDmxOutputStep(0)
         \/ (DriveBreakStep(0) /\ At("DriveBreak", 0)) \/ ArmBreakStep(0)
         \/ (ConstantLoopStep(0) /\ At("ConstantStart", 0))
  PROVE  Queued' /\ OnLine'
<1>1. /\ 0 \in Ports /\ port \in [Ports -> Port] /\ port[0] \in Port
      /\ todo \in Seq(Step) /\ OnLine
  BY LonePort
<1>2. ASSUME NEW op, op \notin Disabling, At(op, 0), NEW next \in Starting,
             Goto(<< S(next, 0) >>), port'[0].dmx = "kIdle",
             next \in {"DriveBreak", "ArmBreak"} => ~port'[0].shift
      PROVE  Queued'
  <2>1. S(next, 0) \in Step /\ S(next, 0).op = next
    BY <1>1, PlainStep DEF S, PlainOps, Starting
  <2>2. PICK s \in Step : s = S(next, 0) /\ s.op = next
    BY <2>1
  <2>3. Ready(s)' /\ s.op \notin Turning
    BY <1>2, <2>2 DEF Ready, Turning, Selecting, Starting, RdmSteps
  <2> QED
    BY <1>2, <2>2, <2>3, LoneTo
<1>3. CASE StartSendStyleDirectStep(0) \/ SyncPortStep(0)
  <2>1. PICK op \in {"StartSendStyleDirect", "SyncPort"} :
          /\ At(op, 0)
          /\ Goto(<< >>) \/ (Goto(<< S("StartDmxOutput", 0) >>) /\ port[0].dmx = "kIdle")
    BY <1>3 DEF StartSendStyleDirectStep, SyncPortStep, CanTrigger
  <2>2. op \notin Disabling
    BY DEF Disabling
  <2>3. /\ port'[0].dmx = port[0].dmx /\ port'[0].rdm = port[0].rdm
        /\ port'[0].dma = port[0].dma /\ port'[0].shift = port[0].shift
        /\ port'[0].tc = port[0].tc /\ port'[0].txPin = port[0].txPin
    BY <1>1, <1>3 DEF StartSendStyleDirectStep, SyncPortStep, Port
  <2>4. Queued'
    BY <1>2, <2>1, <2>2, <2>3, LoneDone DEF Starting
  <2>5. OnLine'
    BY <1>1, <2>3 DEF OnLine
  <2> QED
    BY <2>4, <2>5
<1>4. CASE ConstantLoopStep(0) /\ At("ConstantStart", 0)
  <2>1. ~At("ConstantDisable", 0) /\ port' = port
    BY <1>4 DEF ConstantLoopStep, At
  <2>2. \/ Goto(<< >>)
        \/ Goto(<< S("StartDmxOutput", 0) >>) /\ port[0].direction = "kOutput"
    BY <1>4, <2>1 DEF ConstantLoopStep, IsConstantOutput
  <2>3. Ready(Head(todo)) /\ Head(todo).op = "ConstantStart"
    BY <1>4, LoneHead
  <2>4. port[0].direction = "kOutput" => port[0].dmx = "kIdle"
    BY <2>3 DEF Ready, Selecting
  <2>5. Queued'
    BY <1>2, <1>4, <2>1, <2>2, <2>4, LoneDone DEF Starting, Disabling
  <2> QED
    BY <1>1, <2>1, <2>5 DEF OnLine
<1>5. CASE StartDmxOutputStep(0)
  <2>1. /\ At("StartDmxOutput", 0) /\ port[0].tc /\ port' = port
        /\ Goto(<< S("DriveBreak", 0) >>)
    BY <1>5 DEF StartDmxOutputStep
  <2>2. ~port[0].shift
    BY <1>1, <2>1 DEF OnLine
  <2>3. Ready(Head(todo)) /\ Head(todo).op = "StartDmxOutput"
    BY <2>1, LoneHead
  <2>4. port[0].dmx = "kIdle"
    BY <2>3 DEF Ready, Starting
  <2>5. Queued'
    BY <1>2, <2>1, <2>2, <2>4 DEF Starting, Disabling
  <2> QED
    BY <1>1, <2>1, <2>5 DEF OnLine
<1>6. CASE DriveBreakStep(0) /\ At("DriveBreak", 0)
  <2>1. ~At("DriveRdmBreak", 0)
    BY <1>6 DEF At
  <2>2. Goto(<< S("ArmBreak", 0) >>) /\ port' = [port EXCEPT ![0].txPin = "low"]
    BY <1>6, <2>1 DEF DriveBreakStep
  <2>3. Ready(Head(todo)) /\ Head(todo).op = "DriveBreak"
    BY <1>6, LoneHead
  <2>4. port[0].dmx = "kIdle" /\ ~port[0].shift
    BY <2>3 DEF Ready, Starting
  <2>5. /\ port'[0].dmx = port[0].dmx /\ port'[0].rdm = port[0].rdm
        /\ port'[0].dma = port[0].dma /\ port'[0].shift = port[0].shift
    BY <1>1, <2>2 DEF Port
  <2>6. Queued'
    BY <1>2, <1>6, <2>2, <2>4, <2>5 DEF Starting, Disabling
  <2>7. OnLine'
    BY <1>1, <2>4, <2>5 DEF OnLine
  <2> QED
    BY <2>6, <2>7
<1>7. CASE ArmBreakStep(0)
  <2>1. /\ At("ArmBreak", 0) /\ Goto(<< >>)
        /\ port' = [port EXCEPT ![0].armed = TRUE, ![0].dmx = "kDmxBreak"]
    BY <1>7 DEF ArmBreakStep
  <2>2. /\ port'[0].dmx = "kDmxBreak" /\ port'[0].rdm = port[0].rdm
        /\ port'[0].dma = port[0].dma /\ port'[0].shift = port[0].shift
        /\ port'[0].tc = port[0].tc /\ port'[0].txPin = port[0].txPin
    BY <1>1, <2>1 DEF Port
  <2>3. Queued'
    BY <2>1, LoneDone DEF Disabling
  <2>4. OnLine'
    BY <1>1, <2>2 DEF OnLine
  <2> QED
    BY <2>3, <2>4
<1> QED
  BY <1>3, <1>4, <1>5, <1>6, <1>7

\* DataEnable forces the transmit state idle; then the style is selected.
LEMMA LoneEnable ==
  ASSUME Lone, LoneInv, DataEnableStep(0) \/ SetOutputStyleStep(0)
  PROVE  Queued' /\ OnLine'
<1>1. /\ 0 \in Ports /\ port \in [Ports -> Port] /\ port[0] \in Port
      /\ todo \in Seq(Step) /\ OnLine /\ Ports = {0}
  BY LonePort
<1>2. CASE DataEnableStep(0)
  <2>1. At("DataEnable", 0) /\ "DataEnable" \notin Disabling
    BY <1>2 DEF DataEnableStep, Disabling
  <2>2. CASE port[0].direction = "kOutput"
    <3>1. /\ port' = [port EXCEPT ![0].state = "kTx", ![0].dmx = "kIdle"]
          /\ Goto(<< SX("SetOutputStyle", 0, port[0].style) >>)
      BY <1>2, <2>2 DEF DataEnableStep, SetOutputStyle
    <3>2. /\ port'[0].dmx = "kIdle" /\ port'[0].rdm = port[0].rdm
          /\ port'[0].dma = port[0].dma /\ port'[0].shift = port[0].shift
          /\ port'[0].tc = port[0].tc /\ port'[0].txPin = port[0].txPin
      BY <1>1, <3>1 DEF Port
    <3>7. /\ SX("SetOutputStyle", 0, port[0].style) \in Step
          /\ SX("SetOutputStyle", 0, port[0].style).op = "SetOutputStyle"
      BY <1>1 DEF SX, Step, Port
    <3>3. PICK s \in Step : s = SX("SetOutputStyle", 0, port[0].style) /\ s.op = "SetOutputStyle"
      BY <3>7
    <3>4. Ready(s)' /\ s.op \notin Turning
      BY <3>2, <3>3 DEF Ready, Turning, Starting, RdmSteps
    <3>5. Queued'
      BY <2>1, <3>1, <3>3, <3>4, LoneTo
    <3>6. OnLine'
      BY <1>1, <3>2 DEF OnLine
    <3> QED
      BY <3>5, <3>6
  <2>3. CASE port[0].direction # "kOutput"
    <3>1. Goto(<< >>) /\ port' = [port EXCEPT ![0].state = "kRx", ![0].rxIrq = TRUE]
      BY <1>2, <2>3 DEF DataEnableStep
    <3>2. Queued'
      BY <2>1, <3>1, LoneDone
    <3>3. OnLine'
      BY <1>1, <3>1 DEF OnLine, Port
    <3> QED
      BY <3>2, <3>3
  <2> QED
    BY <2>2, <2>3
<1>3. CASE SetOutputStyleStep(0)
  <2>1. /\ At("SetOutputStyle", 0) /\ "SetOutputStyle" \notin Disabling
        /\ port' = [port EXCEPT ![0].style = Head(todo).x]
    BY <1>3 DEF SetOutputStyleStep, Disabling
  <2>2. /\ port'[0].dmx = port[0].dmx /\ port'[0].rdm = port[0].rdm
        /\ port'[0].dma = port[0].dma /\ port'[0].shift = port[0].shift
        /\ port'[0].tc = port[0].tc /\ port'[0].txPin = port[0].txPin
        /\ port'[0].direction = port[0].direction
    BY <1>1, <2>1 DEF Port
  <2>3. OnLine'
    BY <1>1, <2>2 DEF OnLine
  <2>4. Ready(Head(todo)) /\ Head(todo).op = "SetOutputStyle"
    BY <2>1, LoneHead
  <2>5. port[0].direction = "kInput" \/ port[0].dmx = "kIdle"
    BY <2>4 DEF Ready, Selecting
  <2>6. \/ Goto(<< >>)
        \/ Goto(<< S("StartDmxOutput", 0) >>) /\ port[0].direction = "kOutput"
        \/ Goto(ForEachPort("ConstantDisable") \o ForEachPort("ConstantStart"))
    BY <1>3 DEF SetOutputStyleStep
  <2>7. CASE Goto(<< >>)
    BY <2>1, <2>3, <2>7, LoneDone
  <2>8. CASE Goto(<< S("StartDmxOutput", 0) >>) /\ port[0].direction = "kOutput"
    <3>3. S("StartDmxOutput", 0) \in Step /\ S("StartDmxOutput", 0).op = "StartDmxOutput"
      BY <1>1, PlainStep DEF S, PlainOps
    <3>1. PICK s \in Step : s = S("StartDmxOutput", 0) /\ s.op = "StartDmxOutput"
      BY <3>3
    <3>2. Ready(s)' /\ s.op \notin Turning
      BY <2>2, <2>5, <2>8, <3>1 DEF Ready, Turning, Selecting, RdmSteps
    <3> QED
      BY <2>1, <2>3, <2>8, <3>1, <3>2, LoneTo
  \* N = 1: each of the two loops of SetOutputStyle goes round once.
  <2>9. CASE Goto(ForEachPort("ConstantDisable") \o ForEachPort("ConstantStart"))
    <3> DEFINE one == ForEachPort("ConstantDisable")
               two == ForEachPort("ConstantStart")
    <3>1. /\ one \in Seq(Step) /\ Len(one) = 1 /\ one[1].op = "ConstantDisable"
          /\ two \in Seq(Step) /\ Len(two) = 1 /\ two[1].op = "ConstantStart"
      BY EachPort DEF Lone, PlainOps
    <3> HIDE DEF one, two
    <3>2. /\ one \o two \in Seq(Step) /\ Len(one \o two) = 2
          /\ (one \o two)[1] = one[1] /\ (one \o two)[2] = two[1]
      BY <3>1, ConcatProperties
    <3>3. PICK steps \in Seq(Step) :
            /\ steps = one \o two /\ Len(steps) = 2
            /\ steps[1].op = "ConstantDisable" /\ steps[2].op = "ConstantStart"
      BY <3>1, <3>2
    <3>4. \A i \in 1 .. Len(steps) : i = 1 \/ i = 2
      <4>1. \A i \in 1 .. 2 : i = 1 \/ i = 2
        OBVIOUS
      <4> QED
        BY <3>3, <4>1
    <3>5. \A i \in 1 .. Len(steps) :
            /\ Ready(steps[i])'
            /\ steps[i].op \notin Turning
            /\ steps[i].op \in Selecting \cup Starting =>
                 i = 1 \/ (i = 2 /\ steps[1].op \in Disabling)
      <4>1. ASSUME NEW i \in 1 .. Len(steps)
            PROVE  /\ Ready(steps[i])' /\ steps[i].op \notin Turning
                   /\ i = 1 \/ (i = 2 /\ steps[1].op \in Disabling)
        <5>1. steps[i].op \in {"ConstantDisable", "ConstantStart"}
          BY <3>3, <3>4
        <5>2. Ready(steps[i])' /\ steps[i].op \notin Turning
          BY <2>2, <2>5, <5>1 DEF Ready, Turning, Selecting, Starting, RdmSteps
        <5>3. i = 1 \/ (i = 2 /\ steps[1].op \in Disabling)
          BY <3>3, <3>4 DEF Disabling
        <5> QED
          BY <5>2, <5>3
      <4> QED
        BY <4>1
    <3>6. Goto(steps)
      BY <2>9, <3>3 DEF one, two
    <3> QED
      BY <2>1, <2>3, <3>5, <3>6, LoneReplaced
  <2> QED
    BY <2>6, <2>7, <2>8, <2>9
<1> QED
  BY <1>2, <1>3

\* The direction pin, and the data of the next packet.
LEMMA LoneData ==
  ASSUME Lone, LoneInv,
         \/ SetPinStep(0) \/ ClearDataStep(0) \/ SetSendDataStep(0)
         \/ SwitchBufferStep(0) \/ CopyDataStep(0)
  PROVE  Queued' /\ OnLine'
<1>1. /\ 0 \in Ports /\ port \in [Ports -> Port] /\ port[0] \in Port
      /\ todo \in Seq(Step) /\ OnLine
  BY LonePort
<1>2. /\ port'[0].dmx = port[0].dmx /\ port'[0].rdm = port[0].rdm
      /\ port'[0].dma = port[0].dma /\ port'[0].shift = port[0].shift
      /\ port'[0].tc = port[0].tc /\ port'[0].txPin = port[0].txPin
  BY <1>1 DEF SetPinStep, ClearDataStep, SetSendDataStep, SwitchBufferStep, CopyDataStep, Port
<1>3. OnLine'
  BY <1>1, <1>2 DEF OnLine
<1> DEFINE Filling == {"SetSendData", "SwitchBuffer", "CopyData"}
           Fills(op) == /\ op \in {"SetPin", "ClearData"} \cup Filling /\ At(op, 0)
                        /\ \/ Goto(<< >>)
                           \/ \E s \in Step : /\ s.op \in Filling \cup {"StartSendStyleDirect"}
                                              /\ Goto(<< s >>)
<1>4. ASSUME NEW op, Fills(op)  PROVE Queued'
  <2>1. op \notin Disabling
    BY <1>4 DEF Disabling
  <2>2. CASE Goto(<< >>)
    BY <1>4, <2>1, <2>2, LoneDone
  <2>3. ASSUME NEW s \in Step, s.op \in Filling \cup {"StartSendStyleDirect"}, Goto(<< s >>)
        PROVE  Queued'
    <3>1. Ready(s)' /\ s.op \notin Turning
      BY <2>3 DEF Ready, Turning, Selecting, Starting, RdmSteps
    <3> QED
      BY <1>4, <2>1, <2>3, <3>1, LoneTo
  <2> QED
    BY <1>4, <2>2, <2>3
<1>5. \E op : Fills(op)
  <2>1. CASE SetPinStep(0)
    <3>1. Fills("SetPin")
      BY <2>1 DEF SetPinStep
    <3> QED
      BY <3>1
  <2>2. CASE ClearDataStep(0)
    <3>1. Fills("ClearData")
      BY <2>2 DEF ClearDataStep
    <3> QED
      BY <3>1
  <2>3. ASSUME NEW op \in DataOps, At(op, 0)
        PROVE  \A next \in DataOps : /\ SX(next, 0, Head(todo).x) \in Step
                                     /\ SX(next, 0, Head(todo).x).op = next
    BY <1>1, <2>3, HeadArgument DEF SX, Step
  <2>4. CASE SetSendDataStep(0)
    <3>1. At("SetSendData", 0)
      BY <2>4 DEF SetSendDataStep
    <3>2. \E next \in DataOps : Goto(<< SX(next, 0, Head(todo).x) >>)
      BY <2>4 DEF SetSendDataStep, DataOps
    <3>3. Fills("SetSendData")
      BY <2>3, <3>1, <3>2 DEF DataOps
    <3> QED
      BY <3>3
  <2>5. CASE SwitchBufferStep(0)
    <3>1. At("SwitchBuffer", 0) /\ Goto(<< SX("CopyData", 0, Head(todo).x) >>)
      BY <2>5 DEF SwitchBufferStep
    <3>2. Fills("SwitchBuffer")
      BY <2>3, <3>1 DEF DataOps
    <3> QED
      BY <3>2
  <2>6. CASE CopyDataStep(0)
    <3>1. At("CopyData", 0) /\ (Goto(<< >>) \/ Goto(<< S("StartSendStyleDirect", 0) >>))
      BY <2>6 DEF CopyDataStep
    <3>2. S("StartSendStyleDirect", 0) \in Step
          /\ S("StartSendStyleDirect", 0).op = "StartSendStyleDirect"
      BY <1>1 DEF S, Step, PlainOps
    <3>3. Fills("CopyData")
      BY <3>1, <3>2
    <3> QED
      BY <3>3
  <2> QED
    BY <2>1, <2>2, <2>4, <2>5, <2>6
<1> HIDE DEF Fills
<1> QED
  BY <1>3, <1>4, <1>5

LEMMA LoneMain ==
  ASSUME Lone, LoneInv, MainStep(0)
  PROVE  Queued' /\ OnLine'
<1>1. \A op \in RdmSteps : ~At(op, 0)
  BY LoneHead DEF Ready
<1>2. ~(StartRdmOutputStep(0) \/ ArmRdmBreakStep(0) \/ SendDiscoveryStep(0)
        \/ WaitDiscoveryStep(0))
  BY <1>1 DEF StartRdmOutputStep, ArmRdmBreakStep, SendDiscoveryStep, WaitDiscoveryStep, RdmSteps
<1>3. DriveBreakStep(0) => At("DriveBreak", 0)
  BY <1>1 DEF DriveBreakStep, RdmSteps
<1>4. ConstantLoopStep(0) => At("ConstantDisable", 0) \/ At("ConstantStart", 0)
  BY DEF ConstantLoopStep
<1> QED
  BY <1>2, <1>3, <1>4, LoneDirection, LoneDisable, LoneStart, LoneEnable, LoneData DEF MainStep

LEMMA LoneIrq ==
  ASSUME Lone, LoneInv, Irq(0)
  PROVE  Queued' /\ OnLine'
<1>1. /\ 0 \in Ports /\ port \in [Ports -> Port] /\ port[0] \in Port
      /\ todo \in Seq(Step) /\ OnLine /\ Queued
  BY LonePort
<1>2. todo' = todo
  BY DEF Irq, TimerIrq, DmaIrq, Shifted
<1>3. /\ port'[0].direction = port[0].direction /\ port'[0].rdm = "kIdle"
      /\ (port[0].dmx = "kIdle" => port'[0].dmx = "kIdle")
      /\ (port'[0].shift => port[0].shift \/ port[0].dmx = "kDmxMab")
      /\ OnLine'
  <2>1. CASE TimerIrq(0)
    BY <1>1, <2>1 DEF TimerIrq, DmxTimer, RdmTimer, StartDma, OnLine, Port
  <2>2. CASE DmaIrq(0)
    BY <1>1, <2>2 DEF DmaIrq, OnLine, Port
  <2>3. CASE Shifted(0)
    BY <1>1, <2>3 DEF Shifted, OnLine, Port
  <2> QED
    BY <2>1, <2>2, <2>3 DEF Irq
<1>4. \A s : Ready(s) => Ready(s)'
  BY <1>3 DEF Ready, Starting
<1>5. Queued'
  <2> SUFFICES ASSUME NEW i \in 1 .. Len(todo)
               PROVE  /\ Ready(todo[i])'
                      /\ todo[i].op \in Selecting \cup Starting =>
                           i = 1 \/ (i = 2 /\ todo[1].op \in Disabling)
                      /\ todo[i].op \in Turning => i = Len(todo)
    BY <1>2 DEF Queued
  <2>1. PICK s \in Step : s = todo[i]
    BY <1>1, ElementOfSeq
  <2>2. /\ Ready(s)
        /\ todo[i].op \in Selecting \cup Starting =>
             i = 1 \/ (i = 2 /\ todo[1].op \in Disabling)
        /\ todo[i].op \in Turning => i = Len(todo)
    BY <1>1, <2>1 DEF Queued
  <2>3. Ready(s)'
    BY <1>4, <2>2
  <2> QED
    BY <1>2, <2>1, <2>2, <2>3 DEF Ready
<1> QED
  BY <1>3, <1>5

\* What the node calls consists of steps of the driver, whatever its outputs are.
LEMMA CallTypes ==
  ASSUME Typed, NEW p \in Ports
  PROVE  /\ \A enable \in BOOLEAN : SetPortDirection(p, "kOutput", enable) \in Seq(Step)
         /\ \A x \in SendStyles : SetTransmitData(p, x) \in Seq(Step)
         /\ \A style \in Styles : SetOutputStyle(p, style) \in Seq(Step)
         /\ Blackout \in Seq(Step)
         /\ \A f \in Ascending(hasData \ started) : Sync \o StartSteps(f) \in Seq(Step)
<1>1. \A enable \in BOOLEAN : SetPortDirection(p, "kOutput", enable) \in Seq(Step)
  <2>1. \A op \in {"SetPortDirection", "SetPortDirectionEnable"} :
          SX(op, p, "kOutput") \in Step
    BY DirectionStep DEF DirectionOps, Directions
  <2> QED
    BY <2>1 DEF SetPortDirection
<1>2. \A x \in SendStyles : SetTransmitData(p, x) \in Seq(Step)
  <2>1. \A x \in SendStyles : SX("SetSendData", p, x) \in Step
    BY DEF SX, Step, DataOps
  <2> QED
    BY <2>1 DEF SetTransmitData
<1>3. \A style \in Styles : SetOutputStyle(p, style) \in Seq(Step)
  <2>1. \A style \in Styles : SX("SetOutputStyle", p, style) \in Step
    BY NodeAssumption DEF SX, Step
  <2> QED
    BY <2>1 DEF SetOutputStyle
<1>4. Blackout \in Seq(Step)
  BY ForEachPortType DEF Blackout, PlainOps
<1>5. ASSUME NEW f \in Ascending(hasData \ started)  PROVE Sync \o StartSteps(f) \in Seq(Step)
  <2>1. Sync \in Seq(Step)
    BY ForEachPortType DEF Sync, PlainOps
  <2>2. StartSteps(f) \in Seq(Step)
    BY StartTypes DEF Typed
  <2> QED
    BY <2>1, <2>2, ConcatProperties
<1> QED
  BY <1>1, <1>2, <1>3, <1>4, <1>5

LEMMA TypedStep ==
  ASSUME Typed, [NodeNext]_nodeVars
  PROVE  Typed'
<1>1. IInv /\ started \subseteq Ports /\ hasData \subseteq Ports
  BY DEF Typed
<1>2. started' \subseteq Ports /\ hasData' \subseteq Ports
  BY <1>1 DEF NodeNext, nodeVars, Start, Stop, Received, SetData, SyncPort, SetStyle,
     Driver, SyncAll, BlackoutAll
<1>3. IInv'
  <2>1. ASSUME NEW p \in Ports, Start(p) \/ Stop(p)  PROVE IInv'
    <3>1. \E enable \in BOOLEAN : Call(SetPortDirection(p, "kOutput", enable))
      BY <2>1 DEF Start, Stop
    <3> QED
      BY <1>1, <3>1, CallTypes, CallInv
  <2>2. ASSUME NEW p \in Ports, SetData(p) \/ SyncPort(p)  PROVE IInv'
    <3>1. \E x \in SendStyles : Call(SetTransmitData(p, x))
      BY <2>2 DEF SetData, SyncPort, SendStyles
    <3> QED
      BY <1>1, <3>1, CallTypes, CallInv
  <2>3. ASSUME NEW p \in Ports, SetStyle(p)  PROVE IInv'
    <3>1. \E style \in Styles : Call(SetOutputStyle(p, style))
      BY <2>3 DEF SetStyle
    <3> QED
      BY <1>1, <3>1, CallTypes, CallInv
  <2>4. CASE SyncAll \/ BlackoutAll
    <3>1. PICK p \in Ports : TRUE
      BY ParametersAssumption DEF Ports
    <3>2. \/ Call(Blackout)
          \/ \E f \in Ascending(hasData \ started) : Call(Sync \o StartSteps(f))
      BY <2>4 DEF SyncAll, BlackoutAll
    <3> QED
      BY <1>1, <3>1, <3>2, CallTypes, CallInv
  <2>5. ASSUME NEW p \in Ports, Driver(p)  PROVE IInv'
    BY <1>1, <2>5, MainInv, IrqInv DEF Driver
  <2>6. CASE UNCHANGED nodeVars \/ \E p \in Ports : Received(p)
    BY <1>1, <2>6, StutterInv DEF nodeVars, vars, Received
  <2> QED
    BY <2>1, <2>2, <2>3, <2>4, <2>5, <2>6 DEF NodeNext
<1> QED
  BY <1>2, <1>3 DEF Typed

\* A call starts with a step of its own, and no packet is started by it.
LEMMA LoneCall ==
  ASSUME Lone, LoneInv, NEW steps \in Seq(Step), Call(steps),
         \A i \in 1 .. Len(steps) :
           /\ steps[i].op \in {"SyncPort", "Blackout", "SetSendData", "SetOutputStyle"} \cup Turning
           /\ steps[i].op = "SetOutputStyle" => i = 1 /\ port[0].direction = "kInput"
           /\ steps[i].op \in Turning => i = Len(steps)
  PROVE  Queued' /\ OnLine'
<1>1. todo' = steps /\ port' = port /\ OnLine
  BY LonePort DEF Call
<1>2. \A i \in 1 .. Len(steps) : Ready(steps[i])'
  BY <1>1 DEF Ready, Turning, Selecting, Starting, RdmSteps
<1>3. \A i \in 1 .. Len(steps) :
        /\ steps[i].op \in Selecting \cup Starting => i = 1
        /\ steps[i].op \in Turning => i = Len(steps)
  BY DEF Turning, Selecting, Starting
<1>4. Queued'
  BY <1>1, <1>2, <1>3 DEF Queued, Ready
<1> QED
  BY <1>1, <1>4 DEF OnLine

LEMMA LoneCallOne ==
  ASSUME Lone, LoneInv, NEW s \in Step, Call(<< s >>),
         s.op \in {"SyncPort", "Blackout", "SetSendData", "SetOutputStyle"} \cup Turning,
         s.op = "SetOutputStyle" => port[0].direction = "kInput"
  PROVE  Queued' /\ OnLine'
<1>1. PICK steps \in Seq(Step) : /\ steps = << s >> /\ Len(steps) = 1 /\ steps[1] = s
  BY Lengths
<1>2. \A i \in 1 .. Len(steps) : i = 1 /\ i = Len(steps) /\ steps[i] = s
  BY <1>1
<1> QED
  BY <1>1, <1>2, LoneCall

\* Sync starts the port after the packet it may have triggered: there is one.
LEMMA LoneSync ==
  ASSUME Lone, LoneInv, SyncAll
  PROVE  Queued' /\ OnLine'
<1>1. Ports = {0} /\ hasData \ started \subseteq Ports
  BY LonePort DEF LoneInv, Typed
<1>2. PICK f \in Ascending(hasData \ started) : Call(Sync \o StartSteps(f))
  BY DEF SyncAll
<1> DEFINE each == Sync
           starts == StartSteps(f)
<1>3. /\ each \in Seq(Step) /\ Len(each) \in Nat
      /\ \A i \in 1 .. Len(each) : each[i].op = "SyncPort"
  BY EachPort DEF Sync, PlainOps
<1>4. /\ starts \in Seq(Step) /\ Len(starts) \in Nat
      /\ \A i \in 1 .. Len(starts) : /\ starts[i].op = "SetPortDirectionEnable"
                                     /\ starts[i].p \in hasData \ started
      /\ \A i, j \in 1 .. Len(starts) : i # j => starts[i].p # starts[j].p
  BY <1>1, StartTypes
<1> HIDE DEF each, starts
<1>5. Len(starts) <= 1
  <2> SUFFICES ASSUME Len(starts) > 1  PROVE FALSE
    BY <1>4
  <2>1. 1 \in 1 .. Len(starts) /\ 2 \in 1 .. Len(starts)
    BY <1>4
  <2>2. starts[1].p \in Ports /\ starts[2].p \in Ports
    BY <1>1, <1>4, <2>1
  <2>3. starts[1].p # starts[2].p
    BY <1>4, <2>1
  <2> QED
    BY <1>1, <2>2, <2>3
<1> DEFINE steps == each \o starts
<1>6. /\ steps \in Seq(Step) /\ Len(steps) = Len(each) + Len(starts)
      /\ \A i \in 1 .. Len(each) : steps[i] = each[i]
      /\ \A i \in (Len(each) + 1) .. Len(steps) : steps[i] = starts[i - Len(each)]
  BY <1>3, <1>4
<1>7. Call(steps)
  BY <1>2 DEF each, starts
<1> HIDE DEF steps
<1>8. ASSUME NEW i \in 1 .. Len(steps)
      PROVE  \/ steps[i].op = "SyncPort"
             \/ steps[i].op = "SetPortDirectionEnable" /\ i = Len(steps)
  <2>1. CASE i <= Len(each)
    <3>1. i \in 1 .. Len(each)
      BY <1>3, <2>1
    <3> QED
      BY <1>3, <1>6, <3>1
  <2>2. CASE i > Len(each)
    <3>1. /\ i \in (Len(each) + 1) .. Len(steps) /\ i - Len(each) \in 1 .. Len(starts)
          /\ i = Len(steps)
      BY <1>3, <1>4, <1>5, <1>6, <2>2
    <3> QED
      BY <1>4, <1>6, <3>1
  <2> QED
    BY <1>3, <2>1, <2>2
<1>9. \A i \in 1 .. Len(steps) :
        /\ steps[i].op \in {"SyncPort", "Blackout", "SetSendData", "SetOutputStyle"} \cup Turning
        /\ steps[i].op = "SetOutputStyle" => i = 1 /\ port[0].direction = "kInput"
        /\ steps[i].op \in Turning => i = Len(steps)
  BY <1>8 DEF Turning
<1> QED
  BY <1>6, <1>7, <1>9, LoneCall

LEMMA LoneStep ==
  ASSUME Lone, LoneInv, [NodeNext]_nodeVars
  PROVE  LoneInv'
<1>1. Ports = {0} /\ 0 \in Ports /\ OnLine /\ Queued
  BY LonePort
<1>2. Typed'
  BY TypedStep DEF LoneInv
<1>3. CASE Start(0) \/ Stop(0)
  <2>1. PICK op \in Turning : Call(<< SX(op, 0, "kOutput") >>)
    BY <1>3 DEF Start, Stop, SetPortDirection, Turning
  <2>2. SX(op, 0, "kOutput") \in Step /\ SX(op, 0, "kOutput").op = op
    BY <1>1, DirectionStep DEF SX, DirectionOps, Directions, Turning
  <2>3. op # "SetOutputStyle"
    BY DEF Turning
  <2> QED
    BY <1>2, <2>1, <2>2, <2>3, LoneCallOne DEF LoneInv
<1>4. CASE SetData(0) \/ SyncPort(0)
  <2>1. PICK x \in SendStyles : Call(<< SX("SetSendData", 0, x) >>)
    BY <1>4 DEF SetData, SyncPort, SetTransmitData, SendStyles
  <2>2. SX("SetSendData", 0, x) \in Step /\ SX("SetSendData", 0, x).op = "SetSendData"
    BY <1>1 DEF SX, Step, DataOps
  <2> QED
    BY <1>2, <2>1, <2>2, LoneCallOne DEF LoneInv
<1>5. CASE SetStyle(0)
  <2>1. PICK style \in OutputStyles : Call(<< SX("SetOutputStyle", 0, style) >>)
    BY <1>5, NodeAssumption DEF SetStyle, SetOutputStyle
  <2>2. /\ SX("SetOutputStyle", 0, style) \in Step
        /\ SX("SetOutputStyle", 0, style).op = "SetOutputStyle"
    BY <1>1 DEF SX, Step
  <2>3. port[0].direction = "kInput"
    BY <1>5 DEF SetStyle, Lone
  <2> QED
    BY <1>2, <2>1, <2>2, <2>3, LoneCallOne DEF LoneInv
<1>6. CASE SyncAll
  BY <1>2, <1>6, LoneSync DEF LoneInv
<1>7. CASE BlackoutAll
  <2>1. Call(ForEachPort("Blackout"))
    BY <1>7 DEF BlackoutAll, Blackout
  <2>2. /\ ForEachPort("Blackout") \in Seq(Step) /\ Len(ForEachPort("Blackout")) = N
        /\ \A i \in 1 .. N : ForEachPort("Blackout")[i].op = "Blackout"
    BY EachPort DEF PlainOps
  <2>3. PICK steps \in Seq(Step) :
          Call(steps) /\ \A i \in 1 .. Len(steps) : steps[i].op = "Blackout"
    BY <2>1, <2>2
  <2>4. \A i \in 1 .. Len(steps) :
        /\ steps[i].op \in {"SyncPort", "Blackout", "SetSendData", "SetOutputStyle"} \cup Turning
        /\ steps[i].op = "SetOutputStyle" => i = 1 /\ port[0].direction = "kInput"
        /\ steps[i].op \in Turning => i = Len(steps)
    BY <2>3 DEF Turning
  <2> QED
    BY <1>2, <2>3, <2>4, LoneCall DEF LoneInv
<1>8. CASE Driver(0)
  BY <1>2, <1>8, LoneMain, LoneIrq DEF LoneInv, Driver
<1>9. CASE UNCHANGED nodeVars \/ Received(0)
  <2>1. todo' = todo /\ port' = port
    BY <1>9 DEF nodeVars, Received
  <2> QED
    BY <1>1, <1>2, <2>1 DEF LoneInv, Queued, Ready, OnLine
<1> QED
  BY <1>1, <1>3, <1>4, <1>5, <1>6, <1>7, <1>8, <1>9 DEF NodeNext

LEMMA LoneInitInv == ASSUME Lone PROVE NodeInit => LoneInv
<1> SUFFICES ASSUME NodeInit  PROVE LoneInv
  OBVIOUS
<1>1. Typed
  BY InitInv DEF NodeInit, Typed
<1>2. Len(todo) = 0 /\ 0 \in Ports
  BY DEF NodeInit, Init, Lone, Ports
<1>3. Queued
  BY <1>2 DEF Queued
<1>4. OnLine
  BY <1>2 DEF NodeInit, Init, OnLine
<1> QED
  BY <1>1, <1>3, <1>4 DEF LoneInv

-----------------------------------------------------------------------------
(***************************************************************************)
(* The theorems                                                            *)
(***************************************************************************)
\* The driver's tables keep their types when a node drives it, and the node
\* starts and feeds ports of the driver only.
THEOREM NodeTypeCorrect == NodeSpec => []NodeTypeOK
<1>1. NodeInit => Typed
  BY InitInv DEF NodeInit, Typed
<1>2. Typed /\ [NodeNext]_nodeVars => Typed'
  BY TypedStep
<1>3. Typed => NodeTypeOK
  BY DEF Typed, IInv, NodeTypeOK
<1> QED
  BY <1>1, <1>2, <1>3, PTL DEF NodeSpec

\* No break is driven into slots that are on the wire, and no packet starts on
\* a line that is held low: StartDmxOutput's wait for USART_FLAG_TC and the
\* states the compare interrupt goes through suffice, for a node whose outputs
\* are triggered.
THEOREM NodeFrameNotCut ==
  ASSUME Triggered  PROVE NodeSpec => []FrameNotCut
<1>1. NodeInv => FrameNotCut
  BY DEF NodeInv, PortsInv, Sending, FrameNotCut
<1>2. NodeInv /\ [NodeNext]_nodeVars => NodeInv'
  BY NodeStep
<1> QED
  BY <1>1, <1>2, NodeInitInv, PTL DEF NodeSpec

\* The same of a single output of any style, continuous or triggered, that is
\* started, stopped, synchronised and blacked out at will, if the inter-packet
\* time is longer than two slots: SetOutputStyle starts a packet only while the
\* interrupts send none, and the compare event finds the packet before it gone.
THEOREM SingleFrameNotCut ==
  ASSUME Lone  PROVE NodeSpec => []FrameNotCut
<1>1. LoneInv => FrameNotCut
  BY LonePort DEF OnLine, FrameNotCut
<1>2. LoneInv /\ [NodeNext]_nodeVars => LoneInv'
  BY LoneStep
<1> QED
  BY <1>1, <1>2, LoneInitInv, PTL DEF NodeSpec

\* Whatever Stop, Blackout and Sync come in between, a call that has returned
\* leaves no line in a break that no interrupt is going to end.
THEOREM NodeLineReleased ==
  ASSUME Triggered  PROVE NodeSpec => []LineReleased
<1>1. NodeInv => LineReleased
  <2> SUFFICES ASSUME NodeInv, todo = << >>, NEW p \in Ports, port[p].dmx = "kIdle"
               PROVE  port[p].txPin = "af"
    BY DEF LineReleased
  <2>1. port[p] \in Port /\ Sending(p) /\ ~At("ArmBreak", p)
    BY NodePort DEF At
  <2> QED
    BY <2>1 DEF Sending, Port
<1>2. NodeInv /\ [NodeNext]_nodeVars => NodeInv'
  BY NodeStep
<1> QED
  BY <1>1, <1>2, NodeInitInv, PTL DEF NodeSpec

\* A stopped port has sent its last packet when Stop returns, and no later
\* call of the node makes it send another.
THEOREM NodeStoppedIsQuiet ==
  ASSUME Triggered  PROVE NodeSpec => []StoppedIsQuiet
<1>1. NodeInv => StoppedIsQuiet
  <2> SUFFICES ASSUME NodeInv, todo = << >>, NEW p \in Ports \ started
               PROVE  port[p].dmx = "kIdle"
    BY DEF StoppedIsQuiet
  <2>1. port[p] \in Port /\ Stopped(p) /\ \A op : ~At(op, p)
    BY NodePort DEF At
  <2> QED
    BY <2>1 DEF Stopped, Port, PortStates
<1>2. NodeInv /\ [NodeNext]_nodeVars => NodeInv'
  BY NodeStep
<1> QED
  BY <1>1, <1>2, NodeInitInv, PTL DEF NodeSpec

\* DataEnable's assertion holds in a node: Start, Sync and Blackout enable a
\* port only after they have disabled it.
THEOREM NodeDataEnableAssert ==
  ASSUME Triggered  PROVE NodeSpec => []DataEnableAssert
<1>1. NodeInv => DataEnableAssert
  BY NodeHead DEF DataEnableAssert
<1>2. NodeInv /\ [NodeNext]_nodeVars => NodeInv'
  BY NodeStep
<1> QED
  BY <1>1, <1>2, NodeInitInv, PTL DEF NodeSpec
=============================================================================
