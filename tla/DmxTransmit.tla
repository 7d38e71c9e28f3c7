----------------------------- MODULE DmxTransmit -----------------------------
(***************************************************************************)
(* The transmit side of the DMX512/RDM driver, lib-dmx/src/gd32/dmx.cpp.   *)
(*                                                                         *)
(* Three parties share the tables of a port: the main loop, which runs the *)
(* driver's functions (SetPortDirection, DataEnable, DataDisable, ...), the *)
(* timer compare interrupt (TIMER1_IRQHandler) and the DMA full-transfer   *)
(* interrupt (DMA0_Channel3_IRQHandler).  The interrupts have one priority, *)
(* so a handler is one atomic action; the main loop can be interrupted     *)
(* between any two of its steps.                                           *)
(*                                                                         *)
(* `todo' is what the main loop still has to do, innermost call first: a   *)
(* step of a function that calls others replaces itself by their steps.    *)
(***************************************************************************)
EXTENDS Naturals, Sequences

CONSTANTS
  N,          \* number of ports, dmx::config::max::kPorts
  Calls,      \* the calls the main loop may make, each a sequence of steps
  LongInter   \* TRUE: the inter-packet time exceeds the time the last slots
              \* need to leave the shift register (see TimerIrq); with a full
              \* universe and no refresh rate set it does not

Ports == 0 .. (N - 1)

Directions   == {"kInput", "kOutput"}
PortStates   == {"kIdle", "kTx", "kRx"}
OutputStyles == {"kDelta", "kConstant"}
DmxStates    == {"kIdle", "kDmxBreak", "kDmxMab", "kDmxInter"}
RdmStates    == {"kIdle", "kBreak", "kMab", "kDirection"}

Port == [direction : Directions,      \* port_direction_
         state     : PortStates,      \* sv_port_state
         style     : OutputStyles,    \* s_DmxTxBuffer.output_style
         dmx       : DmxStates,       \* s_DmxTxBuffer.state
         rdm       : RdmStates,       \* s_RdmTxBuffer.state
         read      : {0, 1},          \* dmx.read_index
         write     : {0, 1},          \* dmx.write_index
         pending   : BOOLEAN,         \* dmx.data_pending
         rxIrq     : BOOLEAN,         \* RBNE and IDLE interrupts enabled
         txPin     : {"af", "low"},   \* TX pin: driven by the USART, or low
         dirPin    : Directions,      \* level of the RS-485 direction pin
         armed     : BOOLEAN,         \* a timer compare event is to come
         dma       : {"none", "dmx", "rdm"},  \* the running DMA transfer
         shift     : BOOLEAN,         \* the USART is putting slots on the wire
         tc        : BOOLEAN]         \* USART_FLAG_TC

SendStyles == {"kDirect", "kSync"}

(***************************************************************************)
(* The steps the main loop is made of, with the argument some of them have *)
(***************************************************************************)
DirectionOps == {"SetPortDirection", "SetPortDirectionEnable", "SetPin"}
DataOps      == {"SetSendData", "SwitchBuffer", "CopyData"}
PlainOps     == {"DataDisable", "RxOff", "WaitIdle", "WaitTc", "ForceIdle",
                 "DataEnable", "ConstantDisable", "ConstantStart",
                 "StartDmxOutput", "DriveBreak", "ArmBreak",
                 "StartSendStyleDirect", "SyncPort", "Blackout", "ClearData",
                 "StartRdmOutput", "DriveRdmBreak", "ArmRdmBreak",
                 "SendDiscovery", "WaitDiscovery"}

Step == [op : DirectionOps, p : Ports, x : Directions]
          \cup [op : {"SetOutputStyle"}, p : Ports, x : OutputStyles]
          \cup [op : DataOps, p : Ports, x : SendStyles]
          \cup [op : PlainOps, p : Ports, x : {"-"}]

S(op, p)     == [op |-> op, p |-> p, x |-> "-"]
SX(op, p, x) == [op |-> op, p |-> p, x |-> x]

ASSUME ParametersAssumption ==
  /\ N \in Nat \ {0}
  /\ Calls \subseteq Seq(Step)
  /\ LongInter \in BOOLEAN

VARIABLES
  port,        \* the tables and the hardware of each port
  continuous,  \* has_continuos_output_
  todo         \* what the main loop is in the middle of

vars == <<port, continuous, todo>>

\* The tables hold values of their types, and what the main loop has to do is
\* made of the driver's steps.
TypeOK ==
  /\ port \in [Ports -> Port]
  /\ continuous \in BOOLEAN
  /\ todo \in Seq(Step)

\* The state the constructor leaves behind.
Init ==
  /\ port = [p \in Ports |->
       [direction |-> "kInput", state |-> "kIdle", style |-> "kDelta",
        dmx |-> "kIdle", rdm |-> "kIdle", read |-> 0, write |-> 0,
        pending |-> FALSE, rxIrq |-> FALSE, txPin |-> "af",
        dirPin |-> "kInput", armed |-> FALSE, dma |-> "none",
        shift |-> FALSE, tc |-> TRUE]]
  /\ continuous = FALSE
  /\ todo = <<>>

-----------------------------------------------------------------------------
(***************************************************************************)
(* The calls of the driver, as the steps they start with.                  *)
(***************************************************************************)
ForEachPort(op) == [i \in 1 .. N |-> S(op, i - 1)]

SetPortDirection(p, d, enable) ==
  << SX(IF enable THEN "SetPortDirectionEnable" ELSE "SetPortDirection", p, d) >>
SetOutputStyle(p, style) == << SX("SetOutputStyle", p, style) >>
SetTransmitData(p, sendStyle) == << SX("SetSendData", p, sendStyle) >>
Sync == ForEachPort("SyncPort")
Blackout == ForEachPort("Blackout")
\* Mutant: an RDM packet that leaves the direction as it is.
RdmTransmitUndirected(p) == << S("StartRdmOutput", p) >>

RdmTransmit(p) ==
  SetPortDirection(p, "kOutput", FALSE) \o << S("StartRdmOutput", p) >>
RdmTransmitDiscoveryRespondMessage(p) ==
  SetPortDirection(p, "kOutput", FALSE)
    \o << S("SendDiscovery", p), S("WaitDiscovery", p) >>
    \o SetPortDirection(p, "kInput", TRUE)

\* The main loop makes one of its calls once the previous one has returned.
Call(steps) ==
  /\ todo = <<>>
  /\ todo' = steps
  /\ UNCHANGED <<port, continuous>>

At(op, p) == todo # <<>> /\ Head(todo).op = op /\ Head(todo).p = p

\* The current step is done; the steps it expands to come next.
Goto(steps) == todo' = steps \o Tail(todo)

-----------------------------------------------------------------------------
(***************************************************************************)
(* SetPortDirection stores the new direction BEFORE it calls DataDisable,  *)
(* which therefore acts on the new direction.                              *)
(***************************************************************************)
SetPortDirectionStep(p) ==
  \E enable \in BOOLEAN :
    LET d == Head(todo).x IN
    /\ At(IF enable THEN "SetPortDirectionEnable" ELSE "SetPortDirection", p)
    /\ port' = [port EXCEPT ![p].direction = d]
    /\ Goto((IF port[p].direction # d
               THEN << S("DataDisable", p), SX("SetPin", p, d) >>
               ELSE IF enable THEN << >> ELSE << S("DataDisable", p) >>)
            \o (IF enable THEN << S("DataEnable", p) >> ELSE << >>))
    /\ UNCHANGED continuous

\* Mutant: the pin is set for input and cleared for output.
SetPinStepInverted(p) ==
  /\ At("SetPin", p)
  /\ \E d \in Directions \ {Head(todo).x} : port' = [port EXCEPT ![p].dirPin = d]
  /\ Goto(<< >>)
  /\ UNCHANGED continuous

SetPinStep(p) ==
  /\ At("SetPin", p)
  /\ port' = [port EXCEPT ![p].dirPin = Head(todo).x]
  /\ Goto(<< >>)
  /\ UNCHANGED continuous

DataDisableStep(p) ==
  /\ At("DataDisable", p)
  /\ IF port[p].state = "kIdle"
       THEN UNCHANGED port /\ Goto(<< >>)
       ELSE /\ port' = [port EXCEPT ![p].state = "kIdle"]
            /\ Goto(<< S(IF port[p].direction = "kOutput" THEN "WaitIdle"
                                                         ELSE "RxOff", p) >>)
  /\ UNCHANGED continuous

RxOffStep(p) ==
  /\ At("RxOff", p)
  /\ port' = [port EXCEPT ![p].rxIrq = FALSE]
  /\ Goto(<< >>)
  /\ UNCHANGED continuous

\* Mutants of WaitIdleStep: USART_FLAG_TC is cleared and awaited whatever the
\* state is; a packet under way is not waited for.
WaitIdleStepAlwaysTc(p) ==
  /\ At("WaitIdle", p)
  /\ port' = [port EXCEPT ![p].tc = FALSE]
  /\ Goto(<< S("WaitTc", p) >>)
  /\ UNCHANGED continuous

WaitIdleStepSkipped(p) ==
  At("WaitIdle", p) /\ Goto(<< >>) /\ UNCHANGED <<port, continuous>>

\* One turn of DataDisable's outer loop; it spins in Break and Mab.
WaitIdleStep(p) ==
  /\ At("WaitIdle", p)
  /\ \/ /\ port[p].dmx = "kDmxInter"
        /\ port' = [port EXCEPT ![p].tc = FALSE]
        /\ Goto(<< S("WaitTc", p) >>)
     \/ /\ port[p].dmx = "kIdle"
        /\ Goto(<< >>)
        /\ UNCHANGED port
  /\ UNCHANGED continuous

WaitTcStep(p) ==
  /\ At("WaitTc", p)
  /\ port[p].tc
  /\ Goto(<< S("ForceIdle", p) >>)
  /\ UNCHANGED <<port, continuous>>

ForceIdleStep(p) ==
  /\ At("ForceIdle", p)
  /\ port' = [port EXCEPT ![p].dmx = "kIdle"]
  /\ Goto(<< S("WaitIdle", p) >>)
  /\ UNCHANGED continuous

\* An input first waits until the transmit register is empty (USART_FLAG_TBE),
\* at most a slot.
DataEnableStep(p) ==
  /\ At("DataEnable", p)
  /\ IF port[p].direction = "kOutput"
       THEN /\ port' = [port EXCEPT ![p].state = "kTx", ![p].dmx = "kIdle"]
            /\ Goto(SetOutputStyle(p, port[p].style))
       ELSE /\ port' = [port EXCEPT ![p].state = "kRx", ![p].rxIrq = TRUE]
            /\ Goto(<< >>)
  /\ UNCHANGED continuous

\* Mutant: the flag is kept when the last continuous output becomes triggered.
AnyConstantKept(ports) == continuous

AnyConstant(ports) == \E p \in Ports : ports[p].style = "kConstant"

SetOutputStyleStep(p) ==
  LET style == Head(todo).x IN
  /\ At("SetOutputStyle", p)
  /\ port' = [port EXCEPT ![p].style = style]
  /\ \/ /\ style = "kConstant"
        /\ continuous' = TRUE
        /\ Goto(IF continuous
                  THEN ForEachPort("ConstantDisable") \o ForEachPort("ConstantStart")
                  ELSE IF port[p].direction = "kOutput"
                         THEN << S("StartDmxOutput", p) >> ELSE << >>)
     \/ /\ style # "kConstant"
        /\ continuous' = AnyConstant(port')
        /\ Goto(<< >>)

\* Mutant: the loops of SetOutputStyle look at the inputs.
IsConstantOutputInput(p) ==
  port[p].style = "kConstant" /\ port[p].direction = "kInput"

IsConstantOutput(p) ==
  port[p].style = "kConstant" /\ port[p].direction = "kOutput"

ConstantLoopStep(p) ==
  /\ \/ At("ConstantDisable", p) /\ Goto(IF IsConstantOutput(p) THEN << S("DataDisable", p) >> ELSE << >>)
     \/ At("ConstantStart", p) /\ Goto(IF IsConstantOutput(p) THEN << S("StartDmxOutput", p) >> ELSE << >>)
  /\ UNCHANGED <<port, continuous>>

-----------------------------------------------------------------------------
(***************************************************************************)
(* Starting a packet: wait for USART_FLAG_TC, pull the TX pin low, then    *)
(* program the compare value and the state.  The last two are one step:    *)
(* the compare event is a whole break time (at least 92 us) away.          *)
(***************************************************************************)
\* Mutant: the break does not wait for the last slots of the packet before.
StartDmxOutputStepEarly(p) ==
  /\ At("StartDmxOutput", p)
  /\ Goto(<< S("DriveBreak", p) >>)
  /\ UNCHANGED <<port, continuous>>

StartDmxOutputStep(p) ==
  /\ At("StartDmxOutput", p)
  /\ port[p].tc
  /\ Goto(<< S("DriveBreak", p) >>)
  /\ UNCHANGED <<port, continuous>>

StartRdmOutputStep(p) ==
  /\ At("StartRdmOutput", p)
  /\ port[p].tc
  /\ Goto(<< S("DriveRdmBreak", p) >>)
  /\ UNCHANGED <<port, continuous>>

DriveBreakStep(p) ==
  /\ \/ At("DriveBreak", p) /\ Goto(<< S("ArmBreak", p) >>)
     \/ At("DriveRdmBreak", p) /\ Goto(<< S("ArmRdmBreak", p) >>)
  /\ port' = [port EXCEPT ![p].txPin = "low"]
  /\ UNCHANGED continuous

\* Mutant: no compare value is programmed.
ArmBreakStepUnarmed(p) ==
  /\ At("ArmBreak", p)
  /\ port' = [port EXCEPT ![p].dmx = "kDmxBreak"]
  /\ Goto(<< >>)
  /\ UNCHANGED continuous

ArmBreakStep(p) ==
  /\ At("ArmBreak", p)
  /\ port' = [port EXCEPT ![p].armed = TRUE, ![p].dmx = "kDmxBreak"]
  /\ Goto(<< >>)
  /\ UNCHANGED continuous

ArmRdmBreakStep(p) ==
  /\ At("ArmRdmBreak", p)
  /\ port' = [port EXCEPT ![p].armed = TRUE, ![p].rdm = "kBreak"]
  /\ Goto(<< >>)
  /\ UNCHANGED continuous

\* Mutant: the writer moves to the other buffer for every packet.
SetSendDataStepAlways(p) ==
  /\ At("SetSendData", p)
  /\ Goto(<< SX("SwitchBuffer", p, Head(todo).x) >>)
  /\ UNCHANGED <<port, continuous>>

\* With no packet waiting, the writer moves to the other buffer.  The interrupt
\* that takes the waiting packet may come between the test and the move.
SetSendDataStep(p) ==
  /\ At("SetSendData", p)
  /\ Goto(<< SX(IF port[p].read = port[p].write THEN "SwitchBuffer" ELSE "CopyData",
                p, Head(todo).x) >>)
  /\ UNCHANGED <<port, continuous>>

\* Mutant: the index of the write buffer is incremented, not toggled.
SwitchBufferStepIncremented(p) ==
  /\ At("SwitchBuffer", p)
  /\ port' = [port EXCEPT ![p].write = @ + 1]
  /\ Goto(<< SX("CopyData", p, Head(todo).x) >>)
  /\ UNCHANGED continuous

SwitchBufferStep(p) ==
  /\ At("SwitchBuffer", p)
  /\ port' = [port EXCEPT ![p].write = 1 - @]
  /\ Goto(<< SX("CopyData", p, Head(todo).x) >>)
  /\ UNCHANGED continuous

\* The memcpy into data[write_index] is over.
CopyDataStep(p) ==
  /\ At("CopyData", p)
  /\ port' = [port EXCEPT ![p].pending = TRUE]
  /\ Goto(IF Head(todo).x = "kDirect" THEN << S("StartSendStyleDirect", p) >> ELSE << >>)
  /\ UNCHANGED continuous

\* A triggered packet starts only on an enabled port that is not sending one.
CanTrigger(p) ==
  /\ port[p].state = "kTx"
  /\ port[p].style = "kDelta"
  /\ port[p].dmx = "kIdle"

StartSendStyleDirectStep(p) ==
  /\ At("StartSendStyleDirect", p)
  /\ Goto(IF CanTrigger(p) THEN << S("StartDmxOutput", p) >> ELSE << >>)
  /\ UNCHANGED <<port, continuous>>

SyncPortStep(p) ==
  /\ At("SyncPort", p)
  /\ port' = [port EXCEPT ![p].pending = FALSE]
  /\ Goto(IF port[p].pending /\ CanTrigger(p) THEN << S("StartDmxOutput", p) >> ELSE << >>)
  /\ UNCHANGED continuous

\* Mutant: the port is enabled again without having been disabled.
BlackoutStepEnableOnly(p) ==
  /\ At("Blackout", p)
  /\ Goto(IF port[p].direction = "kOutput" THEN << S("DataEnable", p) >> ELSE << >>)
  /\ UNCHANGED <<port, continuous>>

\* Blackout and FullOn; ClearData stands for the level they write.
BlackoutStep(p) ==
  /\ At("Blackout", p)
  /\ Goto(IF port[p].direction = "kOutput"
            THEN << S("DataDisable", p), S("ClearData", p), S("DataEnable", p) >>
            ELSE << >>)
  /\ UNCHANGED <<port, continuous>>

ClearDataStep(p) == At("ClearData", p) /\ Goto(<< >>) /\ UNCHANGED <<port, continuous>>

\* A discovery response goes out by polling, without break and without DMA.
SendDiscoveryStep(p) ==
  /\ At("SendDiscovery", p)
  /\ port' = [port EXCEPT ![p].shift = TRUE, ![p].tc = FALSE]
  /\ Goto(<< >>)
  /\ UNCHANGED continuous

WaitDiscoveryStep(p) ==
  /\ At("WaitDiscovery", p)
  /\ port[p].tc
  /\ Goto(<< >>)
  /\ UNCHANGED <<port, continuous>>

-----------------------------------------------------------------------------
(***************************************************************************)
(* The interrupts.  StartDma: DmaStartTx, after which the USART sends and  *)
(* USART_FLAG_TC is clear until the last slot has left the shift register. *)
(***************************************************************************)
StartDma(p, packet) ==
  port' = [port EXCEPT ![p].dma = packet, ![p].shift = TRUE, ![p].tc = FALSE,
                       ![p].armed = FALSE,
                       ![p].read = IF packet = "dmx" THEN port[p].write ELSE @]

\* Mutant: a packet goes out only if there is new data for it.
DmxTimerIfNew(p) ==
  \/ /\ port[p].dmx = "kDmxInter"
     /\ port' = [port EXCEPT ![p].txPin = "low", ![p].dmx = "kDmxBreak"]
  \/ /\ port[p].dmx = "kDmxBreak"
     /\ port' = [port EXCEPT ![p].txPin = "af", ![p].dmx = "kDmxMab"]
  \/ /\ port[p].dmx = "kDmxMab"
     /\ IF port[p].read # port[p].write
          THEN StartDma(p, "dmx")
          ELSE port' = [port EXCEPT ![p].dmx = "kDmxInter"]

DmxTimer(p) ==
  \/ /\ port[p].dmx = "kDmxInter"
     /\ port' = [port EXCEPT ![p].txPin = "low", ![p].dmx = "kDmxBreak"]
  \/ /\ port[p].dmx = "kDmxBreak"
     /\ port' = [port EXCEPT ![p].txPin = "af", ![p].dmx = "kDmxMab"]
  \/ /\ port[p].dmx = "kDmxMab"
     /\ StartDma(p, "dmx")

\* The last case is SetPortDirection<port, kInput, true> on an idle port.
RdmTimer(p) ==
  \/ /\ port[p].rdm = "kBreak"
     /\ port' = [port EXCEPT ![p].txPin = "af", ![p].rdm = "kMab"]
  \/ /\ port[p].rdm = "kMab"
     /\ StartDma(p, "rdm")
  \/ /\ port[p].rdm = "kDirection"
     /\ port' = [port EXCEPT
          ![p].rdm = "kIdle", ![p].armed = FALSE,
          ![p].direction = "kInput",
          ![p].dirPin = IF port[p].direction # "kInput" THEN "kInput" ELSE @,
          ![p].rxIrq = TRUE, ![p].state = "kRx"]

(***************************************************************************)
(* The compare event.  The packet's last two slots (88 us) have left the   *)
(* shift register when the direction time (94 us), a break (at least       *)
(* 92 us) or, for LongInter, the inter-packet time has passed; and         *)
(* DataDisable, which polls, has then seen USART_FLAG_TC.  A discovery     *)
(* response is longer than a break.                                        *)
(* An event with nothing to do is an assertion in the handlers of all      *)
(* ports but the first; here, as with NDEBUG, it does nothing.             *)
(***************************************************************************)
TimerIrq(p) ==
  /\ port[p].armed
  /\ LongInter /\ port[p].dmx = "kDmxInter" => ~port[p].shift /\ ~At("ForceIdle", p)
  /\ port[p].dmx = "kDmxBreak" /\ port[p].dma = "none" =>
       ~port[p].shift \/ At("WaitDiscovery", p)
  /\ port[p].dmx = "kIdle" /\ port[p].rdm = "kDirection" => ~port[p].shift
  /\ \/ port[p].dmx # "kIdle" /\ DmxTimer(p)
     \/ port[p].dmx = "kIdle" /\ RdmTimer(p)
     \/ /\ port[p].dmx = "kIdle" /\ port[p].rdm = "kIdle"
        /\ port' = [port EXCEPT ![p].armed = FALSE]
  /\ UNCHANGED <<continuous, todo>>

\* DMA full transfer: the last slots are still being shifted out.
DmaIrq(p) ==
  /\ port[p].dma # "none"
  /\ port' = [port EXCEPT
       ![p].dma = "none",
       ![p].dmx = IF port[p].dmx = "kIdle" THEN @
                  ELSE IF port[p].style = "kDelta" THEN "kIdle" ELSE "kDmxInter",
       ![p].rdm = IF port[p].dmx = "kIdle" /\ port[p].rdm # "kIdle"
                  THEN "kDirection" ELSE @,
       ![p].armed = @ \/ (IF port[p].dmx # "kIdle" THEN port[p].style # "kDelta"
                                                  ELSE port[p].rdm # "kIdle")]
  /\ UNCHANGED <<continuous, todo>>

\* The USART has sent the last slot and sets USART_FLAG_TC.
Shifted(p) ==
  /\ port[p].shift
  /\ port[p].dma = "none"
  /\ port' = [port EXCEPT ![p].shift = FALSE, ![p].tc = TRUE]
  /\ UNCHANGED <<continuous, todo>>

-----------------------------------------------------------------------------
MainStep(p) ==
  \/ SetPortDirectionStep(p)
  \/ SetPinStep(p)
  \/ DataDisableStep(p)
  \/ RxOffStep(p)
  \/ WaitIdleStep(p)
  \/ WaitTcStep(p)
  \/ ForceIdleStep(p)
  \/ DataEnableStep(p)
  \/ SetOutputStyleStep(p)
  \/ ConstantLoopStep(p)
  \/ StartDmxOutputStep(p)
  \/ StartRdmOutputStep(p)
  \/ DriveBreakStep(p)
  \/ ArmBreakStep(p)
  \/ ArmRdmBreakStep(p)
  \/ SetSendDataStep(p)
  \/ SwitchBufferStep(p)
  \/ CopyDataStep(p)
  \/ StartSendStyleDirectStep(p)
  \/ SyncPortStep(p)
  \/ BlackoutStep(p)
  \/ ClearDataStep(p)
  \/ SendDiscoveryStep(p)
  \/ WaitDiscoveryStep(p)

\* The steps that poll what the interrupts and the USART change.
PollStep(p) ==
  WaitIdleStep(p) \/ WaitTcStep(p) \/ StartDmxOutputStep(p) \/ StartRdmOutputStep(p)

Irq(p) == TimerIrq(p) \/ DmaIrq(p) \/ Shifted(p)

Next ==
  \/ \E steps \in Calls : Call(steps)
  \/ \E p \in Ports : MainStep(p) \/ Irq(p)

Spec == Init /\ [][Next]_vars

-----------------------------------------------------------------------------
(***************************************************************************)
(* Properties that hold whatever the main loop calls, in whatever order.   *)
(***************************************************************************)
\* A transmit state machine that is not idle has an interrupt ahead of it:
\* no sequence of calls and interrupts leaves a packet stuck half-way, with
\* neither a compare event nor a DMA transfer to move it on.
NoLostWakeup ==
  \A p \in Ports : port[p].dmx # "kIdle" => port[p].armed \/ port[p].dma # "none"

\* The unbounded waits for USART_FLAG_TC ("Do we need a timeout just to be
\* safe?") end: the flag is set, or the USART is sending and will set it, or
\* a compare event is ahead that starts the packet whose end sets it.
WaitsForTc(p) ==
  \E op \in {"WaitTc", "StartDmxOutput", "StartRdmOutput", "WaitDiscovery"} : At(op, p)

BusyWaitEnds ==
  \A p \in Ports :
    WaitsForTc(p) => port[p].tc \/ port[p].shift \/ (port[p].armed /\ port[p].dmx # "kIdle")

\* has_continuos_output_, which decides whether a new continuous output also
\* restarts the others, agrees with the styles of the ports.
ContinuousFlag == continuous <=> \E p \in Ports : port[p].style = "kConstant"
=============================================================================
