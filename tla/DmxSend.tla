------------------------------- MODULE DmxSend -------------------------------
(***************************************************************************)
(* DmxSend (lib-dmx/include/dmxsend.h), the DMX output of a node, as the   *)
(* only caller of the driver.  Received(p) stands for the network side of  *)
(* the node, which merges a universe into dmxnode::Data.                   *)
(***************************************************************************)
EXTENDS DmxTransmit, FiniteSets

CONSTANTS
  Styles,     \* the output styles the node's configuration may select
  Restyle,    \* TRUE: the style may be changed after the first Start, too
  BlackoutStopped   \* TRUE: Blackout may be called while an output is stopped

ASSUME NodeAssumption ==
  /\ Styles \subseteq OutputStyles
  /\ Restyle \in BOOLEAN
  /\ BlackoutStopped \in BOOLEAN

VARIABLES
  started,   \* started_, as a set of ports
  hasData    \* the ports for which dmxnode::Data::GetLength is not 0

nodeVars == <<port, continuous, todo, started, hasData>>

\* Ports that are started or have data are ports of the driver.
NodeTypeOK == TypeOK /\ started \subseteq Ports /\ hasData \subseteq Ports

NodeInit == Init /\ started = {} /\ hasData = {}

\* The ports of a set, in the order of the loop in Sync.
Ascending(ports) ==
  {f \in [1 .. Cardinality(ports) -> ports] :
     \A i, j \in 1 .. Cardinality(ports) : i < j => f[i] < f[j]}

StartSteps(f) == [i \in DOMAIN f |-> SX("SetPortDirectionEnable", f[i], "kOutput")]

Start(p) ==
  /\ p \notin started
  /\ started' = started \cup {p}
  /\ Call(SetPortDirection(p, "kOutput", TRUE))
  /\ UNCHANGED hasData

Stop(p) ==
  /\ p \in started
  /\ started' = started \ {p}
  /\ Call(SetPortDirection(p, "kOutput", FALSE))
  /\ UNCHANGED hasData

\* The network side stores a new universe for the port in dmxnode::Data.
Received(p) ==
  /\ hasData' = hasData \cup {p}
  /\ UNCHANGED <<port, continuous, todo, started>>

SetData(p) ==
  /\ Call(SetTransmitData(p, "kDirect"))
  /\ UNCHANGED <<started, hasData>>

SyncPort(p) ==
  /\ p \in hasData
  /\ Call(SetTransmitData(p, "kSync"))
  /\ UNCHANGED <<started, hasData>>

\* The ports that have data and are not started are started after the Sync.
SyncAll ==
  /\ \E f \in Ascending(hasData \ started) : Call(Sync \o StartSteps(f))
  /\ started' = started \cup hasData
  /\ hasData' = {}

SetStyle(p) ==
  /\ Restyle \/ port[p].direction = "kInput"
  /\ \E style \in Styles : Call(SetOutputStyle(p, style))
  /\ UNCHANGED <<started, hasData>>

BlackoutAll ==
  /\ BlackoutStopped \/ \A p \in Ports : port[p].direction = "kOutput" => p \in started
  /\ Call(Blackout)
  /\ UNCHANGED <<started, hasData>>

Driver(p) == (MainStep(p) \/ Irq(p)) /\ UNCHANGED <<started, hasData>>

NodeNext ==
  \/ \E p \in Ports :
       \/ Start(p) \/ Stop(p) \/ Received(p) \/ SetData(p) \/ SyncPort(p)
       \/ SetStyle(p) \/ Driver(p)
  \/ SyncAll
  \/ BlackoutAll

(***************************************************************************)
(* Fairness.  The main loop runs whenever no interrupt does, and the       *)
(* interrupts come: the timer counts and the USART shifts.  A polling loop  *)
(* is a few instructions, what it polls for (a gap between two packets, the *)
(* flag between two transfers) lasts tens of microseconds at least: it     *)
(* cannot be missed every time (strong fairness).                          *)
(***************************************************************************)
Fairness ==
  \A p \in Ports :
    /\ WF_nodeVars(MainStep(p) /\ UNCHANGED <<started, hasData>>)
    /\ SF_nodeVars(PollStep(p) /\ UNCHANGED <<started, hasData>>)
    /\ WF_nodeVars(TimerIrq(p) /\ UNCHANGED <<started, hasData>>)
    /\ WF_nodeVars(DmaIrq(p) /\ UNCHANGED <<started, hasData>>)
    /\ WF_nodeVars(Shifted(p) /\ UNCHANGED <<started, hasData>>)

NodeSpec == NodeInit /\ [][NodeNext]_nodeVars /\ Fairness
-----------------------------------------------------------------------------
(***************************************************************************)
(* Properties                                                              *)
(***************************************************************************)
\* The TX pin belongs to the USART for as long as slots are on the wire: no
\* break is driven into a packet that is being sent, and no DMA transfer is
\* started on a line that is held low.  It holds of a continuous output only
\* if its inter-packet time is longer than two slots, LongInter: the compare
\* event would drive the break into them otherwise (dmx.cpp:548).
FrameNotCut ==
  \A p \in Ports : port[p].shift => port[p].txPin = "af"

\* Between calls, a port that sends nothing does not hold the line in a break.
LineReleased ==
  todo = << >> => \A p \in Ports : port[p].dmx = "kIdle" => port[p].txPin = "af"

\* A port that was started and stopped sends nothing: Stop returns once the
\* packet under way is over, and no later data, Sync or Blackout brings it back.
StoppedIsQuiet ==
  todo = << >> => \A p \in Ports \ started : port[p].dmx = "kIdle"

\* "DMX frame is triggered" (dmxconst.h, kDelta): a packet that was triggered
\* is sent, whatever Stop, Blackout or the next data do meanwhile.
TriggeredFrameSent ==
  \A p \in Ports : At("StartDmxOutput", p) ~> (port[p].dma = "dmx")

\* "DMX output is continuous" (dmxconst.h, kConstant): a started port goes on
\* sending packets, new data or not, and new data is picked up.
ContinuousOutput ==
  \A p \in Ports :
    <>[](p \in started /\ port[p].style = "kConstant" /\ ~At("Blackout", p))
      => []<>(port[p].dma = "dmx" /\ port[p].read = port[p].write)

\* assert(sv_port_state[port_index] == dmx::PortState::kIdle) in DataEnable.
DataEnableAssert ==
  \A p \in Ports : At("DataEnable", p) => port[p].state = "kIdle"
=============================================================================
