------------------------------- MODULE Widget -------------------------------
(***************************************************************************)
(* The DMX USB Pro widget (lib-widget/src/widget.cpp) on port 0 of the     *)
(* driver: the host sends it messages, a label each; the widget drives the *)
(* port and hands the answers of an RDM responder to the host.             *)
(*                                                                         *)
(* The time a host and a responder take is not bounded: only the second    *)
(* RdmTimeout waits for is longer than any packet the driver is sending.   *)
(***************************************************************************)
EXTENDS DmxTransmit

CONSTANTS
  Patient,      \* TRUE: during an RDM transaction the host sends DMX data only
  Switches,     \* FALSE: the host sends no RDM request while DMX is output
  LateAnswers   \* FALSE: an RDM message is received in answer to a request,
                \* and within the second

ASSUME WidgetAssumption ==
  /\ N = 1      \* the driver is built with one port
  /\ Patient \in BOOLEAN
  /\ Switches \in BOOLEAN
  /\ LateAnswers \in BOOLEAN

SendStates == {"kAlways", "kOnDataChangeOnly"}

\* What Rdm::Receive returns: nothing, the answer to a unique branch, another
\* discovery response (DISC_MUTE), or the answer to a GET or SET.
Answers == {"none", "branch", "mute", "response"}

VARIABLES
  timing,       \* send_rdm_packet_start_millis_ is not 0
  discovery,    \* is_rdm_discovery_running_
  sendState,    \* send_state_
  answer,       \* an RDM message the receive side has complete
  output,       \* history: the request carried out last was Output Only Send DMX
  turn          \* the part of Run that is next, or whose calls are under way

own == <<timing, discovery, sendState, answer, output, turn>>
widgetVars == <<port, continuous, todo, own>>

\* The widget's variables have their types.
WidgetTypeOK ==
  /\ TypeOK
  /\ timing \in BOOLEAN
  /\ discovery \in BOOLEAN
  /\ sendState \in SendStates
  /\ answer \in Answers
  /\ output \in BOOLEAN
  /\ turn \in {"host", "rdm", "timeout"}

\* The constructor selects the continuous style on an input that is disabled.
WidgetInit ==
  /\ port = [p \in Ports |->
       [direction |-> "kInput", state |-> "kIdle", style |-> "kConstant",
        dmx |-> "kIdle", rdm |-> "kIdle", read |-> 0, write |-> 0,
        pending |-> FALSE, rxIrq |-> FALSE, txPin |-> "af",
        dirPin |-> "kInput", armed |-> FALSE, dma |-> "none",
        shift |-> FALSE, tc |-> TRUE]]
  /\ continuous = TRUE
  /\ todo = << >>
  /\ timing = FALSE
  /\ discovery = FALSE
  /\ sendState = "kAlways"
  /\ answer = "none"
  /\ output = FALSE
  /\ turn = "host"

-----------------------------------------------------------------------------
(***************************************************************************)
(* Widget::Run: ReceiveDataFromHost, then ReceivedRdmPacket, RdmTimeout.   *)
(* A part of Run is over when the calls it made have returned.             *)
(***************************************************************************)
Turn(from, to) == todo = << >> /\ turn = from /\ turn' = to

\* The host is not sending.
NoByte ==
  /\ Turn("host", "rdm")
  /\ UNCHANGED <<port, continuous, todo, timing, discovery, sendState, answer, output>>

Request(steps) ==
  /\ Turn("host", "rdm")
  /\ Call(steps)
  /\ UNCHANGED answer

\* A request that takes the port from an RDM transaction.
HostReady == Patient => ~timing

\* Mutant: the reply is sent without touching the port.
TakeDownNever == << >>

\* Labels 4, 10, 77 and 78: the port is taken down while the widget stores
\* its parameters or answers the host, and is an input afterwards.
TakeDown == SetPortDirection(0, "kInput", FALSE) \o SetPortDirection(0, "kInput", TRUE)

ParamsSnNameRequest ==
  /\ HostReady
  /\ Request(TakeDown)
  /\ output' = FALSE
  /\ UNCHANGED <<timing, discovery, sendState>>

ReceiveDmxOnChange ==
  /\ HostReady
  /\ Request(TakeDown)
  /\ sendState' \in SendStates
  /\ output' = FALSE
  /\ UNCHANGED <<timing, discovery>>

\* Mutant: the port is not enabled again.
OutputOnlyDisabled == SetPortDirection(0, "kOutput", FALSE) \o SetTransmitData(0, "kDirect")

OutputOnly ==
  SetPortDirection(0, "kOutput", FALSE) \o SetTransmitData(0, "kDirect")
    \o SetPortDirection(0, "kOutput", TRUE)

\* Mutant: label 6 is carried out during an RDM transaction, too.
SendDmxPacketRequestOutputOnlyAlways ==
  /\ Request(OutputOnly)
  /\ output' = TRUE
  /\ UNCHANGED <<timing, discovery, sendState>>

\* Label 6 is dropped during an RDM transaction.
SendDmxPacketRequestOutputOnly ==
  /\ IF timing THEN Request(<< >>) /\ UNCHANGED output
               ELSE Request(OutputOnly) /\ output' = TRUE
  /\ UNCHANGED <<timing, discovery, sendState>>

\* Labels 7 and 11.  Nothing else of the widget runs between the transmission
\* and the assignments that follow it.
SendRdm(isDiscovery) ==
  /\ HostReady
  /\ Switches \/ ~output
  /\ Request(RdmTransmit(0))
  /\ timing' = TRUE
  /\ discovery' = isDiscovery
  /\ output' = FALSE
  /\ UNCHANGED sendState

SendRdmPacketRequest == \E isDiscovery \in BOOLEAN : SendRdm(isDiscovery)

SendRdmDiscoveryRequest == SendRdm(TRUE)

-----------------------------------------------------------------------------
RdmTimeOutMessage == timing' = FALSE /\ discovery' = FALSE

\* An RDM message from the line, received while the port listens.
Answered ==
  /\ port[0].state = "kRx" /\ port[0].rxIrq /\ port[0].dirPin = "kInput"
  /\ LateAnswers \/ (timing /\ answer = "none" /\ todo = << >> /\ port[0].rdm = "kIdle")
  /\ answer' \in Answers \ {"none"}
  /\ UNCHANGED <<port, continuous, todo, timing, discovery, sendState, output, turn>>

ReceivedRdmPacket ==
  /\ Turn("rdm", "timeout")
  /\ \/ /\ sendState = "kOnDataChangeOnly" \/ answer = "none"
        /\ UNCHANGED <<timing, discovery, answer>>
     \/ /\ sendState # "kOnDataChangeOnly" /\ answer # "none"
        /\ answer' = "none"
        /\ IF answer = "branch" THEN RdmTimeOutMessage
                                ELSE timing' = FALSE /\ UNCHANGED discovery
  /\ UNCHANGED <<port, continuous, todo, sendState, output>>

\* The second has passed: a packet the driver was sending is gone by then.
RdmSending == port[0].rdm # "kIdle" /\ port[0].dmx = "kIdle"

\* Mutant: only a discovery times out.
SecondOverDiscovery == timing /\ discovery /\ ~RdmSending /\ answer = "none"

SecondOver ==
  /\ timing
  /\ ~RdmSending
  /\ LateAnswers \/ answer = "none" \/ sendState = "kOnDataChangeOnly"

RdmTimeout ==
  /\ Turn("timeout", "host")
  /\ \/ SecondOver /\ RdmTimeOutMessage
     \/ UNCHANGED <<timing, discovery>>
  /\ UNCHANGED <<port, continuous, todo, sendState, answer, output>>

Driver == (MainStep(0) \/ Irq(0)) /\ UNCHANGED own

WidgetNext ==
  \/ NoByte
  \/ ParamsSnNameRequest
  \/ ReceiveDmxOnChange
  \/ SendDmxPacketRequestOutputOnly
  \/ SendRdmPacketRequest
  \/ SendRdmDiscoveryRequest
  \/ Answered
  \/ ReceivedRdmPacket
  \/ RdmTimeout
  \/ Driver

(***************************************************************************)
(* Fairness: as for DmxSend; and the widget's loop goes round (RdmTimeout). *)
(***************************************************************************)
Fairness ==
  /\ WF_widgetVars(MainStep(0) /\ UNCHANGED own)
  /\ SF_widgetVars(PollStep(0) /\ UNCHANGED own)
  /\ WF_widgetVars(TimerIrq(0) /\ UNCHANGED own)
  /\ WF_widgetVars(DmaIrq(0) /\ UNCHANGED own)
  /\ WF_widgetVars(Shifted(0) /\ UNCHANGED own)
  /\ WF_widgetVars(NoByte)
  /\ WF_widgetVars(ReceivedRdmPacket)
  /\ WF_widgetVars(RdmTimeout)
  /\ SF_widgetVars(RdmTimeout /\ SecondOver /\ ~timing')

WidgetSpec == WidgetInit /\ [][WidgetNext]_widgetVars /\ Fairness
-----------------------------------------------------------------------------
\* "requests the Widget to send an RDM packet out of the Widget DMX port": the
\* packet of a request is handed to the USART.  It is not when DMX is being
\* output (Switches = TRUE); no run claims it.
RdmRequestSent == (At("StartRdmOutput", 0)) ~> (port[0].dma = "rdm")

\* "and then change the DMX port direction to input, so that RDM or DMX packets
\* can be received": a request is followed by a port that listens.
RdmThenListens ==
  At("StartRdmOutput", 0) ~> (port[0].state = "kRx" /\ port[0].rxIrq /\ port[0].dirPin = "kInput")

\* The line driver is on for as long as an RDM packet is on the wire: nothing
\* the widget does meanwhile turns the port round.
RdmOnTheWire == port[0].dma = "rdm" => port[0].dirPin = "kOutput"

\* Between requests, the direction pin is where the driver believes it is and
\* a port that listens has its receive interrupts on.
PinAgrees ==
  todo = << >> => /\ port[0].dirPin = port[0].direction
                  /\ port[0].state = "kRx" => port[0].rxIrq /\ port[0].direction = "kInput"

\* "The periodic DMX packet output will stop and the Widget DMX port direction
\* will change to input when the Widget receives any request message other
\* than the Output Only Send DMX Packet request": once the request is carried
\* out, no DMX packet reaches the wire.
OutputStops ==
  (todo = << >> /\ ~output /\ ~RdmSending) => port[0].dirPin = "kInput"

\* "requests the Widget to periodically send a DMX packet": it goes on until
\* another request comes.
PeriodicOutput ==
  <>[](output /\ todo = << >>) => []<>(port[0].dma = "dmx" /\ port[0].dirPin = "kOutput"
                                        /\ port[0].read = port[0].write)

\* "The Widget sends this message to the PC unsolicited, whenever the Widget
\* receives a DMX or RDM packet ... and the mode is Send always": reception is
\* suspended for the duration of a discovery only.  After an answer other than
\* that of a unique branch it stays suspended; no run claims it.
DmxForwarded == (todo = << >> /\ discovery) => timing

\* Every call of the driver returns, so the widget's loop (and the watchdog
\* it feeds) goes on.
CallsReturn == (todo # << >>) ~> (todo = << >>)

\* An RDM transaction ends: an answer or the time-out clears it.
TransactionEnds == timing ~> ~timing
=============================================================================
