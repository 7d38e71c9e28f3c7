---------------------------- MODULE MCDmxTransmit ----------------------------
(***************************************************************************)
(* The driver under a main loop that makes any of its calls on port 0 at   *)
(* any time, also in orders that no product has.  Port 1 stays an input    *)
(* whose style changes: making it continuous restarts the output of port 0 *)
(* whatever that port is doing.                                            *)
(***************************************************************************)
EXTENDS DmxTransmit

AnyCall ==
       {SetPortDirection(0, d, enable) : d \in Directions, enable \in BOOLEAN}
  \cup {SetOutputStyle(p, style) : p \in Ports, style \in OutputStyles}
  \cup {SetTransmitData(0, x) : x \in SendStyles}
  \cup {Sync, Blackout}
  \cup {RdmTransmit(0)}
  \cup {RdmTransmitDiscoveryRespondMessage(0)}
=============================================================================
