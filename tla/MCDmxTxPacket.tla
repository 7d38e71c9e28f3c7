---------------------------- MODULE MCDmxTxPacket ----------------------------
(***************************************************************************)
(* One port and the calls that DmxSend and the widget make of its output.  *)
(* The slots of a universe have one value, so that a packet with slots of  *)
(* two universes shows; one universe is shorter, one longer than the slots *)
(* that are transmitted.  The host passes full universes.                  *)
(***************************************************************************)
EXTENDS DmxTxPacket

OutputCalls ==
       {SetPortDirection(0, "kOutput", enable) : enable \in BOOLEAN}
  \cup {SetOutputStyle(0, style) : style \in OutputStyles}
  \cup {SetTransmitData(0, x) : x \in SendStyles}
  \cup {Sync, Blackout}

Uniform(sc, v, length) ==
  [sc |-> sc, length |-> length, slot |-> [i \in Index |-> IF i = 0 THEN 0 ELSE v]]

AnyUniverses  == {Uniform(FALSE, 1, 1), Uniform(TRUE, 2, 3)}
HostUniverses == {Uniform(TRUE, 1, 3)}
=============================================================================
