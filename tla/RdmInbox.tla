------------------------------ MODULE RdmInbox ------------------------------
(***************************************************************************)
(* What Rdm::Receive (lib-rdm/src/gd32/rdm.cpp) promises its caller: the   *)
(* last RDM message sent to the port, once, unchanged while it is used.  A *)
(* message that is not taken before the next one comes is lost.            *)
(* DmxReceive implements it.                                               *)
(***************************************************************************)
CONSTANTS Message, None

VARIABLES
  last,     \* the last message, until it is taken
  reading   \* the message the caller has

TypeOK == last \in Message \cup {None} /\ reading \in Message \cup {None}

Init == last = None /\ reading = None

Arrive(m) == last' = m /\ UNCHANGED reading

Take == /\ last # None /\ reading = None
        /\ reading' = last
        /\ last' = None

Done == /\ reading # None
        /\ reading' = None
        /\ UNCHANGED last

Next == (\E m \in Message : Arrive(m)) \/ Take \/ Done

Spec == Init /\ [][Next]_<<last, reading>>
=============================================================================
