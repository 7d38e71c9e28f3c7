---------------------------- MODULE MCDmxReceive ----------------------------
EXTENDS DmxReceive
MCMessages == {[kind |-> "dmx", length |-> 2], [kind |-> "dmx", length |-> 3],
               [kind |-> "rdm", length |-> 3], [kind |-> "other", length |-> 2],
               [kind |-> "reply", length |-> 2]}
MCAnyMessages == {[kind |-> "dmx", length |-> 3], [kind |-> "rdm", length |-> 3],
                  [kind |-> "reply", length |-> 2]}
MCDmxMessages == {[kind |-> "dmx", length |-> 2], [kind |-> "dmx", length |-> 3]}
=============================================================================
