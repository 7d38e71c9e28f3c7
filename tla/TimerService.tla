---------------------------- MODULE TimerService ----------------------------
(***************************************************************************)
(* What the software timers promise (the comments of softwaretimers.cpp):  *)
(* every timer has a countdown of its own.  A timer that expires calls its *)
(* callback once and is rescheduled; no other timer's countdown is touched *)
(* by that, unless its callback deletes or changes it.  There are never more timers   *)
(* than the pool has room for.                                             *)
(*                                                                         *)
(* With Disturbed, what they keep of it: a callback that deletes a timer   *)
(* may cost one other timer its countdown, and nothing else may.           *)
(***************************************************************************)
EXTENDS Integers, FiniteSets

CONSTANTS Handles, Intervals, Wrap, Capacity, Disturbed

VARIABLES due,   \* a function: handle of an active timer -> [expire, interval]
          now    \* timing::Millis()

serviceVars == <<due, now>>

Without(timers, ids) == [id \in DOMAIN timers \ ids |-> timers[id]]
With(timers, id, interval) ==
  [i \in DOMAIN timers \cup {id} |->
     IF i = id THEN [expire |-> (now + interval) % Wrap, interval |-> interval]
               ELSE timers[i]]

ServiceInit == due = [id \in {} |-> 0] /\ now = 0

Started(id, interval) ==
  /\ id \notin DOMAIN due /\ Cardinality(DOMAIN due) < Capacity
  /\ due' = With(due, id, interval)

Deleted(id) == id \in DOMAIN due /\ due' = Without(due, {id})

Restarted(id, interval) == id \in DOMAIN due /\ due' = With(due, id, interval)

\* The timers that are rescheduled after the callback of timer id has deleted
\* the timers gone: timer id, if it is still there.
Rescheduled(id, gone) ==
  IF Disturbed /\ gone # {}
    THEN {late \in SUBSET (DOMAIN due \ gone) : Cardinality(late) <= 1}
    ELSE {{id} \ gone}

\* The callback of timer id, which is due, deletes some timers and starts
\* others; what is rescheduled, is by the interval of timer id.
Expired(id) ==
  /\ id \in DOMAIN due /\ (now - due[id].expire) % Wrap < Wrap \div 2
  /\ \E gone \in SUBSET DOMAIN due, added \in SUBSET (Handles \ DOMAIN due) :
       /\ DOMAIN due' = (DOMAIN due \ gone) \cup added
       /\ Cardinality(DOMAIN due') <= Capacity
       /\ \E late \in Rescheduled(id, gone) : \A i \in DOMAIN due \ gone :
            due'[i] = IF i \in late
                        THEN [due[i] EXCEPT !.expire = (now + due[id].interval) % Wrap]
                        ELSE due[i]
       /\ \A i \in added : \E interval \in Intervals :
            due'[i] = [expire |-> (now + interval) % Wrap, interval |-> interval]

\* The callback of timer id restarts one timer, which may be id itself; timer
\* id is rescheduled by the interval that it had.
ExpiredRestarting(id) ==
  /\ id \in DOMAIN due /\ (now - due[id].expire) % Wrap < Wrap \div 2
  /\ \E other \in DOMAIN due, interval \in Intervals \cup {0} :
       due' = [With(due, other, interval) EXCEPT
                 ![id].expire = (now + due[id].interval) % Wrap]

ServiceNext ==
  \/ /\ \E id \in Handles :
          \/ \E interval \in Intervals : Started(id, interval)
          \/ \E interval \in Intervals \cup {0} : Restarted(id, interval)
          \/ Deleted(id)
          \/ Expired(id)
          \/ ExpiredRestarting(id)
     /\ UNCHANGED now
  \/ now' = (now + 1) % Wrap /\ UNCHANGED due

ServiceSpec == ServiceInit /\ [][ServiceNext]_serviceVars
=============================================================================
