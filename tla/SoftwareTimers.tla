--------------------------- MODULE SoftwareTimers ---------------------------
(***************************************************************************)
(* The software timers of the super loop, lib-superloop/src/               *)
(* softwaretimers.cpp: a pool of kSoftwareTimersMax slots, active timers   *)
(* first, and a cursor that serves one slot in each SoftwareTimerRun.      *)
(*                                                                         *)
(* Everything runs in the main loop; a callback runs inside                *)
(* SoftwareTimerRun and may call the other functions itself.               *)
(***************************************************************************)
EXTENDS Integers, Sequences

CONSTANTS
  Max,              \* kSoftwareTimersMax
  Wrap,             \* timing::Millis() counts modulo Wrap, 2^32 in the code
  Intervals,        \* the periods, in milliseconds
  MaxId,            \* bound of the model: at most this many timers are added
  CallbackActions   \* what a callback may do to the timers

ASSUME TimersAssumption ==
  /\ Max \in Nat \ {0}
  /\ Wrap \in Nat \ {0}
  /\ Intervals \subseteq 1 .. (Wrap \div 2 - 1)
  /\ MaxId \in Nat
  /\ CallbackActions \subseteq {"nothing", "add", "delete", "change"}

VARIABLES
  timers,    \* s_timers[0 .. s_timers_count - 1]
  current,   \* s_timer_current
  nextId,    \* s_next_id
  now,       \* timing::Millis()
  fired      \* history: the timer SoftwareTimerRun has just called, or -1

vars == <<timers, current, nextId, now, fired>>

Ids == 0 .. (MaxId - 1)

\* SoftwareTimerChange also takes the interval 0.
Timer == [id : Ids, expire : 0 .. (Wrap - 1), interval : Intervals \cup {0}]

\* The pool and the cursor have their types, and the pool its size.
TypeOK ==
  /\ timers \in Seq(Timer) /\ Len(timers) <= Max
  /\ current \in Nat
  /\ nextId \in 0 .. MaxId
  /\ now \in 0 .. (Wrap - 1)
  /\ fired \in Ids \cup {-1}

Init ==
  /\ timers = << >>
  /\ current = 0
  /\ nextId = 0
  /\ now = 0
  /\ fired = -1

Active == {timers[i].id : i \in DOMAIN timers}

\* static_cast<int32_t>(kNow - expire_time) >= 0
Expired(t) == (now - t.expire) % Wrap < Wrap \div 2

-----------------------------------------------------------------------------
(***************************************************************************)
(* The functions, on the pool s and, for the deletion, the cursor c.       *)
(***************************************************************************)
Countdown(interval) == (now + interval) % Wrap

CanAdd(s) == Len(s) < Max

Added(s, id, interval) ==
  Append(s, [id |-> id, expire |-> Countdown(interval), interval |-> interval])

\* Mutant: the timers behind the deleted one are dropped with it.
DeletedAtCut(s, i) == SubSeq(s, 1, i - 1)

\* The last timer moves to the slot of the deleted one.
DeletedAt(s, i) == SubSeq([s EXCEPT ![i] = s[Len(s)]], 1, Len(s) - 1)

\* Mutant: the cursor stays where it is.
CursorAfterDeleteKept(s, c) == c

CursorAfterDelete(s, c) == IF c >= Len(s) - 1 THEN 0 ELSE c

Changed(s, i, interval) ==
  [s EXCEPT ![i].expire = Countdown(interval), ![i].interval = interval]

SoftwareTimerAdd(interval) ==
  /\ CanAdd(timers)
  /\ nextId < MaxId
  /\ timers' = Added(timers, nextId, interval)
  /\ nextId' = nextId + 1
  /\ fired' = -1
  /\ UNCHANGED <<current, now>>

SoftwareTimerDelete(i) ==
  /\ timers' = DeletedAt(timers, i)
  /\ current' = CursorAfterDelete(timers, current)
  /\ fired' = -1
  /\ UNCHANGED <<nextId, now>>

SoftwareTimerChange(i, interval) ==
  /\ timers' = Changed(timers, i, interval)
  /\ fired' = -1
  /\ UNCHANGED <<current, nextId, now>>

-----------------------------------------------------------------------------
(***************************************************************************)
(* SoftwareTimerRun.  After the callback it is the slot under the cursor   *)
(* that is rescheduled, whichever timer is there by then; past the active  *)
(* timers the assignment has no effect.                                    *)
(***************************************************************************)
Rescheduled(s, c, interval) ==
  IF c + 1 \in DOMAIN s THEN [s EXCEPT ![c + 1].expire = Countdown(interval)] ELSE s

\* Mutant: the cursor stops at the last slot.
AdvancedNot(s, c) == IF c + 1 >= Len(s) THEN c ELSE c + 1

Advanced(s, c) == IF c + 1 >= Len(s) THEN 0 ELSE c + 1

\* The callback has left the pool s and the cursor c behind.
AfterCallback(s, c, interval) ==
  /\ timers' = Rescheduled(s, c, interval)
  /\ current' = Advanced(s, c)

RunExpired ==
  LET t == timers[current + 1] IN
  /\ timers # << >> /\ Expired(t)
  /\ \/ /\ "nothing" \in CallbackActions
        /\ AfterCallback(timers, current, t.interval)
        /\ UNCHANGED nextId
     \/ /\ "add" \in CallbackActions
        /\ CanAdd(timers) /\ nextId < MaxId
        /\ \E interval \in Intervals :
             AfterCallback(Added(timers, nextId, interval), current, t.interval)
        /\ nextId' = nextId + 1
     \/ /\ "delete" \in CallbackActions
        /\ \E i \in DOMAIN timers :
             AfterCallback(DeletedAt(timers, i), CursorAfterDelete(timers, current), t.interval)
        /\ UNCHANGED nextId
     \* It is rescheduled by the interval read before, also when its callback
     \* has changed its own.
     \/ /\ "change" \in CallbackActions
        /\ \E i \in DOMAIN timers, interval \in Intervals \cup {0} :
             AfterCallback(Changed(timers, i, interval), current, t.interval)
        /\ UNCHANGED nextId
  /\ fired' = t.id
  /\ UNCHANGED now

RunNotExpired ==
  /\ timers # << >> /\ ~Expired(timers[current + 1])
  /\ current' = Advanced(timers, current)
  /\ fired' = -1
  /\ UNCHANGED <<timers, nextId, now>>

SoftwareTimerRun == RunExpired \/ RunNotExpired

\* The main loop goes round often enough for no timer to be overdue by half
\* the range of the clock (24 days).
Tick ==
  /\ \A i \in DOMAIN timers : Expired(timers[i]) => (now - timers[i].expire) % Wrap < Wrap \div 2 - 1
  /\ now' = (now + 1) % Wrap
  /\ fired' = -1
  /\ UNCHANGED <<timers, current, nextId>>

Next ==
  \/ \E interval \in Intervals : SoftwareTimerAdd(interval)
  \/ \E i \in DOMAIN timers :
       \/ SoftwareTimerDelete(i)
       \/ \E interval \in Intervals \cup {0} : SoftwareTimerChange(i, interval)
  \/ SoftwareTimerRun
  \/ Tick

\* The main loop calls SoftwareTimerRun again and again; time passes.
Spec == Init /\ [][Next]_vars /\ WF_vars(SoftwareTimerRun) /\ WF_vars(Tick)
-----------------------------------------------------------------------------
\* A handle names one timer, and the cursor is on an active slot whenever
\* there is one: Run never serves a dead slot, in whatever order timers are
\* added and deleted, inside or outside a callback.
CursorOnActive ==
  /\ \A i, j \in DOMAIN timers : timers[i].id = timers[j].id => i = j
  /\ current # 0 => current < Len(timers)

\* The round robin starves nobody: a timer that has expired is called, unless
\* it is deleted or changed meanwhile.
IsExpired(id) == \E i \in DOMAIN timers : timers[i].id = id /\ Expired(timers[i])

Served == \A id \in Ids : IsExpired(id) ~> (fired = id \/ ~IsExpired(id))

dueOf ==
  [id \in Active |->
     LET t == timers[CHOOSE i \in DOMAIN timers : timers[i].id = id]
     IN  [expire |-> t.expire, interval |-> t.interval]]

Service == INSTANCE TimerService
  WITH due <- dueOf, Handles <- Ids, Capacity <- Max, Disturbed <- FALSE
Kept == INSTANCE TimerService
  WITH due <- dueOf, Handles <- Ids, Capacity <- Max, Disturbed <- TRUE

\* "If callbacks delete or add timers, this remains safe": every timer has a
\* countdown of its own (TimerService), whatever the callbacks do.
OwnCountdown == Service!ServiceSpec

\* What the pool, the swapping deletion and the cursor do implement: a timer
\* keeps its countdown whatever is added, changed and deleted by the main loop
\* and whatever callbacks add and change; only a callback that deletes a timer may
\* reschedule another one, and then no more than one.
CountdownKept == Kept!ServiceSpec
=============================================================================
