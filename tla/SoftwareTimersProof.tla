------------------------ MODULE SoftwareTimersProof ------------------------
(***************************************************************************)
(* The pool of software timers, for every size of the pool, every clock    *)
(* and every behaviour of the callbacks: types, handles and the cursor,    *)
(* and the refinement of TimerService, one lemma for each function on what *)
(* it does to the countdowns and one for each action.                      *)
(***************************************************************************)
EXTENDS SoftwareTimers, FiniteSetTheorems, SequenceTheorems, TLAPS

\* What the functions preserve: a pool of distinct timers, none of them newer
\* than the handle that is given out next, and a cursor that is in the pool.
Pool(s, n) ==
  /\ s \in Seq(Timer) /\ Len(s) <= Max
  /\ \A i \in 1 .. Len(s) : s[i].id < n
  /\ \A i, j \in 1 .. Len(s) : s[i].id = s[j].id => i = j

InPool(s, c) == c \in Nat /\ (c # 0 => c < Len(s))

IInv ==
  /\ Pool(timers, nextId)
  /\ InPool(timers, current)
  /\ nextId \in 0 .. MaxId
  /\ now \in 0 .. (Wrap - 1)
  /\ fired \in Ids \cup {-1}

-----------------------------------------------------------------------------
LEMMA CountdownType ==
  ASSUME now \in 0 .. (Wrap - 1), NEW interval \in Intervals \cup {0}
  PROVE  Countdown(interval) \in 0 .. (Wrap - 1)
<1>1. interval \in Nat /\ Wrap \in Nat \ {0} /\ now \in Nat
  BY TimersAssumption
<1> QED
  BY <1>1 DEF Countdown

LEMMA IntervalsType == Intervals \subseteq Intervals \cup {0}
OBVIOUS

\* A timer that is given other times keeps its handle.
LEMMA Retimed ==
  ASSUME now \in 0 .. (Wrap - 1), NEW t \in Timer, NEW interval \in Intervals \cup {0}
  PROVE  /\ [t EXCEPT !.expire = Countdown(interval)] \in Timer
         /\ [t EXCEPT !.expire = Countdown(interval)].id = t.id
         /\ [t EXCEPT !.expire = Countdown(interval), !.interval = interval] \in Timer
         /\ [t EXCEPT !.expire = Countdown(interval), !.interval = interval].id = t.id
BY CountdownType DEF Timer

\* A slot gets a timer of the same handle.
LEMMA SlotReplaced ==
  ASSUME NEW n \in Int, NEW s, Pool(s, n), NEW i \in 1 .. Len(s),
         NEW t \in Timer, t.id = s[i].id
  PROVE  Pool([s EXCEPT ![i] = t], n) /\ Len([s EXCEPT ![i] = t]) = Len(s)
<1> DEFINE r == [s EXCEPT ![i] = t]
<1>1. s \in Seq(Timer)
  BY DEF Pool
<1>2. /\ r \in Seq(Timer) /\ Len(r) = Len(s)
      /\ \A j \in 1 .. Len(s) : r[j] = IF j = i THEN t ELSE s[j]
  BY <1>1, ExceptSeq
<1>3. \A j \in 1 .. Len(s) : r[j].id = s[j].id
  BY <1>2
<1> HIDE DEF r
<1>4. Pool(r, n)
  BY <1>2, <1>3 DEF Pool
<1> QED
  BY <1>2, <1>4 DEF r

LEMMA AddedPool ==
  ASSUME now \in 0 .. (Wrap - 1), NEW n \in 0 .. (MaxId - 1), NEW s, Pool(s, n),
         Len(s) < Max, NEW interval \in Intervals
  PROVE  Pool(Added(s, n, interval), n + 1) /\ Len(Added(s, n, interval)) = Len(s) + 1
<1> DEFINE t == [id |-> n, expire |-> Countdown(interval), interval |-> interval]
<1>1. t \in Timer /\ t.id = n
  BY CountdownType DEF Timer, Ids
<1>2. s \in Seq(Timer) /\ Len(s) \in Nat /\ MaxId \in Nat /\ Max \in Nat
  BY TimersAssumption, LenProperties DEF Pool
<1>3. Added(s, n, interval) = Append(s, t)
  BY DEF Added
<1> HIDE DEF t
<1>4. /\ Append(s, t) \in Seq(Timer) /\ Len(Append(s, t)) = Len(s) + 1
      /\ \A j \in 1 .. Len(s) : Append(s, t)[j] = s[j]
      /\ Append(s, t)[Len(s) + 1] = t
  BY <1>1, <1>2, AppendProperties
<1>5. \A j \in 1 .. Len(s) : s[j].id < n /\ s[j].id \in Int
  <2>1. \A j \in 1 .. Len(s) : s[j] \in Timer
    BY <1>2, ElementOfSeq
  <2> QED
    BY <1>2, <2>1 DEF Pool, Timer, Ids
<1>6. \A j \in 1 .. Len(s) : Append(s, t)[j].id < n + 1
  BY <1>2, <1>4, <1>5
<1>7. \A i, j \in 1 .. Len(s) + 1 : Append(s, t)[i].id = Append(s, t)[j].id => i = j
  <2> SUFFICES ASSUME NEW i \in 1 .. Len(s) + 1, NEW j \in 1 .. Len(s) + 1,
                      Append(s, t)[i].id = Append(s, t)[j].id
               PROVE  i = j
    OBVIOUS
  <2>1. CASE i \in 1 .. Len(s) /\ j \in 1 .. Len(s)
    <3>1. s[i].id = s[j].id
      BY <1>4, <2>1
    <3> QED
      BY <2>1, <3>1 DEF Pool
  <2>2. CASE i = Len(s) + 1 /\ j \in 1 .. Len(s)
    BY <1>1, <1>2, <1>4, <1>5, <2>2
  <2>3. CASE i \in 1 .. Len(s) /\ j = Len(s) + 1
    BY <1>1, <1>2, <1>4, <1>5, <2>3
  <2>4. CASE i = Len(s) + 1 /\ j = Len(s) + 1
    BY <2>4
  <2> QED
    BY <1>2, <2>1, <2>2, <2>3, <2>4
<1>8. \A j \in 1 .. Len(s) + 1 : Append(s, t)[j].id < n + 1
  BY <1>1, <1>2, <1>4, <1>6
<1>9. Len(s) + 1 <= Max
  BY <1>2
<1>10. Pool(Append(s, t), n + 1)
  BY <1>4, <1>7, <1>8, <1>9 DEF Pool
<1> QED
  BY <1>3, <1>4, <1>10

\* The last timer moves to the free slot: nobody is lost, nobody is doubled.
LEMMA DeletedPool ==
  ASSUME NEW n \in Int, NEW s, Pool(s, n), NEW i \in 1 .. Len(s)
  PROVE  Pool(DeletedAt(s, i), n) /\ Len(DeletedAt(s, i)) = Len(s) - 1
<1> DEFINE m == Len(s)
           r == [s EXCEPT ![i] = s[m]]
           d == DeletedAt(s, i)
<1>1. s \in Seq(Timer) /\ m \in Nat /\ m # 0 /\ m <= Max /\ Max \in Nat
  BY TimersAssumption, LenProperties DEF Pool
<1>2. s[m] \in Timer
  BY <1>1, ElementOfSeq
<1>3. /\ r \in Seq(Timer) /\ Len(r) = m
      /\ \A j \in 1 .. m : r[j] = IF j = i THEN s[m] ELSE s[j]
  BY <1>1, <1>2, ExceptSeq
<1>4. \A j \in 1 .. m - 1 : r[j] \in Timer
  BY <1>1, <1>3, ElementOfSeq
<1>5. d = SubSeq(r, 1, m - 1)
  BY DEF DeletedAt
<1> HIDE DEF m, r, d
<1>6. /\ d \in Seq(Timer) /\ Len(d) = m - 1
      /\ \A j \in 1 .. m - 1 : d[j] = r[j]
  <2>1. 1 \in Int /\ m - 1 \in Int
    BY <1>1
  <2>2. /\ SubSeq(r, 1, m - 1) \in Seq(Timer)
        /\ Len(SubSeq(r, 1, m - 1)) = IF 1 <= m - 1 THEN (m - 1) - 1 + 1 ELSE 0
        /\ \A j \in 1 .. (m - 1) - 1 + 1 : SubSeq(r, 1, m - 1)[j] = r[1 + j - 1]
    BY <1>1, <1>4, <2>1, SubSeqProperties
  <2>3. (m - 1) - 1 + 1 = m - 1 /\ (IF 1 <= m - 1 THEN (m - 1) - 1 + 1 ELSE 0) = m - 1
    BY <1>1
  <2>4. d \in Seq(Timer) /\ Len(d) = m - 1
    BY <1>5, <2>2, <2>3, Zenon
  <2>5. ASSUME NEW j \in 1 .. m - 1  PROVE d[j] = r[j]
    <3>1. d[j] = r[1 + j - 1]
      BY <1>5, <2>2, <2>3, Zenon
    <3>2. 1 + j - 1 = j
      BY <1>1
    <3> QED
      BY <3>1, <3>2, Zenon
  <2> QED
    BY <2>4, <2>5
<1>7. \A j \in 1 .. m - 1 : d[j].id = IF j = i THEN s[m].id ELSE s[j].id
  BY <1>1, <1>3, <1>6
<1>8. /\ \A j \in 1 .. m : s[j].id < n
      /\ \A j, k \in 1 .. m : s[j].id = s[k].id => j = k
  BY DEF Pool, m
<1>9. \A j \in 1 .. m - 1 : d[j].id < n
  BY <1>1, <1>7, <1>8
<1>10. \A j, k \in 1 .. m - 1 : d[j].id = d[k].id => j = k
  BY <1>1, <1>7, <1>8
<1>11. Pool(d, n)
  BY <1>1, <1>6, <1>9, <1>10 DEF Pool
<1> QED
  BY <1>6, <1>11 DEF d, m

LEMMA ChangedPool ==
  ASSUME now \in 0 .. (Wrap - 1), NEW n \in Int, NEW s, Pool(s, n), NEW i \in 1 .. Len(s),
         NEW interval \in Intervals \cup {0}
  PROVE  Pool(Changed(s, i, interval), n) /\ Len(Changed(s, i, interval)) = Len(s)
<1> DEFINE t == [s[i] EXCEPT !.expire = Countdown(interval), !.interval = interval]
<1>1. s[i] \in Timer
  BY ElementOfSeq DEF Pool
<1>2. t \in Timer /\ t.id = s[i].id
  BY <1>1, Retimed
<1>3. Changed(s, i, interval) = [s EXCEPT ![i] = t]
  BY DEF Changed
<1> HIDE DEF t
<1>4. Pool([s EXCEPT ![i] = t], n) /\ Len([s EXCEPT ![i] = t]) = Len(s)
  BY <1>2, SlotReplaced, Zenon
<1> QED
  BY <1>3, <1>4, Zenon

LEMMA RescheduledPool ==
  ASSUME now \in 0 .. (Wrap - 1), NEW n \in Int, NEW s, Pool(s, n), NEW c \in Nat,
         NEW interval \in Intervals \cup {0}
  PROVE  Pool(Rescheduled(s, c, interval), n) /\ Len(Rescheduled(s, c, interval)) = Len(s)
<1>1. s \in Seq(Timer) /\ DOMAIN s = 1 .. Len(s)
  BY LenProperties DEF Pool
<1>2. CASE c + 1 \in DOMAIN s
  <2> DEFINE t == [s[c + 1] EXCEPT !.expire = Countdown(interval)]
  <2>1. s[c + 1] \in Timer
    BY <1>1, <1>2, ElementOfSeq
  <2>2. t \in Timer /\ t.id = s[c + 1].id
    BY <2>1, Retimed
  <2>3. Rescheduled(s, c, interval) = [s EXCEPT ![c + 1] = t]
    BY <1>2 DEF Rescheduled
  <2> HIDE DEF t
  <2>4. c + 1 \in 1 .. Len(s)
    BY <1>1, <1>2
  <2>5. Pool([s EXCEPT ![c + 1] = t], n) /\ Len([s EXCEPT ![c + 1] = t]) = Len(s)
    BY <2>2, <2>4, SlotReplaced, Zenon
  <2> QED
    BY <2>3, <2>5, Zenon
<1>3. CASE c + 1 \notin DOMAIN s
  BY <1>3 DEF Rescheduled
<1> QED
  BY <1>2, <1>3

LEMMA AdvancedInPool ==
  ASSUME NEW s \in Seq(Timer), NEW c \in Nat
  PROVE  InPool(s, Advanced(s, c))
<1>1. Len(s) \in Nat
  BY LenProperties
<1> QED
  BY <1>1 DEF Advanced, InPool

\* SoftwareTimerRun ends with a good pool whatever pool its callback leaves.
LEMMA AfterCallbackInv ==
  ASSUME now \in 0 .. (Wrap - 1), NEW n \in Int, NEW s, Pool(s, n), NEW c \in Nat,
         NEW interval \in Intervals \cup {0}, AfterCallback(s, c, interval)
  PROVE  Pool(timers', n) /\ InPool(timers', current')
<1>1. timers' = Rescheduled(s, c, interval) /\ current' = Advanced(s, c)
  BY DEF AfterCallback
<1>2. Pool(timers', n) /\ Len(timers') = Len(s)
  BY <1>1, RescheduledPool
<1>3. InPool(s, current')
  BY <1>1, AdvancedInPool DEF Pool
<1> QED
  BY <1>2, <1>3 DEF InPool

-----------------------------------------------------------------------------
LEMMA InitInv == Init => IInv
<1> SUFFICES ASSUME Init PROVE IInv
  OBVIOUS
<1>1. Pool(timers, nextId)
  BY TimersAssumption DEF Init, Pool
<1>2. InPool(timers, current) /\ nextId \in 0 .. MaxId /\ now \in 0 .. (Wrap - 1)
  BY TimersAssumption DEF Init, InPool
<1> QED
  BY <1>1, <1>2 DEF Init, IInv

LEMMA StepInv == IInv /\ [Next]_vars => IInv'
<1> SUFFICES ASSUME IInv, [Next]_vars PROVE IInv'
  OBVIOUS
<1>0. /\ Pool(timers, nextId) /\ InPool(timers, current) /\ timers \in Seq(Timer)
      /\ DOMAIN timers = 1 .. Len(timers) /\ Len(timers) \in Nat
      /\ nextId \in 0 .. MaxId /\ nextId \in Int /\ MaxId \in Nat /\ current \in Nat
      /\ now \in 0 .. (Wrap - 1) /\ fired \in Ids \cup {-1}
  BY TimersAssumption, LenProperties DEF IInv, Pool, InPool
<1>1. ASSUME NEW interval \in Intervals, SoftwareTimerAdd(interval)  PROVE IInv'
  <2>1. nextId \in 0 .. (MaxId - 1) /\ Len(timers) < Max
    BY <1>0, <1>1 DEF SoftwareTimerAdd, CanAdd
  <2>2. Pool(timers', nextId') /\ Len(timers') = Len(timers) + 1
    BY <1>0, <1>1, <2>1, AddedPool DEF SoftwareTimerAdd
  <2>3. InPool(timers', current')
    BY <1>0, <1>1, <2>2 DEF SoftwareTimerAdd, InPool
  <2> QED
    BY <1>0, <1>1, <2>1, <2>2, <2>3 DEF SoftwareTimerAdd, IInv
<1>2. ASSUME NEW i \in DOMAIN timers, SoftwareTimerDelete(i)  PROVE IInv'
  <2>1. Pool(timers', nextId') /\ Len(timers') = Len(timers) - 1
    BY <1>0, <1>2, DeletedPool DEF SoftwareTimerDelete
  <2>2. InPool(timers', current')
    BY <1>0, <1>2, <2>1 DEF SoftwareTimerDelete, CursorAfterDelete, InPool
  <2> QED
    BY <1>0, <1>2, <2>1, <2>2 DEF SoftwareTimerDelete, IInv
<1>3. ASSUME NEW i \in DOMAIN timers, NEW interval \in Intervals \cup {0},
             SoftwareTimerChange(i, interval)
      PROVE  IInv'
  <2>1. Pool(timers', nextId') /\ Len(timers') = Len(timers)
    BY <1>0, <1>3, ChangedPool DEF SoftwareTimerChange
  <2>2. InPool(timers', current')
    BY <1>0, <1>3, <2>1 DEF SoftwareTimerChange, InPool
  <2> QED
    BY <1>0, <1>3, <2>1, <2>2 DEF SoftwareTimerChange, IInv
<1>4. CASE RunExpired
  <2> DEFINE t == timers[current + 1]
  <2>0. t \in Timer /\ t.interval \in Intervals \cup {0} /\ t.id \in Ids
    <3>1. current + 1 \in 1 .. Len(timers)
      BY <1>0, <1>4, EmptySeq DEF RunExpired, InPool
    <3>2. t \in Timer
      BY <1>0, <3>1, ElementOfSeq
    <3> QED
      BY <3>2 DEF Timer
  <2> HIDE DEF t
  <2>1. CASE AfterCallback(timers, current, t.interval) /\ UNCHANGED nextId
    <3>1. Pool(timers', nextId) /\ InPool(timers', current')
      BY <1>0, <2>0, <2>1, AfterCallbackInv
    <3> QED
      BY <1>0, <1>4, <2>0, <2>1, <3>1 DEF IInv, RunExpired, t
  <2>2. CASE /\ CanAdd(timers) /\ nextId < MaxId
             /\ \E interval \in Intervals :
                  AfterCallback(Added(timers, nextId, interval), current, t.interval)
             /\ nextId' = nextId + 1
    <3>1. PICK interval \in Intervals :
            AfterCallback(Added(timers, nextId, interval), current, t.interval)
      BY <2>2
    <3>2. nextId \in 0 .. (MaxId - 1) /\ Len(timers) < Max /\ nextId + 1 \in Int
      BY <1>0, <2>2 DEF CanAdd
    <3>3. Pool(Added(timers, nextId, interval), nextId + 1)
      BY <1>0, <3>2, AddedPool
    <3>4. Pool(timers', nextId + 1) /\ InPool(timers', current')
      BY <1>0, <2>0, <3>1, <3>2, <3>3, AfterCallbackInv
    <3> QED
      BY <1>0, <1>4, <2>0, <2>2, <3>2, <3>4 DEF IInv, RunExpired, t
  <2>3. CASE /\ \E i \in DOMAIN timers :
                  AfterCallback(DeletedAt(timers, i), CursorAfterDelete(timers, current),
                                t.interval)
             /\ UNCHANGED nextId
    <3>1. PICK i \in DOMAIN timers :
            AfterCallback(DeletedAt(timers, i), CursorAfterDelete(timers, current), t.interval)
      BY <2>3
    <3>2. Pool(DeletedAt(timers, i), nextId)
      BY <1>0, DeletedPool
    <3>3. CursorAfterDelete(timers, current) \in Nat
      BY <1>0 DEF CursorAfterDelete
    <3>4. Pool(timers', nextId) /\ InPool(timers', current')
      BY <1>0, <2>0, <3>1, <3>2, <3>3, AfterCallbackInv
    <3> QED
      BY <1>0, <1>4, <2>0, <2>3, <3>4 DEF IInv, RunExpired, t
  <2>4. CASE /\ \E i \in DOMAIN timers, interval \in Intervals \cup {0} :
                  AfterCallback(Changed(timers, i, interval), current, t.interval)
             /\ UNCHANGED nextId
    <3>1. PICK i \in DOMAIN timers, interval \in Intervals \cup {0} :
            AfterCallback(Changed(timers, i, interval), current, t.interval)
      BY <2>4
    <3>2. Pool(Changed(timers, i, interval), nextId)
      BY <1>0, ChangedPool
    <3>3. Pool(timers', nextId) /\ InPool(timers', current')
      BY <1>0, <2>0, <3>1, <3>2, AfterCallbackInv
    <3> QED
      BY <1>0, <1>4, <2>0, <2>4, <3>3 DEF IInv, RunExpired, t
  <2> QED
    BY <1>4, <2>1, <2>2, <2>3, <2>4 DEF RunExpired, t
<1>5. CASE RunNotExpired
  <2>1. InPool(timers', current')
    BY <1>0, <1>5, AdvancedInPool DEF RunNotExpired
  <2> QED
    BY <1>0, <1>5, <2>1 DEF IInv, RunNotExpired
<1>6. CASE Tick
  <2>1. now' \in 0 .. (Wrap - 1)
    BY <1>0, <1>6, TimersAssumption DEF Tick
  <2> QED
    BY <1>0, <1>6, <2>1 DEF IInv, Tick
<1>7. CASE UNCHANGED vars
  BY <1>0, <1>7 DEF IInv, vars
<1> QED
  BY <1>1, <1>2, <1>3, <1>4, <1>5, <1>6, <1>7 DEF Next, SoftwareTimerRun

LEMMA InvProperties == IInv => TypeOK /\ CursorOnActive
<1> SUFFICES ASSUME IInv PROVE TypeOK /\ CursorOnActive
  OBVIOUS
<1>1. timers \in Seq(Timer) /\ DOMAIN timers = 1 .. Len(timers)
  BY LenProperties DEF IInv, Pool
<1> QED
  BY <1>1 DEF IInv, Pool, InPool, TypeOK, CursorOnActive

-----------------------------------------------------------------------------
(***************************************************************************)
(* The refinement: what the pool s says of each timer, by its handle, and  *)
(* what the functions change of that.                                      *)
(***************************************************************************)
Times(t) == [expire |-> t.expire, interval |-> t.interval]
Named(s) == {s[i].id : i \in DOMAIN s}
DueIn(s) == [id \in Named(s) |-> Times(s[CHOOSE i \in DOMAIN s : s[i].id = id])]

LEMMA DuePool ==
  ASSUME NEW n \in Int, NEW s, Pool(s, n)
  PROVE  /\ DOMAIN s = 1 .. Len(s) /\ Len(s) \in Nat
         /\ DOMAIN DueIn(s) = Named(s)
         /\ \A i \in 1 .. Len(s) : s[i].id \in Named(s) /\ DueIn(s)[s[i].id] = Times(s[i])
         /\ \A id \in Named(s) : \E i \in 1 .. Len(s) : s[i].id = id
<1>1. DOMAIN s = 1 .. Len(s) /\ Len(s) \in Nat
  BY LenProperties DEF Pool
<1>2. ASSUME NEW i \in 1 .. Len(s)
      PROVE  s[i].id \in Named(s) /\ DueIn(s)[s[i].id] = Times(s[i])
  <2>1. s[i].id \in Named(s)
    BY <1>1 DEF Named
  <2> DEFINE j == CHOOSE j \in DOMAIN s : s[j].id = s[i].id
  <2>2. j \in DOMAIN s /\ s[j].id = s[i].id
    BY <1>1
  <2>3. j = i
    BY <1>1, <2>2 DEF Pool
  <2>4. DueIn(s)[s[i].id] = Times(s[j])
    BY <2>1 DEF DueIn
  <2> QED
    BY <2>1, <2>3, <2>4
<1>3. \A id \in Named(s) : \E i \in 1 .. Len(s) : s[i].id = id
  BY <1>1 DEF Named
<1>4. DOMAIN DueIn(s) = Named(s)
  BY DEF DueIn
<1> QED
  BY <1>1, <1>2, <1>3, <1>4

\* A new timer has a countdown of its own and leaves the others theirs.
LEMMA DueAdded ==
  ASSUME now \in 0 .. (Wrap - 1), NEW n \in 0 .. (MaxId - 1), NEW s, Pool(s, n),
         Len(s) < Max, NEW interval \in Intervals
  PROVE  /\ Named(Added(s, n, interval)) = Named(s) \cup {n} /\ n \notin Named(s)
         /\ \A id \in Named(s) : DueIn(Added(s, n, interval))[id] = DueIn(s)[id]
         /\ DueIn(Added(s, n, interval))[n]
              = [expire |-> Countdown(interval), interval |-> interval]
         /\ \A j \in 1 .. Len(s) : Added(s, n, interval)[j] = s[j]
<1> DEFINE t == [id |-> n, expire |-> Countdown(interval), interval |-> interval]
           r == Added(s, n, interval)
<1>1. s \in Seq(Timer) /\ Len(s) \in Nat /\ n \in Int /\ n + 1 \in Int
  BY LenProperties DEF Pool
<1>2. t \in Timer /\ t.id = n /\ Times(t) = [expire |-> Countdown(interval), interval |-> interval]
  BY CountdownType DEF Timer, Ids, Times
<1>3. /\ Len(r) = Len(s) + 1 /\ r[Len(s) + 1] = t
      /\ \A j \in 1 .. Len(s) : r[j] = s[j]
  BY <1>1, <1>2, AppendProperties DEF Added
<1>4. Pool(r, n + 1)
  BY AddedPool
<1> HIDE DEF t, r
<1>5. /\ DOMAIN r = 1 .. Len(r) /\ DOMAIN s = 1 .. Len(s)
      /\ \A i \in 1 .. Len(s) : s[i].id \in Named(s) /\ DueIn(s)[s[i].id] = Times(s[i])
      /\ \A id \in Named(s) : \E i \in 1 .. Len(s) : s[i].id = id
      /\ \A i \in 1 .. Len(r) : r[i].id \in Named(r) /\ DueIn(r)[r[i].id] = Times(r[i])
      /\ \A id \in Named(r) : \E i \in 1 .. Len(r) : r[i].id = id
  BY <1>1, <1>4, DuePool
<1>6. /\ \A j \in 1 .. Len(s) : j \in 1 .. Len(r)
      /\ Len(s) + 1 \in 1 .. Len(r)
      /\ \A j \in 1 .. Len(r) : j \in 1 .. Len(s) \/ j = Len(s) + 1
  BY <1>1, <1>3
<1>7. n \notin Named(s)
  <2>1. \A i \in 1 .. Len(s) : s[i].id < n
    BY DEF Pool
  <2>2. \A i \in 1 .. Len(s) : s[i].id # n
    BY <1>1, <2>1
  <2> QED
    BY <1>5, <2>2
<1>8. \A id \in Named(s) : id \in Named(r) /\ DueIn(r)[id] = DueIn(s)[id]
  BY <1>3, <1>5, <1>6
<1>9. n \in Named(r) /\ DueIn(r)[n] = Times(t)
  BY <1>2, <1>3, <1>5, <1>6
<1>10. \A id \in Named(r) : id \in Named(s) \cup {n}
  BY <1>2, <1>3, <1>5, <1>6
<1> QED
  BY <1>2, <1>3, <1>7, <1>8, <1>9, <1>10 DEF r

\* A deletion moves a timer to another slot, with its countdown.
LEMMA DueDeleted ==
  ASSUME NEW n \in Int, NEW s, Pool(s, n), NEW i \in 1 .. Len(s)
  PROVE  /\ Named(DeletedAt(s, i)) = Named(s) \ {s[i].id}
         /\ \A id \in Named(s) \ {s[i].id} : DueIn(DeletedAt(s, i))[id] = DueIn(s)[id]
         /\ \A j \in 1 .. Len(s) - 1 :
              DeletedAt(s, i)[j] = IF j = i THEN s[Len(s)] ELSE s[j]
<1> DEFINE m == Len(s)
           r == [s EXCEPT ![i] = s[m]]
           d == DeletedAt(s, i)
<1>1. s \in Seq(Timer) /\ m \in Nat /\ m # 0
  BY LenProperties DEF Pool
<1>2. s[m] \in Timer
  BY <1>1, ElementOfSeq
<1>3. /\ r \in Seq(Timer) /\ Len(r) = m
      /\ \A j \in 1 .. m : r[j] = IF j = i THEN s[m] ELSE s[j]
  BY <1>1, <1>2, ExceptSeq
<1>4. \A j \in 1 .. m - 1 : r[j] \in Timer
  BY <1>1, <1>3, ElementOfSeq
<1>5. d = SubSeq(r, 1, m - 1)
  BY DEF DeletedAt
<1>6. Pool(d, n) /\ Len(d) = m - 1
  BY DeletedPool
<1>7. /\ \A j \in 1 .. m : s[j].id \in Named(s) /\ DueIn(s)[s[j].id] = Times(s[j])
      /\ \A id \in Named(s) : \E j \in 1 .. m : s[j].id = id
      /\ \A j \in 1 .. m - 1 : d[j].id \in Named(d) /\ DueIn(d)[d[j].id] = Times(d[j])
      /\ \A id \in Named(d) : \E j \in 1 .. m - 1 : d[j].id = id
  <2>1. /\ \A j \in 1 .. Len(s) : s[j].id \in Named(s) /\ DueIn(s)[s[j].id] = Times(s[j])
        /\ \A id \in Named(s) : \E j \in 1 .. Len(s) : s[j].id = id
    BY DuePool
  <2>2. /\ \A j \in 1 .. Len(d) : d[j].id \in Named(d) /\ DueIn(d)[d[j].id] = Times(d[j])
        /\ \A id \in Named(d) : \E j \in 1 .. Len(d) : d[j].id = id
    BY <1>6, DuePool
  <2> QED
    BY <1>6, <2>1, <2>2
<1>8. \A j, k \in 1 .. m : s[j].id = s[k].id => j = k
  BY DEF Pool
<1> HIDE DEF m, r, d
<1>9. ASSUME NEW j \in 1 .. m - 1  PROVE d[j] = IF j = i THEN s[m] ELSE s[j]
  <2>1. 1 \in Int /\ m - 1 \in Int
    BY <1>1
  <2>2. \A k \in 1 .. (m - 1) - 1 + 1 : SubSeq(r, 1, m - 1)[k] = r[1 + k - 1]
    BY <1>1, <1>3, <1>4, <2>1, SubSeqProperties
  <2>3. (m - 1) - 1 + 1 = m - 1 /\ 1 + j - 1 = j /\ j \in 1 .. m
    BY <1>1
  <2>4. d[j] = r[1 + j - 1]
    BY <1>5, <2>2, <2>3, Zenon
  <2>5. d[j] = r[j]
    BY <2>3, <2>4, Zenon
  <2> QED
    BY <1>3, <2>3, <2>5
<1>10. i \in 1 .. m
  BY DEF m
<1>11. ASSUME NEW k \in 1 .. m, k # i  PROVE \E j \in 1 .. m - 1 : d[j] = s[k]
  <2>1. CASE k = m
    <3>1. i \in 1 .. m - 1 /\ d[i] = s[k]
      BY <1>1, <1>9, <1>10, <1>11, <2>1
    <3> QED
      BY <3>1
  <2>2. CASE k # m
    <3>1. k \in 1 .. m - 1 /\ d[k] = s[k]
      BY <1>1, <1>9, <1>11, <2>2
    <3> QED
      BY <3>1
  <2> QED
    BY <2>1, <2>2
<1>12. ASSUME NEW id \in Named(s) \ {s[i].id}
       PROVE  id \in Named(d) /\ DueIn(d)[id] = DueIn(s)[id]
  <2>1. PICK k \in 1 .. m : s[k].id = id
    BY <1>7
  <2>2. k # i
    BY <2>1
  <2>3. PICK j \in 1 .. m - 1 : d[j] = s[k]
    BY <1>11, <2>2
  <2> QED
    BY <1>7, <2>1, <2>3
<1>13. ASSUME NEW id \in Named(d)  PROVE id \in Named(s) \ {s[i].id}
  <2>1. PICK j \in 1 .. m - 1 : d[j].id = id
    BY <1>7
  <2>2. \E k \in 1 .. m : k # i /\ d[j] = s[k]
    <3>1. CASE j = i
      BY <1>1, <1>9, <3>1
    <3>2. CASE j # i
      BY <1>1, <1>9, <3>2
    <3> QED
      BY <3>1, <3>2
  <2> QED
    BY <1>7, <1>8, <1>10, <2>1, <2>2
<1>14. Named(d) = Named(s) \ {s[i].id}
  BY <1>12, <1>13
<1> QED
  BY <1>9, <1>12, <1>14 DEF d, m

\* A slot whose timer is given other times changes no other timer's.
LEMMA DueRetimed ==
  ASSUME NEW n \in Int, NEW s, Pool(s, n), NEW i \in 1 .. Len(s),
         NEW t \in Timer, t.id = s[i].id
  PROVE  /\ Named([s EXCEPT ![i] = t]) = Named(s)
         /\ \A id \in Named(s) : DueIn([s EXCEPT ![i] = t])[id]
                                   = IF id = s[i].id THEN Times(t) ELSE DueIn(s)[id]
<1> DEFINE r == [s EXCEPT ![i] = t]
<1>1. s \in Seq(Timer)
  BY DEF Pool
<1>2. Len(r) = Len(s) /\ \A j \in 1 .. Len(s) : r[j] = IF j = i THEN t ELSE s[j]
  BY <1>1, ExceptSeq
<1>3. Pool(r, n)
  BY SlotReplaced
<1> HIDE DEF r
<1>4. /\ \A j \in 1 .. Len(s) : s[j].id \in Named(s) /\ DueIn(s)[s[j].id] = Times(s[j])
      /\ \A id \in Named(s) : \E j \in 1 .. Len(s) : s[j].id = id
      /\ \A j \in 1 .. Len(s) : r[j].id \in Named(r) /\ DueIn(r)[r[j].id] = Times(r[j])
      /\ \A id \in Named(r) : \E j \in 1 .. Len(s) : r[j].id = id
  <2>1. /\ \A j \in 1 .. Len(s) : s[j].id \in Named(s) /\ DueIn(s)[s[j].id] = Times(s[j])
        /\ \A id \in Named(s) : \E j \in 1 .. Len(s) : s[j].id = id
    BY DuePool
  <2>2. /\ \A j \in 1 .. Len(r) : r[j].id \in Named(r) /\ DueIn(r)[r[j].id] = Times(r[j])
        /\ \A id \in Named(r) : \E j \in 1 .. Len(r) : r[j].id = id
    BY <1>3, DuePool
  <2> QED
    BY <1>2, <2>1, <2>2
<1>5. \A j, k \in 1 .. Len(s) : s[j].id = s[k].id => j = k
  BY DEF Pool
<1>6. \A j \in 1 .. Len(s) : r[j].id = s[j].id
  BY <1>2
<1>7. Named(r) = Named(s)
  <2>1. ASSUME NEW id \in Named(r)  PROVE id \in Named(s)
    BY <1>4, <1>6
  <2>2. ASSUME NEW id \in Named(s)  PROVE id \in Named(r)
    BY <1>4, <1>6
  <2> QED
    BY <2>1, <2>2
<1>8. ASSUME NEW id \in Named(s)
      PROVE  DueIn(r)[id] = IF id = s[i].id THEN Times(t) ELSE DueIn(s)[id]
  <2>1. PICK j \in 1 .. Len(s) : s[j].id = id
    BY <1>4
  <2> QED
    BY <1>2, <1>4, <1>5, <1>6, <2>1
<1> QED
  BY <1>7, <1>8 DEF r

\* A change leaves every timer in its slot.
LEMMA ChangedIds ==
  ASSUME now \in 0 .. (Wrap - 1), NEW n \in Int, NEW s, Pool(s, n), NEW k \in 1 .. Len(s),
         NEW interval \in Intervals \cup {0}, NEW j \in 1 .. Len(s)
  PROVE  Changed(s, k, interval)[j].id = s[j].id
<1> DEFINE t == [s[k] EXCEPT !.expire = Countdown(interval), !.interval = interval]
<1>1. s \in Seq(Timer) /\ s[k] \in Timer
  BY ElementOfSeq DEF Pool
<1>2. t \in Timer /\ t.id = s[k].id
  BY <1>1, Retimed
<1>3. Changed(s, k, interval) = [s EXCEPT ![k] = t]
  BY DEF Changed
<1> HIDE DEF t
<1>4. [s EXCEPT ![k] = t][j] = IF j = k THEN t ELSE s[j]
  BY <1>1, <1>2, ExceptSeq
<1> QED
  BY <1>2, <1>3, <1>4

\* A change starts the countdown of its timer again, and no other one.
LEMMA DueChanged ==
  ASSUME now \in 0 .. (Wrap - 1), NEW n \in Int, NEW s, Pool(s, n), NEW k \in 1 .. Len(s),
         NEW interval \in Intervals \cup {0}
  PROVE  /\ Named(Changed(s, k, interval)) = Named(s) /\ s[k].id \in Named(s)
         /\ \A i \in Named(s) : DueIn(Changed(s, k, interval))[i]
              = IF i = s[k].id THEN [expire |-> Countdown(interval), interval |-> interval]
                               ELSE DueIn(s)[i]
<1> DEFINE t == [s[k] EXCEPT !.expire = Countdown(interval), !.interval = interval]
<1>1. s[k] \in Timer
  BY ElementOfSeq DEF Pool
<1>2. t \in Timer /\ t.id = s[k].id
  BY <1>1, Retimed
<1>3. Times(t) = [expire |-> Countdown(interval), interval |-> interval]
  BY <1>1 DEF Times, Timer
<1>4. Changed(s, k, interval) = [s EXCEPT ![k] = t]
  BY DEF Changed
<1> HIDE DEF t
<1>5. s[k].id \in Named(s)
  BY DuePool
<1>6. Named([s EXCEPT ![k] = t]) = Named(s)
  BY <1>2, DueRetimed
<1>7. \A i \in Named(s) : DueIn([s EXCEPT ![k] = t])[i]
                             = IF i = s[k].id THEN Times(t) ELSE DueIn(s)[i]
  BY <1>2, DueRetimed
<1> QED
  BY <1>3, <1>4, <1>5, <1>6, <1>7

LEMMA DueOfPool ==
  /\ dueOf = DueIn(timers) /\ dueOf' = DueIn(timers')
  /\ DOMAIN dueOf = Named(timers) /\ DOMAIN dueOf' = Named(timers')
<1>1. dueOf = DueIn(timers) /\ dueOf' = DueIn(timers')
  BY DEF dueOf, DueIn, Active, Named, Times
<1> QED
  BY <1>1 DEF DueIn

\* What SoftwareTimerRun reschedules after a callback: the timer in the slot
\* under the cursor, or none.
LEMMA DueRescheduled ==
  ASSUME now \in 0 .. (Wrap - 1), NEW n \in Int, NEW s, Pool(s, n), NEW c \in Nat,
         NEW interval \in Intervals \cup {0}, timers' = Rescheduled(s, c, interval)
  PROVE  /\ Named(timers') = Named(s)
         /\ \E late \in SUBSET Named(s) :
              /\ Cardinality(late) <= 1
              /\ c + 1 \in 1 .. Len(s) => late = {s[c + 1].id}
              /\ \A id \in Named(s) :
                   dueOf'[id]
                     = IF id \in late THEN [DueIn(s)[id] EXCEPT !.expire = Countdown(interval)]
                                      ELSE DueIn(s)[id]
<1>1. /\ s \in Seq(Timer) /\ DOMAIN s = 1 .. Len(s)
      /\ \A i \in 1 .. Len(s) : s[i].id \in Named(s) /\ DueIn(s)[s[i].id] = Times(s[i])
  BY DuePool DEF Pool
<1>2. CASE c + 1 \in 1 .. Len(s)
  <2> DEFINE t == [s[c + 1] EXCEPT !.expire = Countdown(interval)]
  <2>1. s[c + 1] \in Timer
    BY <1>1, <1>2, ElementOfSeq
  <2>2. t \in Timer /\ t.id = s[c + 1].id
    BY <2>1, Retimed
  <2>3. Times(t) = [Times(s[c + 1]) EXCEPT !.expire = Countdown(interval)]
    BY <2>1 DEF Times, Timer
  <2>4. timers' = [s EXCEPT ![c + 1] = t]
    BY <1>1, <1>2 DEF Rescheduled
  <2> HIDE DEF t
  <2>5. /\ Named([s EXCEPT ![c + 1] = t]) = Named(s)
        /\ \A id \in Named(s) : DueIn([s EXCEPT ![c + 1] = t])[id]
                                  = IF id = s[c + 1].id THEN Times(t) ELSE DueIn(s)[id]
    <3> DEFINE k == c + 1
    <3>1. k \in 1 .. Len(s) /\ t \in Timer /\ t.id = s[k].id
      BY <1>2, <2>2
    <3> HIDE DEF k
    <3>2. Named([s EXCEPT ![k] = t]) = Named(s)
      BY <3>1, DueRetimed
    <3>3. \A id \in Named(s) : DueIn([s EXCEPT ![k] = t])[id]
                                = IF id = s[k].id THEN Times(t) ELSE DueIn(s)[id]
      BY <3>1, DueRetimed
    <3> QED
      BY <3>2, <3>3 DEF k
  <2>6. /\ Named(timers') = Named(s)
        /\ \A id \in Named(s) : dueOf'[id]
                                  = IF id = s[c + 1].id THEN Times(t) ELSE DueIn(s)[id]
    BY <2>4, <2>5, DueOfPool
  <2> DEFINE late == {s[c + 1].id}
  <2>7. late \in SUBSET Named(s) /\ Cardinality(late) <= 1
    <3>1. Cardinality(late) = 1
      BY FS_Singleton
    <3> QED
      BY <1>1, <1>2, <3>1
  <2>8. \A id \in Named(s) :
          dueOf'[id]
            = IF id \in late THEN [DueIn(s)[id] EXCEPT !.expire = Countdown(interval)]
                             ELSE DueIn(s)[id]
    <3> SUFFICES ASSUME NEW id \in Named(s)
                 PROVE  dueOf'[id]
                          = IF id \in late
                              THEN [DueIn(s)[id] EXCEPT !.expire = Countdown(interval)]
                              ELSE DueIn(s)[id]
      OBVIOUS
    <3>1. CASE id = s[c + 1].id
      <4>1. DueIn(s)[id] = Times(s[c + 1])
        BY <1>1, <1>2, <3>1
      <4>2. dueOf'[id] = Times(t)
        BY <2>6, <3>1
      <4> QED
        BY <2>3, <3>1, <4>1, <4>2
    <3>2. CASE id # s[c + 1].id
      BY <2>6, <3>2
    <3> QED
      BY <3>1, <3>2
  <2> HIDE DEF late
  <2>9. late = {s[c + 1].id}
    BY DEF late
  <2> QED
    BY <2>6, <2>7, <2>8, <2>9
<1>3. CASE c + 1 \notin 1 .. Len(s)
  <2>1. timers' = s
    BY <1>1, <1>3 DEF Rescheduled
  <2>2. {} \in SUBSET Named(s) /\ Cardinality({}) <= 1
    BY FS_EmptySet
  <2> QED
    BY <1>3, <2>1, <2>2, DueOfPool
<1> QED
  BY <1>2, <1>3

LEMMA NamedBound ==
  ASSUME NEW n \in Int, NEW s, Pool(s, n)
  PROVE  Cardinality(Named(s)) <= Len(s)
<1> DEFINE f == [i \in 1 .. Len(s) |-> s[i].id]
<1>1. /\ DOMAIN s = 1 .. Len(s) /\ Len(s) \in Nat
      /\ \A i \in 1 .. Len(s) : s[i].id \in Named(s)
      /\ \A id \in Named(s) : \E i \in 1 .. Len(s) : s[i].id = id
  BY DuePool
<1>2. f \in Surjection(1 .. Len(s), Named(s))
  BY <1>1 DEF Surjection
<1>3. ExistsSurjection(1 .. Len(s), Named(s))
  BY <1>2 DEF ExistsSurjection
<1> QED
  BY <1>1, <1>3, FS_SurjCardinalityBound

LEMMA NamedFinite ==
  ASSUME NEW n \in Int, NEW s, Pool(s, n)
  PROVE  IsFiniteSet(Named(s))
<1> DEFINE f == [i \in 1 .. Len(s) |-> s[i].id]
<1>1. /\ Len(s) \in Nat
      /\ \A i \in 1 .. Len(s) : s[i].id \in Named(s)
      /\ \A id \in Named(s) : \E i \in 1 .. Len(s) : s[i].id = id
  BY DuePool
<1>2. f \in Surjection(1 .. Len(s), Named(s))
  BY <1>1 DEF Surjection
<1>3. IsFiniteSet(1 .. Len(s))
  BY <1>1, FS_Interval
<1> QED
  BY <1>2, <1>3, FS_Surjection

-----------------------------------------------------------------------------
(***************************************************************************)
(* Each step of the pool is one of the service's, or leaves it alone.      *)
(***************************************************************************)
LEMMA KeptCardinality ==
  ASSUME NEW S  PROVE Kept!Cardinality(S) = Cardinality(S)
BY DEF Kept!Cardinality, Cardinality

LEMMA StartedWith ==
  ASSUME NEW id, NEW interval, NEW ids, DOMAIN dueOf' = ids, ids = DOMAIN dueOf \cup {id},
         dueOf'[id] = [expire |-> Countdown(interval), interval |-> interval],
         \A i \in DOMAIN dueOf \ {id} : dueOf'[i] = dueOf[i]
  PROVE  dueOf' = Kept!With(dueOf, id, interval)
<1>1. dueOf' = [i \in ids |-> dueOf'[i]]
  BY DueOfPool DEF DueIn
<1>2. \A i \in ids : dueOf'[i] = IF i = id
                                   THEN [expire |-> (now + interval) % Wrap, interval |-> interval]
                                   ELSE dueOf[i]
  BY DEF Countdown
<1> QED
  BY <1>1, <1>2 DEF Kept!With

LEMMA KeptAdd ==
  ASSUME IInv, NEW interval \in Intervals, SoftwareTimerAdd(interval)
  PROVE  Kept!ServiceNext
<1>1. /\ Pool(timers, nextId) /\ now \in 0 .. (Wrap - 1) /\ nextId \in Int
      /\ nextId \in 0 .. (MaxId - 1) /\ Len(timers) \in Nat /\ Len(timers) < Max /\ Max \in Nat
  BY TimersAssumption, LenProperties DEF IInv, Pool, SoftwareTimerAdd, CanAdd
<1>2. timers' = Added(timers, nextId, interval) /\ now' = now
  BY DEF SoftwareTimerAdd
<1>3. /\ Named(timers') = Named(timers) \cup {nextId} /\ nextId \notin Named(timers)
      /\ \A id \in Named(timers) : DueIn(timers')[id] = DueIn(timers)[id]
      /\ DueIn(timers')[nextId] = [expire |-> Countdown(interval), interval |-> interval]
  BY <1>1, <1>2, DueAdded
<1>4. dueOf' = Kept!With(dueOf, nextId, interval)
  BY <1>3, DueOfPool, StartedWith
<1>5. Cardinality(DOMAIN dueOf) < Max
  <2>1. Cardinality(Named(timers)) <= Len(timers) /\ IsFiniteSet(Named(timers))
    <3>1. Cardinality(Named(timers)) <= Len(timers)
      BY <1>1, NamedBound
    <3>2. IsFiniteSet(Named(timers))
      BY <1>1, NamedFinite
    <3> QED
      BY <3>1, <3>2
  <2>2. Cardinality(Named(timers)) \in Nat
    BY <2>1, FS_CardinalityType
  <2> QED
    BY <1>1, <2>1, <2>2, DueOfPool
<1>6. Kept!Started(nextId, interval)
  BY <1>3, <1>4, <1>5, DueOfPool, KeptCardinality DEF Kept!Started
<1>7. nextId \in Ids
  BY <1>1 DEF Ids
<1> QED
  BY <1>2, <1>6, <1>7 DEF Kept!ServiceNext

LEMMA KeptDelete ==
  ASSUME IInv, NEW i \in DOMAIN timers, SoftwareTimerDelete(i)
  PROVE  Kept!ServiceNext
<1>1. /\ Pool(timers, nextId) /\ nextId \in Int /\ timers \in Seq(Timer)
      /\ DOMAIN timers = 1 .. Len(timers)
  BY TimersAssumption, LenProperties DEF IInv, Pool
<1>2. timers' = DeletedAt(timers, i) /\ now' = now
  BY DEF SoftwareTimerDelete
<1> DEFINE id == timers[i].id
<1>3. /\ Named(timers') = Named(timers) \ {id}
      /\ \A k \in Named(timers) \ {id} : DueIn(timers')[k] = DueIn(timers)[k]
  BY <1>1, <1>2, DueDeleted
<1>4. id \in Named(timers) /\ id \in Ids
  <2>1. timers[i] \in Timer
    BY <1>1, ElementOfSeq
  <2> QED
    BY <2>1 DEF Named, Timer
<1> HIDE DEF id
<1>5. dueOf' = Kept!Without(dueOf, {id})
  <2>1. dueOf' = [k \in Named(timers') |-> dueOf'[k]]
    BY DueOfPool DEF DueIn
  <2> QED
    BY <1>3, <2>1, DueOfPool DEF Kept!Without
<1>6. Kept!Deleted(id)
  BY <1>4, <1>5, DueOfPool DEF Kept!Deleted
<1> QED
  BY <1>2, <1>4, <1>6 DEF Kept!ServiceNext

LEMMA KeptChange ==
  ASSUME IInv, NEW i \in DOMAIN timers, NEW interval \in Intervals \cup {0},
         SoftwareTimerChange(i, interval)
  PROVE  Kept!ServiceNext
<1>1. /\ Pool(timers, nextId) /\ nextId \in Int /\ timers \in Seq(Timer)
      /\ DOMAIN timers = 1 .. Len(timers) /\ now \in 0 .. (Wrap - 1)
  BY TimersAssumption, LenProperties DEF IInv, Pool
<1> DEFINE t == [timers[i] EXCEPT !.expire = Countdown(interval), !.interval = interval]
           id == timers[i].id
<1>2. timers' = [timers EXCEPT ![i] = t] /\ now' = now
  BY DEF SoftwareTimerChange, Changed
<1>3. timers[i] \in Timer /\ i \in 1 .. Len(timers)
  BY <1>1, ElementOfSeq
<1>4. t \in Timer /\ t.id = id
  BY <1>1, <1>3, Retimed
<1>5. Times(t) = [expire |-> Countdown(interval), interval |-> interval]
  BY <1>3 DEF Times, Timer
<1>6. id \in Named(timers) /\ id \in Ids
  BY <1>1, <1>3 DEF Named, Timer
<1> HIDE DEF t
<1>7. Named([timers EXCEPT ![i] = t]) = Named(timers)
  BY <1>1, <1>3, <1>4, DueRetimed
<1>8. \A k \in Named(timers) : DueIn([timers EXCEPT ![i] = t])[k]
                                 = IF k = id THEN Times(t) ELSE DueIn(timers)[k]
  <2>1. \A k \in Named(timers) : DueIn([timers EXCEPT ![i] = t])[k]
                                  = IF k = timers[i].id THEN Times(t) ELSE DueIn(timers)[k]
    <3> DEFINE j == i
               s == timers
    <3>1. /\ Pool(s, nextId) /\ j \in 1 .. Len(s) /\ t \in Timer /\ t.id = s[j].id
          /\ nextId \in Int
      BY <1>1, <1>3, <1>4
    <3> HIDE DEF j, s
    <3>2. \A k \in Named(s) : DueIn([s EXCEPT ![j] = t])[k]
                                = IF k = s[j].id THEN Times(t) ELSE DueIn(s)[k]
      BY <3>1, DueRetimed
    <3> QED
      BY <3>2 DEF j, s
  <2> QED
    BY <2>1
<1>9. /\ Named(timers') = Named(timers)
      /\ \A k \in Named(timers) : DueIn(timers')[k]
                                    = IF k = id THEN Times(t) ELSE DueIn(timers)[k]
  BY <1>2, <1>7, <1>8
<1> HIDE DEF id
<1>10. dueOf' = Kept!With(dueOf, id, interval)
  <2>1. DOMAIN dueOf' = Named(timers) /\ Named(timers) = DOMAIN dueOf \cup {id}
    BY <1>6, <1>9, DueOfPool
  <2>2. dueOf'[id] = [expire |-> Countdown(interval), interval |-> interval]
    BY <1>5, <1>6, <1>9, DueOfPool
  <2>3. \A k \in DOMAIN dueOf \ {id} : dueOf'[k] = dueOf[k]
    BY <1>9, DueOfPool
  <2> QED
    BY <2>1, <2>2, <2>3, StartedWith
<1>11. Kept!Restarted(id, interval)
  BY <1>6, <1>10, DueOfPool DEF Kept!Restarted
<1> QED
  BY <1>2, <1>6, <1>11 DEF Kept!ServiceNext

\* A callback of timer id that is due deletes the timers gone and adds others.
LEMMA KeptExpired ==
  ASSUME NEW id \in Named(timers), id \in Ids, now' = now,
         (now - dueOf[id].expire) % Wrap < Wrap \div 2,
         NEW gone, gone \subseteq Named(timers),
         NEW added, added \subseteq Ids \ Named(timers),
         NEW late, late \in Kept!Rescheduled(id, gone),
         Named(timers') = (Named(timers) \ gone) \cup added,
         Cardinality(Named(timers')) <= Max,
         \A i \in Named(timers) \ gone :
           dueOf'[i] = IF i \in late
                         THEN [dueOf[i] EXCEPT !.expire = Countdown(dueOf[id].interval)]
                         ELSE dueOf[i],
         \A i \in added : \E interval \in Intervals :
           dueOf'[i] = [expire |-> Countdown(interval), interval |-> interval]
  PROVE  Kept!ServiceNext
<1>1. DOMAIN dueOf = Named(timers) /\ DOMAIN dueOf' = Named(timers')
  BY DueOfPool
<1>2. /\ DOMAIN dueOf' = (DOMAIN dueOf \ gone) \cup added
      /\ Kept!Cardinality(DOMAIN dueOf') <= Max
  BY <1>1, KeptCardinality
<1>3. \E l \in Kept!Rescheduled(id, gone) : \A i \in DOMAIN dueOf \ gone :
        dueOf'[i] = IF i \in l
                      THEN [dueOf[i] EXCEPT !.expire = (now + dueOf[id].interval) % Wrap]
                      ELSE dueOf[i]
  BY <1>1 DEF Countdown
<1>4. \A i \in added : \E interval \in Intervals :
        dueOf'[i] = [expire |-> (now + interval) % Wrap, interval |-> interval]
  BY DEF Countdown
<1>5. gone \in SUBSET DOMAIN dueOf /\ added \in SUBSET (Ids \ DOMAIN dueOf)
  BY <1>1
<1>6. Kept!Expired(id)
  <2>1. id \in DOMAIN dueOf
    BY <1>1
  <2> QED
    BY <1>2, <1>3, <1>4, <1>5, <2>1, Zenon DEF Kept!Expired
<1> QED
  BY <1>6 DEF Kept!ServiceNext

\* The slot under the cursor after a deletion is rescheduled: at most one timer.
LEMMA KeptRun ==
  ASSUME IInv, RunExpired
  PROVE  Kept!ServiceNext
<1> DEFINE t == timers[current + 1]
           id == t.id
           x == t.interval
<1>1. /\ Pool(timers, nextId) /\ InPool(timers, current) /\ timers \in Seq(Timer)
      /\ DOMAIN timers = 1 .. Len(timers) /\ Len(timers) \in Nat
      /\ nextId \in 0 .. MaxId /\ nextId \in Int /\ MaxId \in Nat /\ current \in Nat
      /\ now \in 0 .. (Wrap - 1) /\ Max \in Nat
  BY TimersAssumption, LenProperties DEF IInv, Pool, InPool
<1>2. current + 1 \in 1 .. Len(timers)
  BY <1>1, EmptySeq DEF RunExpired, InPool
<1>3. t \in Timer
  BY <1>1, <1>2, ElementOfSeq
<1>4. x \in Intervals \cup {0} /\ id \in Ids
  BY <1>3 DEF Timer
<1>5. now' = now /\ Expired(t)
  BY DEF RunExpired
<1>6. id \in Named(timers) /\ dueOf[id] = Times(t)
  <2>1. timers[current + 1].id \in Named(timers)
        /\ DueIn(timers)[timers[current + 1].id] = Times(timers[current + 1])
    BY <1>1, <1>2, DuePool
  <2> QED
    BY <2>1, DueOfPool
<1>7. /\ (now - dueOf[id].expire) % Wrap < Wrap \div 2
      /\ Countdown(dueOf[id].interval) = Countdown(x)
  BY <1>5, <1>6 DEF Expired, Times
<1>8. ASSUME NEW n \in Int, NEW s, Pool(s, n), Named(timers') = Named(s)
      PROVE  Cardinality(Named(timers')) <= Max
  <2>1. Cardinality(Named(s)) <= Len(s) /\ Len(s) <= Max /\ Len(s) \in Nat
    <3>1. Cardinality(Named(s)) <= Len(s)
      BY <1>8, NamedBound
    <3>2. Len(s) <= Max /\ s \in Seq(Timer)
      BY <1>8 DEF Pool
    <3> QED
      BY <3>1, <3>2, LenProperties
  <2>2. Cardinality(Named(s)) \in Nat
    <3>1. IsFiniteSet(Named(s))
      BY <1>8, NamedFinite
    <3> QED
      BY <3>1, FS_CardinalityType
  <2> QED
    BY <1>1, <1>8, <2>1, <2>2
<1> HIDE DEF t, x
<1>9. CASE AfterCallback(timers, current, t.interval)
  <2>1. timers' = Rescheduled(timers, current, x)
    BY <1>9 DEF AfterCallback, x
  <2>2. /\ Named(timers') = Named(timers)
        /\ \E late \in SUBSET Named(timers) :
             /\ Cardinality(late) <= 1
             /\ current + 1 \in 1 .. Len(timers) => late = {timers[current + 1].id}
             /\ \A i \in Named(timers) :
                  dueOf'[i] = IF i \in late
                                THEN [DueIn(timers)[i] EXCEPT !.expire = Countdown(x)]
                                ELSE DueIn(timers)[i]
    BY <1>1, <1>4, <2>1, DueRescheduled, Zenon
  <2>3. \A i \in Named(timers) :
          dueOf'[i] = IF i \in {id}
                        THEN [dueOf[i] EXCEPT !.expire = Countdown(dueOf[id].interval)]
                        ELSE dueOf[i]
    BY <1>2, <1>7, <2>2, DueOfPool DEF t
  <2>4. {id} \in Kept!Rescheduled(id, {})
    BY DEF Kept!Rescheduled
  <2>5. Cardinality(Named(timers')) <= Max
    BY <1>1, <1>8, <2>2
  <2> DEFINE none == {}
  <2>6. /\ none \subseteq Named(timers) /\ none \subseteq Ids \ Named(timers)
        /\ Named(timers') = (Named(timers) \ none) \cup none
        /\ {id} \in Kept!Rescheduled(id, none)
        /\ \A i \in Named(timers) \ none :
             dueOf'[i] = IF i \in {id}
                           THEN [dueOf[i] EXCEPT !.expire = Countdown(dueOf[id].interval)]
                           ELSE dueOf[i]
        /\ \A i \in none : \E interval \in Intervals :
             dueOf'[i] = [expire |-> Countdown(interval), interval |-> interval]
    BY <2>2, <2>3, <2>4
  <2> HIDE DEF none, id
  <2> QED
    BY <1>4, <1>5, <1>6, <1>7, <2>5, <2>6, KeptExpired
<1>10. CASE /\ CanAdd(timers) /\ nextId < MaxId
            /\ \E interval \in Intervals :
                 AfterCallback(Added(timers, nextId, interval), current, t.interval)
  <2>1. PICK interval \in Intervals :
          AfterCallback(Added(timers, nextId, interval), current, t.interval)
    BY <1>10
  <2> DEFINE s == Added(timers, nextId, interval)
  <2>2. nextId \in 0 .. (MaxId - 1) /\ Len(timers) < Max /\ nextId + 1 \in Int
    BY <1>1, <1>10 DEF CanAdd
  <2>3. Pool(s, nextId + 1) /\ Len(s) = Len(timers) + 1
    BY <1>1, <2>2, AddedPool
  <2>4. /\ Named(s) = Named(timers) \cup {nextId} /\ nextId \notin Named(timers)
        /\ \A i \in Named(timers) : DueIn(s)[i] = DueIn(timers)[i]
        /\ DueIn(s)[nextId] = [expire |-> Countdown(interval), interval |-> interval]
        /\ \A j \in 1 .. Len(timers) : s[j] = timers[j]
    BY <1>1, <2>2, DueAdded
  <2>5. timers' = Rescheduled(s, current, x)
    BY <2>1 DEF AfterCallback, x
  <2> HIDE DEF s
  <2>6. /\ Named(timers') = Named(s)
        /\ \E late \in SUBSET Named(s) :
             /\ Cardinality(late) <= 1
             /\ current + 1 \in 1 .. Len(s) => late = {s[current + 1].id}
             /\ \A i \in Named(s) :
                  dueOf'[i] = IF i \in late
                                THEN [DueIn(s)[i] EXCEPT !.expire = Countdown(x)]
                                ELSE DueIn(s)[i]
    BY <1>1, <1>4, <2>2, <2>3, <2>5, DueRescheduled, Zenon
  <2>7. current + 1 \in 1 .. Len(s) /\ s[current + 1].id = id
    BY <1>1, <1>2, <2>3, <2>4 DEF t
  <2>8. \A i \in Named(s) :
          dueOf'[i] = IF i \in {id} THEN [DueIn(s)[i] EXCEPT !.expire = Countdown(x)]
                                    ELSE DueIn(s)[i]
    BY <2>6, <2>7
  <2>9. \A i \in Named(timers) :
          dueOf'[i] = IF i \in {id}
                        THEN [dueOf[i] EXCEPT !.expire = Countdown(dueOf[id].interval)]
                        ELSE dueOf[i]
    BY <1>7, <2>4, <2>8, DueOfPool
  <2>10. dueOf'[nextId] = [expire |-> Countdown(interval), interval |-> interval]
    BY <1>6, <2>4, <2>8, DueOfPool
  <2>11. Cardinality(Named(timers')) <= Max
    BY <1>8, <2>2, <2>3, <2>6
  <2> DEFINE none == {}
             new == {nextId}
  <2>12. /\ none \subseteq Named(timers) /\ new \subseteq Ids \ Named(timers)
         /\ Named(timers') = (Named(timers) \ none) \cup new
         /\ {id} \in Kept!Rescheduled(id, none)
    BY <2>2, <2>4, <2>6 DEF Kept!Rescheduled, Ids
  <2>13. /\ \A i \in Named(timers) \ none :
              dueOf'[i] = IF i \in {id}
                            THEN [dueOf[i] EXCEPT !.expire = Countdown(dueOf[id].interval)]
                            ELSE dueOf[i]
         /\ \A i \in new : \E given \in Intervals :
              dueOf'[i] = [expire |-> Countdown(given), interval |-> given]
    BY <2>9, <2>10
  <2> HIDE DEF none, new, id
  <2> QED
    BY <1>4, <1>5, <1>6, <1>7, <2>11, <2>12, <2>13, KeptExpired
<1>11. CASE \E i \in DOMAIN timers :
              AfterCallback(DeletedAt(timers, i), CursorAfterDelete(timers, current), t.interval)
  <2>1. PICK k \in DOMAIN timers :
          AfterCallback(DeletedAt(timers, k), CursorAfterDelete(timers, current), t.interval)
    BY <1>11
  <2> DEFINE s == DeletedAt(timers, k)
             c == CursorAfterDelete(timers, current)
             gone == {timers[k].id}
             none == {}
  <2>2. Pool(s, nextId)
    BY <1>1, DeletedPool
  <2>3. c \in Nat
    BY <1>1 DEF CursorAfterDelete
  <2>4. timers[k].id \in Named(timers)
    BY DEF Named
  <2>5. /\ Named(s) = Named(timers) \ gone
        /\ \A i \in Named(timers) \ gone : DueIn(s)[i] = DueIn(timers)[i]
    BY <1>1, DueDeleted
  <2>6. timers' = Rescheduled(s, c, x)
    BY <2>1 DEF AfterCallback, x
  <2>7. gone # {} /\ gone \subseteq Named(timers)
    BY <2>4
  <2> HIDE DEF s, c, gone
  <2>8. /\ Named(timers') = Named(s)
        /\ \E late \in SUBSET Named(s) :
             /\ Cardinality(late) <= 1
             /\ c + 1 \in 1 .. Len(s) => late = {s[c + 1].id}
             /\ \A i \in Named(s) :
                  dueOf'[i] = IF i \in late
                                THEN [DueIn(s)[i] EXCEPT !.expire = Countdown(x)]
                                ELSE DueIn(s)[i]
    BY <1>1, <1>4, <2>2, <2>3, <2>6, DueRescheduled, Zenon
  <2>9. PICK late \in SUBSET Named(s) :
          /\ Cardinality(late) <= 1
          /\ \A i \in Named(s) :
               dueOf'[i] = IF i \in late
                             THEN [DueIn(s)[i] EXCEPT !.expire = Countdown(x)]
                             ELSE DueIn(s)[i]
    BY <2>8
  <2>10. \A i \in Named(timers) \ gone :
           dueOf'[i] = IF i \in late
                         THEN [dueOf[i] EXCEPT !.expire = Countdown(dueOf[id].interval)]
                         ELSE dueOf[i]
    BY <1>7, <2>5, <2>9, DueOfPool
  <2>11. Cardinality(Named(timers')) <= Max
    BY <1>1, <1>8, <2>2, <2>8
  <2>12. late \in Kept!Rescheduled(id, gone)
    BY <2>5, <2>7, <2>9, DueOfPool, KeptCardinality DEF Kept!Rescheduled
  <2>13. /\ none \subseteq Ids \ Named(timers)
         /\ Named(timers') = (Named(timers) \ gone) \cup none
         /\ \A i \in none : \E interval \in Intervals :
              dueOf'[i] = [expire |-> Countdown(interval), interval |-> interval]
    BY <2>5, <2>8
  <2> HIDE DEF none, id
  <2> QED
    BY <1>4, <1>5, <1>6, <1>7, <2>7, <2>10, <2>11, <2>12, <2>13, KeptExpired
<1>12. CASE \E i \in DOMAIN timers, interval \in Intervals \cup {0} :
              AfterCallback(Changed(timers, i, interval), current, t.interval)
  <2>1. PICK k \in DOMAIN timers, interval \in Intervals \cup {0} :
          AfterCallback(Changed(timers, k, interval), current, t.interval)
    BY <1>12
  <2> DEFINE s == Changed(timers, k, interval)
             other == timers[k].id
  <2>2. Pool(s, nextId) /\ Len(s) = Len(timers)
    BY <1>1, ChangedPool
  <2>3. /\ Named(s) = Named(timers) /\ other \in Named(timers)
        /\ \A i \in Named(timers) : DueIn(s)[i]
             = IF i = other THEN [expire |-> Countdown(interval), interval |-> interval]
                            ELSE DueIn(timers)[i]
    BY <1>1, DueChanged
  <2>4. s[current + 1].id = id
    BY <1>1, <1>2, ChangedIds DEF t
  <2>5. timers' = Rescheduled(s, current, x)
    BY <2>1 DEF AfterCallback, x
  <2> HIDE DEF s, other
  <2>6. /\ Named(timers') = Named(s)
        /\ \E late \in SUBSET Named(s) :
             /\ Cardinality(late) <= 1
             /\ current + 1 \in 1 .. Len(s) => late = {s[current + 1].id}
             /\ \A i \in Named(s) :
                  dueOf'[i] = IF i \in late
                                THEN [DueIn(s)[i] EXCEPT !.expire = Countdown(x)]
                                ELSE DueIn(s)[i]
    BY <1>1, <1>4, <2>2, <2>5, DueRescheduled, Zenon
  <2>7. \A i \in Named(timers) :
          dueOf'[i] = IF i = id THEN [DueIn(s)[i] EXCEPT !.expire = Countdown(x)]
                                ELSE DueIn(s)[i]
    BY <1>2, <2>2, <2>3, <2>4, <2>6
  <2> HIDE DEF id
  <2> DEFINE w == Kept!With(dueOf, other, interval)
  <2>8. DOMAIN w = Named(timers) /\ \A i \in Named(timers) : w[i] = DueIn(s)[i]
    BY <2>3, DueOfPool DEF Kept!With, Countdown
  <2>9. w = [i \in DOMAIN w |-> w[i]]
    BY DEF Kept!With
  <2> HIDE DEF w
  <2>10. dueOf' = [i \in Named(timers) |-> dueOf'[i]]
    BY <2>3, <2>6, DueOfPool DEF DueIn
  <2>11. dueOf' = [w EXCEPT ![id].expire = Countdown(x)]
    BY <1>6, <2>7, <2>8, <2>9, <2>10
  <2>12. Kept!ExpiredRestarting(id)
    <3>1. dueOf' = [w EXCEPT ![id].expire = (now + dueOf[id].interval) % Wrap]
      BY <1>7, <2>11 DEF Countdown
    <3>2. id \in DOMAIN dueOf /\ other \in DOMAIN dueOf
      BY <1>6, <2>3, DueOfPool
    <3> QED
      BY <1>7, <2>1, <3>1, <3>2 DEF Kept!ExpiredRestarting, w
  <2> QED
    BY <1>4, <1>5, <2>12 DEF Kept!ServiceNext
<1> QED
  BY <1>9, <1>10, <1>11, <1>12 DEF RunExpired, t

\* The steps that leave every countdown alone.
LEMMA KeptStutter ==
  ASSUME UNCHANGED timers
  PROVE  UNCHANGED dueOf
BY DEF dueOf, Active

LEMMA KeptStep ==
  ASSUME IInv, [Next]_vars
  PROVE  [Kept!ServiceNext]_(Kept!serviceVars)
<1>1. ASSUME NEW interval \in Intervals, SoftwareTimerAdd(interval)
      PROVE  Kept!ServiceNext
  BY <1>1, KeptAdd
<1>2. ASSUME NEW i \in DOMAIN timers, SoftwareTimerDelete(i)
      PROVE  Kept!ServiceNext
  BY <1>2, KeptDelete
<1>3. ASSUME NEW i \in DOMAIN timers, NEW interval \in Intervals \cup {0},
             SoftwareTimerChange(i, interval)
      PROVE  Kept!ServiceNext
  BY <1>3, KeptChange
<1>4. CASE RunExpired
  BY <1>4, KeptRun
<1>5. CASE RunNotExpired
  <2>1. UNCHANGED timers /\ UNCHANGED now
    BY <1>5 DEF RunNotExpired
  <2> QED
    BY <2>1, KeptStutter DEF Kept!serviceVars
<1>6. CASE Tick
  <2>1. UNCHANGED timers /\ now' = (now + 1) % Wrap
    BY <1>6 DEF Tick
  <2>2. UNCHANGED dueOf
    BY <2>1, KeptStutter
  <2> QED
    BY <2>1, <2>2 DEF Kept!ServiceNext
<1>7. CASE UNCHANGED vars
  <2>1. UNCHANGED timers /\ UNCHANGED now
    BY <1>7 DEF vars
  <2> QED
    BY <2>1, KeptStutter DEF Kept!serviceVars
<1> QED
  BY <1>1, <1>2, <1>3, <1>4, <1>5, <1>6, <1>7 DEF Next, SoftwareTimerRun

LEMMA KeptInit ==
  ASSUME Init
  PROVE  Kept!ServiceInit
<1>1. Active = {}
  BY DEF Init, Active
<1>2. dueOf = [id \in {} |-> 0]
  BY <1>1 DEF dueOf
<1> QED
  BY <1>2 DEF Init, Kept!ServiceInit

-----------------------------------------------------------------------------
\* The pool and the cursor keep their types and the pool never has more than
\* kSoftwareTimersMax timers, whatever the callbacks do.
THEOREM TypeCorrect == Spec => []TypeOK
<1>1. Spec => []IInv
  BY InitInv, StepInv, PTL DEF Spec
<1> QED
  BY <1>1, InvProperties, PTL

\* SoftwareTimerRun serves an active slot, and no handle names two timers, for
\* every order of additions and deletions inside and outside the callbacks.
THEOREM CursorSafe == Spec => []CursorOnActive
<1>1. Spec => []IInv
  BY InitInv, StepInv, PTL DEF Spec
<1> QED
  BY <1>1, InvProperties, PTL

\* The pool implements the service it keeps (TimerService, Disturbed): a timer
\* has a countdown of its own whatever is added, changed and deleted, and only
\* a callback that deletes a timer may cost another one its countdown, and then
\* no more than one.
THEOREM CountdownImplemented == Spec => CountdownKept
<1>1. Init => Kept!ServiceInit
  BY KeptInit
<1>2. IInv /\ [Next]_vars => [Kept!ServiceNext]_(Kept!serviceVars)
  BY KeptStep
<1>3. Spec => []IInv
  BY InitInv, StepInv, PTL DEF Spec
<1> QED
  BY <1>1, <1>2, <1>3, PTL DEF Spec, CountdownKept, Kept!ServiceSpec
=============================================================================
