------------------------------ MODULE ConfigStore ------------------------------
(***************************************************************************)
(* The configuration store, lib-configstore/include/configstore.h, kept in *)
(* flash (CONFIG_STORE_USE_ROM): the program changes the copy in RAM; a    *)
(* software timer calls Commit, which erases the flash and writes the copy *)
(* in many small steps, between which the program may change it again.     *)
(***************************************************************************)
EXTENDS FlashCode

CONSTANTS Magic, Zero   \* the valid first word of the store; a word of zeros

ASSUME StoreAssumption == {Magic, Zero} \subseteq Value /\ Magic # Zero

States == {"kIdle", "kChanged", "kChangedWaiting", "kErasing", "kErased",
           "kErasedWaiting", "kWriting"}

VARIABLES
  store,      \* s_store: word 1 is the magic number and the version
  state,      \* s_state
  timer,      \* s_timer_id is not kTimerIdNone
  reboot      \* board::Reboot: not called, in ConfigstoreCommit, about to reset

vars == <<flashVars, store, state, timer, reboot>>

Fields == 2 .. Words

Defaults == [w \in 1 .. Words |-> IF w = 1 THEN Magic ELSE Zero]

\* The store and the state machine have their types.
TypeOK ==
  /\ FlashTypeOK
  /\ store \in [1 .. Words -> Cell]
  /\ state \in States
  /\ timer \in BOOLEAN
  /\ reboot \in {"no", "commit", "reset"}

-----------------------------------------------------------------------------
\* The constructor, on what it finds in the flash.
IsValid(f) == f[1] = Magic

Boot(f) ==
  /\ flash' = f
  /\ fmc' = Ready
  /\ flashState' = "IDLE"
  /\ left' = 0
  /\ store' = IF IsValid(f) THEN [w \in 1 .. Words |-> f[w]] ELSE Defaults
  /\ state' = IF IsValid(f) THEN "kIdle" ELSE "kChanged"
  /\ timer' = ~IsValid(f)
  /\ reboot' = "no"

\* The first boot finds the flash erased.
Init ==
  /\ flash = [w \in Area |-> "erased"]
  /\ fmc = Ready
  /\ flashState = "IDLE"
  /\ left = 0
  /\ store = Defaults
  /\ state = "kChanged"
  /\ timer = TRUE
  /\ reboot = "no"

\* Mutant: a commit under way is not started over.
SetStatusChangedOnce ==
  /\ state' = IF state = "kIdle" THEN "kChanged" ELSE state
  /\ timer' = TRUE

SetStatusChanged == state' = "kChanged" /\ timer' = TRUE

\* Update, UpdateArray, Store, SetFlag..., ClearFlag...: if the value is new.
Update(w, v) ==
  /\ reboot = "no"
  /\ store[w] # v
  /\ store' = [store EXCEPT ![w] = v]
  /\ SetStatusChanged
  /\ UNCHANGED <<flashVars, reboot>>

-----------------------------------------------------------------------------
(***************************************************************************)
(* Commit: Flash, one step, and what it returns.                           *)
(***************************************************************************)
Goto(from, to) == state = from /\ state' = to /\ UNCHANGED flashVars

CommitTrue ==
  \/ Goto("kChanged", "kChangedWaiting")
  \/ Goto("kChangedWaiting", "kErasing")
  \/ state = "kErasing" /\ EraseFalse /\ UNCHANGED state
  \/ state = "kErasing" /\ EraseTrue /\ state' = "kErasedWaiting"
  \/ Goto("kErasedWaiting", "kErased")
  \/ Goto("kErased", "kWriting")
  \/ state = "kWriting" /\ WriteFalse(store) /\ UNCHANGED state

CommitFalse ==
  \/ Goto("kIdle", "kIdle")
  \/ state = "kWriting" /\ WriteTrue /\ state' = "kIdle"

\* Mutant: the timer is stopped while there is something left to do.
TimerStopsEarly ==
  /\ timer /\ reboot = "no"
  /\ \/ CommitTrue /\ timer' = (state' # "kErasedWaiting")
     \/ CommitFalse /\ timer' = FALSE
  /\ UNCHANGED <<store, reboot>>

\* The callback of the software timer.
Timer ==
  /\ timer /\ reboot = "no"
  /\ \/ CommitTrue /\ UNCHANGED timer
     \/ CommitFalse /\ timer' = FALSE
  /\ UNCHANGED <<store, reboot>>

\* board::Reboot, in which nothing else of the program runs.
Reboot ==
  /\ reboot = "no"
  /\ reboot' = "commit"
  /\ UNCHANGED <<flashVars, store, state, timer>>

\* Mutant: one call of Commit is enough.
ConfigstoreCommitOnce ==
  /\ reboot = "commit"
  /\ CommitTrue \/ CommitFalse
  /\ reboot' = "reset"
  /\ UNCHANGED <<store, timer>>

ConfigstoreCommit ==
  /\ reboot = "commit"
  /\ \/ CommitTrue /\ UNCHANGED reboot
     \/ CommitFalse /\ reboot' = "reset"
  /\ UNCHANGED <<store, timer>>

SystemReset == reboot = "reset" /\ Boot(flash)

\* The power fails, or the watchdog resets.
Crash == \E f \in Interrupted : Boot(f)

Controller == Complete /\ UNCHANGED <<store, state, timer, reboot>>

Next ==
  \/ \E w \in Fields, v \in Value : Update(w, v)
  \/ Timer
  \/ Reboot
  \/ ConfigstoreCommit
  \/ SystemReset
  \/ Crash
  \/ Controller

(***************************************************************************)
(* Fairness: the software timers serve every timer (SoftwareTimers, Served), *)
(* board::Reboot runs on, and the flash controller finishes.               *)
(***************************************************************************)
Spec ==
  /\ Init /\ [][Next]_vars
  /\ WF_vars(Timer) /\ WF_vars(ConfigstoreCommit) /\ WF_vars(SystemReset)
  /\ WF_vars(Controller)
-----------------------------------------------------------------------------
\* When the state machine is idle the flash holds the store, all of it,
\* whatever was changed while it was being erased and written.
Saved ==
  state = "kIdle" => fmc = Ready /\ \A w \in 1 .. Words : flash[w] = store[w]

\* A word is programmed only if it is erased: a commit that was started over
\* does not write on top of what the one before has written.
ErasedFirst == fmc.op = "program" => flash[fmc.at] = "erased"

\* Write is never called while the driver is in the middle of an erase (h7xx:
\* assert(0)).
WriteAfterErase == state = "kWriting" => ~InErase

\* Erase is never called while the driver is in the middle of a write
\* (h7xx/flashcode.cpp: default: assert(0); __builtin_unreachable()).  It does
\* not hold with H7 = TRUE; no run claims it.
EraseAssert == H7 /\ state = "kErasing" => ~InWrite

\* A restart loses no setting if nothing was left to commit or if it is
\* board::Reboot's.
RestartKeeps ==
  [][(SystemReset \/ (state = "kIdle" /\ Crash)) =>
       \A w \in Fields : store'[w] = store[w]]_vars

\* A change is not forgotten: with the settings left alone and no crash, the
\* store is saved, and stays so.
Settles ==
  <>[][~(Crash \/ \E w \in Fields, v \in Value : Update(w, v))]_vars
    => <>[](state = "kIdle")
=============================================================================
