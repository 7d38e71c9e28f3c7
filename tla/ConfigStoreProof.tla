--------------------------- MODULE ConfigStoreProof ---------------------------
(***************************************************************************)
(* For every layout of the store and every order of changes, commits,      *)
(* reboots and crashes: the type invariant, and what the flash holds.      *)
(***************************************************************************)
EXTENDS ConfigStore, TLAPS

Blank(words) == \A w \in words : flash[w] = "erased"

\* The pages an erase has done, the last of them perhaps not completed yet.
ErasedSoFar ==
  InErase =>
    /\ left <= Pages
    /\ flashState = "ERASE_PROGAM" => left # 0 /\ fmc = Ready
    /\ fmc.op = "program" => left = Pages
    /\ \A n \in 1 .. Pages - left : Blank(Page(n)) \/ fmc = Erasing(n)

\* The words a write that was not abandoned has done, the last one perhaps
\* not completed yet.
WrittenSoFar ==
  state = "kWriting" /\ InWrite =>
    /\ left <= Words
    /\ flashState = "WRITE_PROGRAM" => left # 0 /\ fmc = Ready
    /\ \A w \in 1 .. Words - left :
         flash[w] = store[w] \/ (flash[w] = "erased" /\ fmc = Programming(w, store[w]))
    /\ \A w \in Words - left + 1 .. Size : flash[w] = "erased"
    /\ fmc # Ready => left # Words /\ fmc = Programming(Words - left, store[Words - left])

\* Between the erase and the write the whole area is blank.
BlankBetween ==
  state \in {"kErasedWaiting", "kErased"} \/ (state = "kWriting" /\ ~InWrite) =>
    flashState = "IDLE" /\ fmc = Ready /\ Blank(Area)

\* Only an erase under way erases; an idle store leaves the driver idle; the
\* reset of a reboot comes last; and the store in RAM is valid.
Quiet ==
  /\ fmc.op = "erase" => InErase
  /\ state = "kIdle" => flashState = "IDLE"
  /\ reboot = "reset" => state = "kIdle"
  /\ store[1] = Magic

IInv == TypeOK /\ ErasedSoFar /\ WrittenSoFar /\ BlankBetween /\ Quiet /\ Saved /\ ErasedFirst

-----------------------------------------------------------------------------
(***************************************************************************)
(* What the flash may hold after an operation, completed or interrupted.   *)
(***************************************************************************)
LEMMA CellType == {"erased", "torn"} \subseteq Cell /\ Zero \in Cell /\ Magic \in Cell
BY StoreAssumption DEF Cell

LEMMA OperationFields ==
  ASSUME TypeOK
  PROVE  /\ fmc.op \in {"none", "erase", "program"}
         /\ fmc.op = "none" <=> fmc = Ready
         /\ fmc.op = "erase" => fmc.at \in 1 .. Pages /\ fmc = Erasing(fmc.at)
         /\ fmc.op = "program" => /\ fmc.at \in 1 .. Words /\ fmc.value \in Cell
                                  /\ fmc = Programming(fmc.at, fmc.value)
BY DEF TypeOK, FlashTypeOK, Operations, Ready, Erasing, Programming

LEMMA ErasedType ==
  ASSUME NEW f \in [Area -> Cell], NEW words
  PROVE  Erased(f, words) \in [Area -> Cell]
BY CellType DEF Erased

LEMMA ProgrammedType ==
  ASSUME NEW f \in [Area -> Cell], NEW w \in Area, NEW v \in Cell
  PROVE  Programmed(f, w, v) \in [Area -> Cell]
BY CellType DEF Programmed

LEMMA WordsInArea == 1 .. Words \subseteq Area /\ Words \in Nat /\ Words # 0 /\ Size \in Nat
BY FlashAssumption DEF Area

LEMMA InterruptedType ==
  ASSUME TypeOK, NEW f \in Interrupted
  PROVE  f \in [Area -> Cell]
<1>0. flash \in [Area -> Cell]
  BY DEF TypeOK, FlashTypeOK
<1>1. CASE fmc.op = "none"
  BY <1>0, <1>1 DEF Interrupted
<1>2. CASE fmc.op = "erase"
  BY <1>0, <1>2, ErasedType DEF Interrupted
<1>3. CASE fmc.op = "program"
  <2>1. fmc.at \in Area /\ fmc.value \in Cell
    BY <1>3, OperationFields, WordsInArea
  <2>2. [flash EXCEPT ![fmc.at] = "torn"] \in [Area -> Cell]
    BY <1>0, <2>1, CellType
  <2>. QED  BY <1>0, <1>3, <2>1, <2>2, ProgrammedType DEF Interrupted
<1>. QED  BY <1>1, <1>2, <1>3, OperationFields

-----------------------------------------------------------------------------
(***************************************************************************)
(* Restarts.                                                               *)
(***************************************************************************)
LEMMA DefaultsType == Defaults \in [1 .. Words -> Cell] /\ Defaults[1] = Magic
BY CellType, WordsInArea DEF Defaults

LEMMA BootInv ==
  ASSUME NEW f \in [Area -> Cell], Boot(f)
  PROVE  IInv'
<1>1. store' \in [1 .. Words -> Cell]
  BY DefaultsType, WordsInArea DEF Boot
<1>2. TypeOK'
  BY <1>1 DEF Boot, TypeOK, FlashTypeOK, Operations, FlashStates, States
<1>3. Saved'
  BY WordsInArea DEF Boot, Saved
<1>4. store'[1] = Magic
  BY DefaultsType, WordsInArea DEF Boot, IsValid
<1>5. ErasedFirst' /\ Quiet'
  BY <1>4 DEF Boot, ErasedFirst, Quiet, Ready
<1>. QED  BY <1>2, <1>3, <1>5
  DEF IInv, Boot, ErasedSoFar, WrittenSoFar, BlankBetween, InErase, InWrite

LEMMA InitInv == Init => IInv
<1>. SUFFICES ASSUME Init PROVE IInv
  OBVIOUS
<1>1. TypeOK
  BY CellType, DefaultsType
  DEF Init, TypeOK, FlashTypeOK, Operations, FlashStates, States
<1>2. ErasedFirst /\ Quiet
  BY DefaultsType DEF Init, ErasedFirst, Quiet, Ready
<1>. QED  BY <1>1, <1>2
  DEF IInv, Init, ErasedSoFar, WrittenSoFar, BlankBetween, Saved, InErase, InWrite

-----------------------------------------------------------------------------
(***************************************************************************)
(* The flash controller completes an operation.                            *)
(***************************************************************************)
LEMMA CompleteInv ==
  ASSUME IInv, Controller
  PROVE  IInv'
<1>. USE DEF IInv
<1>0. UNCHANGED <<store, state, timer, reboot, flashState, left>> /\ fmc' = Ready /\ fmc # Ready
  BY DEF Controller, Complete
<1>1. CASE fmc.op = "erase"
  <2>1. flash' = Erased(flash, Page(fmc.at)) /\ InErase
    BY <1>1 DEF Controller, Complete, Quiet
  <2>2. \A w \in Area : flash'[w] = IF w \in Page(fmc.at) THEN "erased" ELSE flash[w]
    BY <2>1 DEF Erased
  <2>3. TypeOK'
    BY <1>0, <2>1, ErasedType DEF TypeOK, FlashTypeOK, Operations
  <2>4. ErasedSoFar'
    <3>1. \A n \in 1 .. Pages - left : Blank(Page(n))'
      <4>. SUFFICES ASSUME NEW n \in 1 .. Pages - left PROVE Blank(Page(n))'
        OBVIOUS
      <4>1. CASE Blank(Page(n))
        BY <2>2, <4>1 DEF Blank, Page
      <4>2. CASE fmc = Erasing(n)
        BY <2>2, <4>2 DEF Blank, Page, Erasing
      <4>. QED  BY <2>1, <4>1, <4>2 DEF ErasedSoFar
    <3>. QED  BY <1>0, <2>1, <3>1 DEF ErasedSoFar, InErase, Ready
  <2>5. state \notin {"kIdle", "kErasedWaiting", "kErased"} /\ ~InWrite
    BY <1>1, <2>1 DEF Quiet, InErase, InWrite, BlankBetween
  <2>6. state # "kWriting"
    BY <2>1, <2>5 DEF BlankBetween, InErase
  <2>. QED  BY <1>0, <2>3, <2>4, <2>5, <2>6
    DEF WrittenSoFar, BlankBetween, Quiet, Saved, ErasedFirst, Ready, InErase, InWrite
<1>2. CASE fmc.op = "program"
  <2>1. /\ flash' = Programmed(flash, fmc.at, fmc.value)
        /\ fmc.at \in 1 .. Words /\ fmc.at \in Area /\ fmc.value \in Cell
        /\ flash \in [Area -> Cell]
        /\ flash[fmc.at] = "erased"
    BY <1>2, OperationFields, WordsInArea
    DEF Controller, Complete, TypeOK, FlashTypeOK, ErasedFirst
  <2>2. \A w \in Area : flash'[w] = IF w = fmc.at THEN fmc.value ELSE flash[w]
    BY <2>1 DEF Programmed
  <2>3. TypeOK'
    BY <1>0, <2>1, ProgrammedType DEF TypeOK, FlashTypeOK, Operations
  <2>4. ErasedSoFar'
    BY <1>0, <1>2, <2>3 DEF ErasedSoFar, InErase, Ready, TypeOK, FlashTypeOK
  <2>5. WrittenSoFar'
    <3>. SUFFICES ASSUME state = "kWriting", InWrite PROVE WrittenSoFar'
      BY <1>0 DEF WrittenSoFar, InWrite
    <3>1. /\ left \in Nat /\ left # Words /\ left <= Words
          /\ fmc = Programming(Words - left, store[Words - left])
      BY <1>0 DEF WrittenSoFar, TypeOK, FlashTypeOK
    <3>2. fmc.at = Words - left /\ fmc.value = store[Words - left]
      BY <3>1 DEF Programming
    <3>3. \A w \in 1 .. Words - left : flash'[w] = store[w]
      <4>. SUFFICES ASSUME NEW w \in 1 .. Words - left PROVE flash'[w] = store[w]
        OBVIOUS
      <4>1. w \in Area
        BY <3>1, WordsInArea
      <4>2. w # fmc.at => flash[w] = store[w]
        BY <3>2 DEF WrittenSoFar, Programming
      <4>. QED  BY <2>2, <3>2, <4>1, <4>2
    <3>4. \A w \in Words - left + 1 .. Size : flash'[w] = "erased"
      BY <2>2, <3>1, <3>2, WordsInArea DEF WrittenSoFar, Area
    <3>. QED  BY <1>0, <3>1, <3>3, <3>4 DEF WrittenSoFar, InWrite
  <2>6. state \notin {"kIdle", "kErasedWaiting", "kErased"} /\ (state = "kWriting" => InWrite)
    BY <1>0 DEF Saved, BlankBetween
  <2>. QED  BY <1>0, <2>3, <2>4, <2>5, <2>6
    DEF BlankBetween, Quiet, Saved, ErasedFirst, Ready, InWrite
<1>. QED  BY <1>0, <1>1, <1>2, OperationFields

-----------------------------------------------------------------------------
(***************************************************************************)
(* The calls of the flash driver.                                          *)
(***************************************************************************)
LEMMA EraseFalseInv ==
  ASSUME IInv, state = "kErasing", EraseFalse, UNCHANGED <<store, state, reboot>>,
         timer' \in BOOLEAN
  PROVE  IInv'
<1>. USE DEF IInv
<1>1. TypeOK'
  <2>1. ASSUME ErasePage PROVE Pages - left + 1 \in 1 .. Pages
    BY <2>1, FlashAssumption DEF ErasePage, ErasedSoFar, InErase, TypeOK, FlashTypeOK
  <2>. QED  BY <2>1, FlashAssumption
    DEF EraseFalse, EraseAbandonsWrite, EraseStarts, EraseWaits, EraseGoesOn, ErasePage,
        TypeOK, FlashTypeOK, FlashStates, flashVars, Operations, Erasing, ErasedSoFar, InErase
<1>2. ErasedSoFar'
  <2>1. CASE EraseAbandonsWrite
    BY <2>1 DEF EraseAbandonsWrite, ErasedSoFar, InErase
  <2>2. CASE EraseStarts
    BY <2>2, FlashAssumption DEF EraseStarts, ErasedSoFar, InErase
  <2>3. CASE EraseWaits
    BY <2>3 DEF EraseWaits, ErasedSoFar, InErase, flashVars, Blank
  <2>4. CASE EraseGoesOn
    BY <2>4 DEF EraseGoesOn, ErasedSoFar, InErase, Blank
  <2>5. CASE ErasePage
    <3>1. left \in Nat /\ left # 0 /\ left <= Pages /\ fmc = Ready /\ left' = left - 1
          /\ flash' = flash /\ fmc' = Erasing(Pages - left + 1) /\ Pages \in Nat
      BY <2>5, FlashAssumption DEF ErasePage, ErasedSoFar, InErase, TypeOK, FlashTypeOK
    <3>2. \A n \in 1 .. Pages - left : Blank(Page(n))'
      BY <2>5, <3>1 DEF ErasePage, ErasedSoFar, InErase, Blank, Ready, Erasing
    <3>3. \A n \in 1 .. Pages - left' : n \in 1 .. Pages - left \/ n = Pages - left + 1
      BY <3>1
    <3>. QED  BY <2>5, <3>1, <3>2, <3>3 DEF ErasePage, ErasedSoFar, InErase, Erasing
  <2>. QED  BY <2>1, <2>2, <2>3, <2>4, <2>5 DEF EraseFalse
<1>3. Quiet' /\ ErasedFirst'
  BY DEF EraseFalse, EraseAbandonsWrite, EraseStarts, EraseWaits, EraseGoesOn, ErasePage,
         Quiet, ErasedFirst, InErase, InWrite, flashVars, Erasing
<1>. QED  BY <1>1, <1>2, <1>3 DEF WrittenSoFar, BlankBetween, Saved

LEMMA EraseTrueInv ==
  ASSUME IInv, state = "kErasing", EraseTrue, state' = "kErasedWaiting",
         UNCHANGED <<store, reboot>>, timer' \in BOOLEAN
  PROVE  IInv'
<1>. USE DEF IInv, EraseTrue
<1>1. TypeOK'
  BY DEF TypeOK, FlashTypeOK, FlashStates, States
<1>2. Blank(Area)'
  <2>. SUFFICES ASSUME NEW w \in Area PROVE flash[w] = "erased"
    BY DEF Blank
  <2>1. PageOf[w] \in 1 .. Pages - left /\ w \in Page(PageOf[w])
    BY FlashAssumption DEF Page, Area
  <2>2. fmc # Erasing(PageOf[w])
    BY DEF Ready, Erasing
  <2>. QED  BY <2>1, <2>2 DEF ErasedSoFar, InErase, Blank
<1>. QED  BY <1>1, <1>2
  DEF ErasedSoFar, WrittenSoFar, BlankBetween, Quiet, Saved, ErasedFirst, InErase, InWrite, Ready

LEMMA WriteFalseInv ==
  ASSUME IInv, state = "kWriting", WriteFalse(store), UNCHANGED <<store, state, reboot>>,
         timer' \in BOOLEAN
  PROVE  IInv'
<1>. USE DEF IInv
<1>0. left \in Nat /\ Words \in Nat /\ Size \in Nat /\ Words <= Size
  BY FlashAssumption DEF TypeOK, FlashTypeOK
<1>1. CASE WriteStarts
  <2>1. BlankBetween /\ fmc = Ready /\ Blank(Area)
    BY <1>1 DEF WriteStarts, BlankBetween, InWrite
  <2>2. TypeOK'
    BY <1>0, <1>1 DEF WriteStarts, TypeOK, FlashTypeOK, FlashStates
  <2>3. WrittenSoFar'
    BY <1>0, <1>1, <2>1 DEF WriteStarts, WrittenSoFar, Blank, Area
  <2>. QED  BY <1>1, <2>1, <2>2, <2>3
    DEF WriteStarts, ErasedSoFar, BlankBetween, Quiet, Saved, ErasedFirst, InErase, InWrite, Ready
<1>2. CASE WriteWaits
  BY <1>2 DEF WriteWaits, flashVars, TypeOK, FlashTypeOK, ErasedSoFar, WrittenSoFar,
    BlankBetween, Quiet, Saved, ErasedFirst, InErase, InWrite, Blank
<1>3. CASE WriteGoesOn
  <2>1. TypeOK'
    BY <1>3 DEF WriteGoesOn, TypeOK, FlashTypeOK, FlashStates
  <2>. QED  BY <1>3, <2>1 DEF WriteGoesOn, ErasedSoFar, WrittenSoFar,
    BlankBetween, Quiet, Saved, ErasedFirst, InErase, InWrite
<1>4. CASE WriteWord(store)
  <2> DEFINE next == Words - left + 1
  <2>1. /\ left # 0 /\ left <= Words /\ fmc = Ready
        /\ \A w \in 1 .. Words - left : flash[w] = store[w]
        /\ \A w \in next .. Size : flash[w] = "erased"
    BY <1>4 DEF WriteWord, WrittenSoFar, InWrite, Ready, Programming
  <2>2. next \in 1 .. Words /\ next \in next .. Size /\ left' = left - 1 /\ left' \in Nat
    BY <1>0, <1>4, <2>1 DEF WriteWord
  <2>3. fmc' = Programming(next, store[next]) /\ flash' = flash
    BY <1>4 DEF WriteWord
  <2>4. TypeOK'
    BY <1>4, <2>2, <2>3 DEF WriteWord, TypeOK, FlashTypeOK, FlashStates, Operations, Programming
  <2>5. WrittenSoFar'
    <3>1. Words - left' = next /\ left' <= Words /\ left' # Words
      BY <1>0, <2>1, <2>2
    <3>2. \A w \in 1 .. next : flash[w] = store[w] \/ (flash[w] = "erased" /\ w = next)
      BY <1>0, <2>1, <2>2
    <3>3. \A w \in next + 1 .. Size : flash[w] = "erased"
      BY <1>0, <2>1, <2>2
    <3>. QED  BY <1>4, <2>3, <3>1, <3>2, <3>3 DEF WriteWord, WrittenSoFar
  <2>. QED  BY <1>4, <2>1, <2>2, <2>3, <2>4, <2>5
    DEF WriteWord, ErasedSoFar, BlankBetween, Quiet, Saved, ErasedFirst, InErase, InWrite, Programming
<1>. QED  BY <1>1, <1>2, <1>3, <1>4 DEF WriteFalse

LEMMA WriteTrueInv ==
  ASSUME IInv, state = "kWriting", WriteTrue, state' = "kIdle", UNCHANGED store,
         timer' \in BOOLEAN, reboot' \in {"no", "commit", "reset"}
  PROVE  IInv'
<1>. USE DEF IInv, WriteTrue
<1>1. TypeOK'
  BY DEF TypeOK, FlashTypeOK, FlashStates, States
<1>2. \A w \in 1 .. Words : flash[w] = store[w]
  <2>. SUFFICES ASSUME NEW w \in 1 .. Words PROVE flash[w] = store[w]
    OBVIOUS
  <2>1. w \in 1 .. Words - left
    BY WordsInArea
  <2>2. fmc # Programming(w, store[w])
    BY DEF Ready, Programming
  <2>. QED  BY <2>1, <2>2 DEF WrittenSoFar, InWrite
<1>3. Saved'
  BY <1>2 DEF Saved
<1>. QED  BY <1>1, <1>3
  DEF ErasedSoFar, WrittenSoFar, BlankBetween, Quiet, ErasedFirst, InErase, InWrite, Ready

-----------------------------------------------------------------------------
(***************************************************************************)
(* The steps of the program.                                               *)
(***************************************************************************)
LEMMA UpdateInv ==
  ASSUME IInv, NEW w \in Fields, NEW v \in Value, Update(w, v)
  PROVE  IInv'
<1>. USE DEF IInv, Update, SetStatusChanged
<1>1. TypeOK'
  BY DEF TypeOK, FlashTypeOK, flashVars, States, Fields, Cell
<1>2. store'[1] = Magic
  BY DEF Quiet, Fields, TypeOK
<1>. QED  BY <1>1, <1>2
  DEF ErasedSoFar, WrittenSoFar, BlankBetween, Quiet, Saved, ErasedFirst, InErase, Blank,
      flashVars

\* A transition of the state machine that calls no driver function.
LEMMA GotoInv ==
  ASSUME IInv, NEW from, NEW to \in States, Goto(from, to), UNCHANGED store,
         timer' \in BOOLEAN, reboot' \in {"no", "commit", "reset"},
         to # "kErasedWaiting",
         to = "kErased" => from = "kErasedWaiting",
         to = "kWriting" => from = "kErased",
         to = "kIdle" => from = "kIdle",
         reboot' = "reset" => to = "kIdle"
  PROVE  IInv'
<1>. USE DEF IInv, Goto
<1>1. TypeOK'
  BY DEF TypeOK, FlashTypeOK, flashVars
<1>. QED  BY <1>1
  DEF ErasedSoFar, WrittenSoFar, BlankBetween, Quiet, Saved, ErasedFirst, InErase, InWrite,
      Blank, flashVars

LEMMA CommitInv ==
  ASSUME IInv, CommitTrue \/ CommitFalse, UNCHANGED store, timer' \in BOOLEAN,
         reboot' \in {"no", "commit", "reset"},
         CommitTrue => UNCHANGED reboot /\ reboot # "reset"
  PROVE  IInv'
<1>1. CASE Goto("kChanged", "kChangedWaiting")
  BY <1>1, GotoInv DEF States, CommitTrue
<1>2. CASE Goto("kChangedWaiting", "kErasing")
  BY <1>2, GotoInv DEF States, CommitTrue
<1>3. CASE state = "kErasing" /\ EraseFalse /\ UNCHANGED state
  BY <1>3, EraseFalseInv DEF CommitTrue
<1>4. CASE state = "kErasing" /\ EraseTrue /\ state' = "kErasedWaiting"
  BY <1>4, EraseTrueInv DEF CommitTrue
<1>5. CASE Goto("kErasedWaiting", "kErased")
  BY <1>5, GotoInv DEF States, CommitTrue
<1>6. CASE Goto("kErased", "kWriting")
  BY <1>6, GotoInv DEF States, CommitTrue
<1>7. CASE state = "kWriting" /\ WriteFalse(store) /\ UNCHANGED state
  BY <1>7, WriteFalseInv DEF CommitTrue
<1>8. CASE Goto("kIdle", "kIdle")
  BY <1>8, GotoInv DEF States
<1>9. CASE state = "kWriting" /\ WriteTrue /\ state' = "kIdle"
  BY <1>9, WriteTrueInv
<1>. QED  BY <1>1, <1>2, <1>3, <1>4, <1>5, <1>6, <1>7, <1>8, <1>9
  DEF CommitTrue, CommitFalse

LEMMA NextInv == IInv /\ [Next]_vars => IInv'
<1>. SUFFICES ASSUME IInv, [Next]_vars PROVE IInv'
  OBVIOUS
<1>0. TypeOK /\ timer \in BOOLEAN /\ reboot \in {"no", "commit", "reset"}
  BY DEF IInv, TypeOK
<1>1. CASE \E w \in Fields, v \in Value : Update(w, v)
  BY <1>1, UpdateInv
<1>2. CASE Timer
  <2>1. timer' \in BOOLEAN /\ UNCHANGED <<store, reboot>> /\ reboot # "reset"
        /\ (CommitTrue \/ CommitFalse)
    BY <1>0, <1>2 DEF Timer
  <2>. QED  BY <1>0, <2>1, CommitInv
<1>3. CASE Reboot
  <2>1. TypeOK'
    BY <1>3 DEF Reboot, IInv, TypeOK, FlashTypeOK, flashVars
  <2>. QED  BY <1>3, <2>1
    DEF Reboot, IInv, ErasedSoFar, WrittenSoFar, BlankBetween, Quiet, Saved, ErasedFirst,
        InErase, InWrite, Blank, flashVars
<1>4. CASE ConfigstoreCommit
  <2>1. CASE CommitTrue /\ UNCHANGED reboot
    BY <1>0, <1>4, <2>1, CommitInv DEF ConfigstoreCommit
  <2>2. CASE CommitFalse /\ reboot' = "reset"
    <3>1. ~CommitTrue
      BY <2>2 DEF CommitTrue, CommitFalse, Goto, WriteFalse, WriteTrue, WriteStarts,
        WriteWaits, WriteGoesOn, WriteWord, Ready
    <3>. QED  BY <1>0, <1>4, <2>2, <3>1, CommitInv DEF ConfigstoreCommit
  <2>. QED  BY <1>4, <2>1, <2>2 DEF ConfigstoreCommit
<1>5. CASE SystemReset
  BY <1>0, <1>5, BootInv DEF SystemReset, TypeOK, FlashTypeOK
<1>6. CASE Crash
  BY <1>0, <1>6, BootInv, InterruptedType DEF Crash
<1>7. CASE Controller
  BY <1>7, CompleteInv
<1>8. CASE UNCHANGED vars
  <2>1. TypeOK'
    BY <1>0, <1>8 DEF TypeOK, FlashTypeOK, vars, flashVars
  <2>. QED  BY <1>8, <2>1
    DEF IInv, ErasedSoFar, WrittenSoFar, BlankBetween, Quiet, Saved, ErasedFirst,
        InErase, InWrite, Blank, vars, flashVars
<1>. QED  BY <1>1, <1>2, <1>3, <1>4, <1>5, <1>6, <1>7, <1>8 DEF Next

THEOREM Inductive == Spec => []IInv
BY InitInv, NextInv, PTL DEF Spec

-----------------------------------------------------------------------------
\* The variables of the store and of the flash driver keep their types,
\* through every crash.
THEOREM TypeCorrect == Spec => []TypeOK
<1>1. IInv => TypeOK
  BY DEF IInv
<1>. QED  BY <1>1, Inductive, PTL

\* For every size of the store and layout of its pages: when Commit has nothing
\* more to do, the flash holds the store, whatever was changed meanwhile.
THEOREM FlashHoldsStore == Spec => []Saved
<1>1. IInv => Saved
  BY DEF IInv
<1>. QED  BY <1>1, Inductive, PTL

\* No word is ever programmed twice without an erase in between.
THEOREM ProgramErasedOnly == Spec => []ErasedFirst
<1>1. IInv => ErasedFirst
  BY DEF IInv
<1>. QED  BY <1>1, Inductive, PTL

\* A write never finds the flash driver in the middle of an erase.
THEOREM WritesAfterErase == Spec => []WriteAfterErase
<1>1. IInv => WriteAfterErase
  BY DEF IInv, BlankBetween, WriteAfterErase, InErase, InWrite
<1>. QED  BY <1>1, Inductive, PTL

\* An orderly reboot, and a crash with nothing left to commit, lose nothing.
THEOREM NothingLost == Spec => RestartKeeps
<1>1. ASSUME IInv, [Next]_vars,
             SystemReset \/ (state = "kIdle" /\ Crash), NEW w \in Fields
      PROVE  store'[w] = store[w]
  <2>1. state = "kIdle" /\ fmc = Ready /\ store[1] = Magic
        /\ \A i \in 1 .. Words : flash[i] = store[i]
    BY <1>1 DEF IInv, Quiet, Saved, SystemReset
  <2>2. Boot(flash)
    BY <1>1, <2>1 DEF SystemReset, Crash, Interrupted, Ready
  <2>3. IsValid(flash)
    BY <2>1, WordsInArea DEF IsValid
  <2>4. w \in 1 .. Words /\ store' = [i \in 1 .. Words |-> flash[i]]
    BY <2>2, <2>3 DEF Boot, Fields
  <2>. QED  BY <2>1, <2>4
<1>2. IInv /\ [Next]_vars =>
        [(SystemReset \/ (state = "kIdle" /\ Crash)) =>
           \A w \in Fields : store'[w] = store[w]]_vars
  BY <1>1
<1>. QED  BY <1>2, Inductive, PTL DEF RestartKeeps, Spec
=============================================================================
