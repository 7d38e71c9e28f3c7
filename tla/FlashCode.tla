------------------------------ MODULE FlashCode ------------------------------
(***************************************************************************)
(* The flash driver, lib-flashcode/src/gd32 (fmc and h7xx): Erase and Write *)
(* are called again and again, do one step each and return TRUE once the   *)
(* whole area has been done.  The flash controller works meanwhile.        *)
(*                                                                         *)
(* The area is the one of the configuration store, word by word.           *)
(***************************************************************************)
EXTENDS Naturals

CONSTANTS
  Size,     \* words of the area that is erased
  Words,    \* words that are written, from the first on
  Pages,    \* pages of the area
  PageOf,   \* the page a word is in
  Value,    \* what a word of the store may hold
  H7        \* TRUE: h7xx/flashcode.cpp, FALSE: fmc/flashcode.cpp

ASSUME FlashAssumption ==
  /\ Size \in Nat
  /\ Words \in 1 .. Size
  /\ Pages \in Nat
  /\ PageOf \in [1 .. Size -> 1 .. Pages]
  /\ {"erased", "torn"} \cap Value = {}
  /\ H7 \in BOOLEAN

Area == 1 .. Size

Page(n) == {w \in Area : PageOf[w] = n}

\* "torn": programmed twice, or interrupted.
Cell == Value \cup {"erased", "torn"}

FlashStates == {"IDLE", "ERASE_BUSY", "ERASE_PROGAM", "WRITE_BUSY", "WRITE_PROGRAM"}

VARIABLES
  flash,        \* the words of the area
  fmc,          \* what the flash controller is doing
  flashState,   \* flashcode::s_state
  left          \* s_length, in pages or in words

flashVars == <<flash, fmc, flashState, left>>

Ready == [op |-> "none", at |-> 0, value |-> "erased"]
Erasing(n) == [op |-> "erase", at |-> n, value |-> "erased"]
Programming(w, v) == [op |-> "program", at |-> w, value |-> v]

Operations ==
  {Ready} \cup [op : {"erase"}, at : 1 .. Pages, value : {"erased"}]
          \cup [op : {"program"}, at : 1 .. Words, value : Cell]

\* The words hold values and the controller's operation is within the area.
FlashTypeOK ==
  /\ flash \in [Area -> Cell]
  /\ fmc \in Operations
  /\ flashState \in FlashStates
  /\ left \in Nat

\* A word can be programmed once after it was erased.
Programmed(f, w, v) == [f EXCEPT ![w] = IF @ = "erased" THEN v ELSE "torn"]

Erased(f, words) == [w \in Area |-> IF w \in words THEN "erased" ELSE f[w]]

\* The controller is done.
Complete ==
  /\ fmc # Ready
  /\ fmc' = Ready
  /\ flash' = IF fmc.op = "erase" THEN Erased(flash, Page(fmc.at))
                                  ELSE Programmed(flash, fmc.at, fmc.value)
  /\ UNCHANGED <<flashState, left>>

\* What the flash may hold when the power fails or the watchdog resets.
Interrupted ==
  CASE fmc.op = "none"    -> {flash}
    [] fmc.op = "erase"   -> {Erased(flash, words) : words \in SUBSET Page(fmc.at)}
    [] fmc.op = "program" -> {flash, Programmed(flash, fmc.at, fmc.value),
                              [flash EXCEPT ![fmc.at] = "torn"]}

-----------------------------------------------------------------------------
InWrite == flashState \in {"WRITE_BUSY", "WRITE_PROGRAM"}
InErase == flashState \in {"ERASE_BUSY", "ERASE_PROGAM"}

\* A write that the caller has abandoned; h7xx has no such case.
EraseAbandonsWrite ==
  ~H7 /\ InWrite /\ flashState' = "IDLE" /\ UNCHANGED <<flash, fmc, left>>

EraseStarts ==
  /\ flashState = "IDLE"
  /\ flashState' = "ERASE_BUSY"
  /\ left' = Pages
  /\ UNCHANGED <<flash, fmc>>

EraseWaits == flashState = "ERASE_BUSY" /\ fmc # Ready /\ UNCHANGED flashVars

EraseGoesOn ==
  /\ flashState = "ERASE_BUSY" /\ fmc = Ready /\ left # 0
  /\ flashState' = "ERASE_PROGAM"
  /\ UNCHANGED <<flash, fmc, left>>

\* Mutant: the length goes down by two pages at a time.
ErasePageSizes ==
  /\ flashState = "ERASE_PROGAM"
  /\ fmc' = Erasing(Pages - left + 1)
  /\ left' = IF left <= 2 THEN 0 ELSE left - 2
  /\ flashState' = "ERASE_BUSY"
  /\ UNCHANGED flash

ErasePage ==
  /\ flashState = "ERASE_PROGAM"
  /\ fmc' = Erasing(Pages - left + 1)
  /\ left' = left - 1
  /\ flashState' = "ERASE_BUSY"
  /\ UNCHANGED flash

EraseFalse ==
  EraseAbandonsWrite \/ EraseStarts \/ EraseWaits \/ EraseGoesOn \/ ErasePage

EraseTrue ==
  /\ flashState = "ERASE_BUSY" /\ fmc = Ready /\ left = 0
  /\ flashState' = "IDLE"
  /\ UNCHANGED <<flash, fmc, left>>

-----------------------------------------------------------------------------
(***************************************************************************)
(* Write takes each word from the caller's buffer when its turn comes.  An *)
(* erase is never abandoned for a write (see WriteAfterErase).             *)
(***************************************************************************)
WriteStarts ==
  /\ flashState = "IDLE"
  /\ flashState' = "WRITE_BUSY"
  /\ left' = Words
  /\ UNCHANGED <<flash, fmc>>

WriteWaits == flashState = "WRITE_BUSY" /\ fmc # Ready /\ UNCHANGED flashVars

WriteGoesOn ==
  /\ flashState = "WRITE_BUSY" /\ fmc = Ready /\ left # 0
  /\ flashState' = "WRITE_PROGRAM"
  /\ UNCHANGED <<flash, fmc, left>>

WriteWord(buffer) ==
  /\ flashState = "WRITE_PROGRAM"
  /\ fmc' = Programming(Words - left + 1, buffer[Words - left + 1])
  /\ left' = left - 1
  /\ flashState' = "WRITE_BUSY"
  /\ UNCHANGED flash

WriteFalse(buffer) ==
  WriteStarts \/ WriteWaits \/ WriteGoesOn \/ WriteWord(buffer)

WriteTrue ==
  /\ flashState = "WRITE_BUSY" /\ fmc = Ready /\ left = 0
  /\ flashState' = "IDLE"
  /\ UNCHANGED <<flash, fmc, left>>
=============================================================================
