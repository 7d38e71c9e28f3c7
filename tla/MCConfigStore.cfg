SPECIFICATION Spec
CONSTANTS
  Size = 4
  Words = 3
  Pages = 2
  PageOf <- TwoPages
  Magic = "magic"
  Zero = "zero"
  Value = {"magic", "zero", "a"}
  H7 = FALSE
INVARIANTS Saved ErasedFirst
PROPERTIES RestartKeeps Settles
