SPECIFICATION Spec
CONSTANTS
  Run = {r1, r2}
  Symbol <- MCSymbol
  Checkout = {"home", "work", "root"}
  Root = "root"
  Base = "base"
  Nul = "0"
  None = None
  Given <- MCGiven
  Native = {"a.so", "b.so"}
  Files <- MCFiles
  Variables <- MCVariables
INVARIANTS KeysPortable KeysDistinct
SYMMETRY Symmetry
CHECK_DEADLOCK FALSE
