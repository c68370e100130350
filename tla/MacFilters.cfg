SPECIFICATION Spec
CONSTANTS
  Macs = {a1, a2, a3}
  Addr0 = a1
  PerMsg = 1
  MaxCmd = 5
  MaxFault = 1
SYMMETRY Symmetry
CHECK_DEADLOCK FALSE
INVARIANT FiltersAgree
INVARIANT PromiscLeft
PROPERTY RestoreHeals
