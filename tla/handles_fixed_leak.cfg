\* [H; N] received with a truncated handle vector (tests/regression.rs).
CONSTANTS
  h1 = h1
  h2 = h2
  None = None
  Handles <- MCHandles
  Kinds = {"fixed"}
  MaxLen = 2
  Keys = {1, 2}
  Tamper = TRUE
SYMMETRY Symm
SPECIFICATION Spec
\* deserialize returns; nothing runs after it.
CHECK_DEADLOCK FALSE
INVARIANT HandleConservation
