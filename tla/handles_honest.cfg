\* Every container, fixed arrays included, over an honest pipe.
CONSTANTS
  h1 = h1
  h2 = h2
  None = None
  Handles <- MCHandles
  Kinds = {"vec", "fixed", "optvec", "map"}
  MaxLen = 2
  Keys = {1, 2}
  Tamper = FALSE
SYMMETRY Symm
SPECIFICATION Spec
\* deserialize returns; nothing runs after it.
CHECK_DEADLOCK FALSE
INVARIANT RoundTrip
