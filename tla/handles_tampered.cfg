\* Vec, Vec<Option> and HashMap containers of up to two handles, received
\* from a peer that may truncate the handle vector and forge indices,
\* counts and keys: handle conservation and the ownership protocol.
CONSTANTS
  h1 = h1
  h2 = h2
  None = None
  Handles <- MCHandles
  Kinds = {"vec", "optvec", "map"}
  MaxLen = 2
  Keys = {1, 2}
  Tamper = TRUE
SPECIFICATION Spec
\* deserialize returns; nothing runs after it.
CHECK_DEADLOCK FALSE
INVARIANT HandleConservation
PROPERTY OwnershipRefined
