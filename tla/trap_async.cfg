\* The trap tests with Mojo running the handlers later, on a thread of its
\* own: trap_signals_on_readable waits for one event after drop(prod) and
\* then asserts that two are in the list.
CONSTANTS
  none = none
  NoOne = none
  Tests <- MCTests
  Sync = FALSE
INIT Init
NEXT Next
CHECK_DEADLOCK FALSE
INVARIANT TestPasses
