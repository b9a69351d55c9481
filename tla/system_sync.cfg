\* Every test of tests/system.rs on a thread of its own, with Mojo running
\* each trap handler before the call that fired it returns.
CONSTANTS
  none = none
  NoOne = none
  Tests <- MCTests
  Sync = TRUE
  Threads <- MCThreads
SPECIFICATION SystemSpec
\* Every test thread returns; then nothing is left to do.
CHECK_DEADLOCK FALSE
INVARIANT TestPasses
INVARIANT PipeTestsPass
PROPERTY TestCompletes
PROPERTY PipeTestsComplete
