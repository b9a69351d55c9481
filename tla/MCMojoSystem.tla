---------------------------- MODULE MCMojoSystem ----------------------------
(***************************************************************************)
(* The tests of tests/system.rs as the Rust harness runs them: every test *)
(* on a thread of its own, all at once.  The trap tests (MojomTrap) share *)
(* TRAP_TEST_LOCK and TRAP_EVENT_LIST; the message_pipe and wait_set tests *)
(* (MojoPipes) share nothing with them, so each step is a step of one of   *)
(* the two.                                                                 *)
(***************************************************************************)
EXTENDS MCMojomTrap, MCMojoPipes

SystemInit == Init /\ PInit

SystemNext == (Next /\ UNCHANGED pvars) \/ (PNext /\ UNCHANGED vars)

SystemSpec ==
  /\ SystemInit /\ [][SystemNext]_<<vars, pvars>>
  /\ \A t \in T : WF_vars(TestStep(t))
  /\ WF_vars(Deliver)
  /\ PFairness
=============================================================================
