---------------------------- MODULE MCMojomTrap -----------------------------
EXTENDS MojomTrap

CONSTANTS none

E(c, r) == Event(c, r)

\* The steps a test thread takes.
Lock        == [op |-> "lock"]
Unlock      == [op |-> "unlock"]
ArmUnsafe(x) == [op |-> "arm", safe |-> FALSE, expect |-> x]
ArmSafe(x)   == [op |-> "arm", safe |-> TRUE, expect |-> x]
Write       == [op |-> "write"]
Read        == [op |-> "read"]
Drop(h)     == [op |-> "close", h |-> h]
DropTrap    == [op |-> "closeTrap"]
Check(n)    == [op |-> "check", n |-> n]
Clear(n)    == [op |-> "clear", n |-> n]
Wait(n, x)  == [op |-> "wait", n |-> n, expect |-> x, clear |-> FALSE]
WaitClear(x) == [op |-> "wait", n |-> 1, expect |-> x, clear |-> TRUE]

ConsReadable   == [h |-> "cons", sig |-> "READABLE"]
ProdPeerClosed == [h |-> "prod", sig |-> "PEER_CLOSED"]

\* trap_signals_on_readable (tests/system.rs 202-303).
SignalsOnReadable ==
  [sink |-> "global",
   triggers |-> (1 :> ConsReadable) @@ (2 :> ProdPeerClosed),
   steps |-> <<Lock, ArmUnsafe({}), Check(0),
               Write, Wait(1, {E(1, "Okay")}),
               ArmUnsafe({E(1, "Okay")}), Clear(1),
               Read, ArmUnsafe({}),
               Drop("prod"), Wait(1, {E(1, "FailedPrecondition"), E(2, "Cancelled")}),
               DropTrap, Clear(3), Unlock>>]

\* trap_handle_closed_before_arm (tests/system.rs 306-329).
HandleClosedBeforeArm ==
  [sink |-> "global",
   triggers |-> (1 :> ConsReadable),
   steps |-> <<Lock, Drop("cons"), Wait(1, {E(1, "Cancelled")}),
               DropTrap, Clear(1), Unlock>>]

\* safe_trap (tests/system.rs 332-405), with a list of its own.
SafeTrap ==
  [sink |-> "safe",
   triggers |-> (1 :> ConsReadable) @@ (2 :> ProdPeerClosed),
   steps |-> <<ArmSafe({}),
               Write, WaitClear({E(1, "Okay")}),
               Drop("cons"), WaitClear({E(1, "Cancelled")}),
               ArmSafe("FailedPrecondition"), WaitClear({E(2, "Okay")})>>]

MCTests == ("signals_on_readable" :> SignalsOnReadable)
           @@ ("handle_closed_before_arm" :> HandleClosedBeforeArm)
           @@ ("safe_trap" :> SafeTrap)
=============================================================================
