---------------------------- MODULE MCMojoPipes -----------------------------
EXTENDS MojoPipes

\* The steps a thread takes.
WriteTo(e, x)     == [op |-> "write", e |-> e, expect |-> x]
ReadFrom(e, x)    == [op |-> "read", e |-> e, expect |-> x]
WaitOn(e, s, x)   == [op |-> "wait", e |-> e, sigs |-> s, expect |-> x]
DropEnd(e)        == [op |-> "close", e |-> e]
Add(e, s, c, x)   == [op |-> "add", e |-> e, sig |-> s, cookie |-> c, expect |-> x]
RemoveCookie(c, x) == [op |-> "remove", cookie |-> c, expect |-> x]
WaitSet(x)        == [op |-> "waitSet", expect |-> x]
SpawnThread(th)   == [op |-> "spawn", th |-> th]

\* A signals state the test asserts: the result, and signals that must be
\* satisfied and satisfiable.
Sig(r, sat, able) == [res |-> r, sat |-> sat, able |-> able]
All3 == {"READABLE", "WRITABLE", "PEER_CLOSED"}

\* message_pipe (tests/system.rs 80-122): end_a is "a", end_b is "b".
MessagePipe ==
  [test |-> "message_pipe", spawned |-> FALSE,
   steps |-> <<WaitOn("a", {"WRITABLE"}, Sig("Okay", {"WRITABLE"}, All3)),
               ReadFrom("a", "ShouldWait"),
               WriteTo("b", "Okay"),
               WaitOn("a", {"READABLE"}, Sig("Okay", {"READABLE", "WRITABLE"}, All3)),
               ReadFrom("a", "Okay"),
               DropEnd("a"),
               WaitOn("b", {"READABLE", "WRITABLE"},
                      Sig("FailedPrecondition", {"PEER_CLOSED"}, {"PEER_CLOSED"}))>>]

\* wait_set (tests/system.rs 167-200): endpt0 is "a", endpt1 is "b";
\* cookie1 = 245, cookie2 = 123.
WaitSetMain ==
  [test |-> "wait_set", spawned |-> FALSE,
   steps |-> <<Add("a", "READABLE", 245, "Okay"),
               Add("a", "READABLE", 245, "AlreadyExists"),
               RemoveCookie(245, "Okay"),
               RemoveCookie(245, "NotFound"),
               Add("a", "READABLE", 123, "Okay"),
               SpawnThread("wait_set_writer"),
               WaitSet([n |-> 1, cookie |-> 123, res |-> "Okay", sat |-> {"READABLE"}])>>]

\* The thread wait_set spawns: it writes "hello" on endpt1, which it owns
\* and drops when the closure returns.
WaitSetWriter ==
  [test |-> "wait_set", spawned |-> TRUE,
   steps |-> <<WriteTo("b", "Okay"), DropEnd("b")>>]

MCThreads == ("message_pipe" :> MessagePipe) @@ ("wait_set" :> WaitSetMain)
             @@ ("wait_set_writer" :> WaitSetWriter)
=============================================================================
