------------------------------ MODULE MojomTrap ------------------------------
(***************************************************************************)
(* Trap event delivery as tests/system.rs exercises it.  The Rust test     *)
(* harness runs the trap tests on threads of their own, at the same time.  *)
(* Each test drives its own data pipe (cons, prod) and trap.  The          *)
(* UnsafeTrap tests share one handler, test_trap_event_handler, which      *)
(* pushes every event onto the global TRAP_EVENT_LIST under its mutex and  *)
(* notifies TRAP_EVENT_COND; they read it in wait_for_trap_events          *)
(* (Condvar::wait_while) and clear_trap_events, and hold TRAP_TEST_LOCK    *)
(* from their first line to their return.  safe_trap's handler pushes onto *)
(* a list of its own.                                                      *)
(*                                                                         *)
(* The trap is Mojo's (a collaborator); its rules are the ones the tests   *)
(* state: an armed trap fires one event when a trigger's signal becomes    *)
(* satisfied (Okay) or unsatisfiable (FailedPrecondition) and disarms;     *)
(* arming with a trigger already in that state fails and leaves it         *)
(* disarmed; closing a watched handle, or the trap, yields a Cancelled     *)
(* event for each of its triggers whether armed or not.  Sync says whether *)
(* Mojo runs the handler before the call that fired the event returns, or  *)
(* later on a thread of its own.                                           *)
(***************************************************************************)
EXTENDS Integers, Sequences, SequencesExt, FiniteSets

CONSTANTS
  Tests,   \* test name -> [sink, triggers: ctx -> [h, sig], steps]
  Sync,    \* whether the handler runs inside the Mojo call that fired it
  NoOne    \* TRAP_TEST_LOCK is free

T == DOMAIN Tests
Sinks == {Tests[t].sink : t \in T}
Handles == {"cons", "prod"}
Peer(h) == IF h = "cons" THEN "prod" ELSE "cons"

VARIABLES
  pc,        \* pc[t]: the index of test t's next step
  failed,    \* failed[t]: an assertion of test t has failed
  data,      \* data[t]: t's cons has unread data
  open,      \* open[t][h]: t's endpoint h is not yet dropped
  triggers,  \* triggers[t]: the contexts of t's triggers still registered
  armed,     \* armed[t]: t's trap is armed
  pending,   \* events fired whose handler has not yet run: [t, ev]
  lists,     \* lists[s]: the event list handler sink s pushes onto
  lock       \* the test holding TRAP_TEST_LOCK, or NoOne

vars == <<pc, failed, data, open, triggers, armed, pending, lists, lock>>

Event(c, r) == [ctx |-> c, res |-> r]

(***************************************************************************)
(* Signals of a trigger of test t, in a state (d, o) of t's pipe.          *)
(***************************************************************************)
Satisfied(t, c, d, o) ==
  LET tr == Tests[t].triggers[c]
  IN  IF tr.sig = "READABLE" THEN d ELSE ~o[Peer(tr.h)]

Satisfiable(t, c, d, o) ==
  LET tr == Tests[t].triggers[c]
  IN  tr.sig # "READABLE" \/ d \/ o[Peer(tr.h)]

Ready(t, c, d, o) == Satisfied(t, c, d, o) \/ ~Satisfiable(t, c, d, o)

Fired(t, c, d, o) ==
  Event(c, IF Satisfied(t, c, d, o) THEN "Okay" ELSE "FailedPrecondition")

Owed(t, evs) == {[t |-> t, ev |-> e] : e \in evs}

(***************************************************************************)
(* t's pipe moves to (d, o): the triggers on closed handles are cancelled, *)
(* and an armed trap fires for one trigger now ready and disarms.          *)
(***************************************************************************)
\* Mutant: the trap stays armed after it fires.
ChangeNoDisarm(t, d, o) ==
  LET gone   == {c \in triggers[t] : ~o[Tests[t].triggers[c].h]}
      ready  == {c \in triggers[t] \ gone : Ready(t, c, d, o)}
      cancel == {Event(c, "Cancelled") : c \in gone}
  IN  /\ data' = [data EXCEPT ![t] = d] /\ open' = [open EXCEPT ![t] = o]
      /\ triggers' = [triggers EXCEPT ![t] = @ \ gone]
      /\ IF armed[t] /\ ready # {}
         THEN \E c \in ready : pending' = pending \cup Owed(t, cancel \cup {Fired(t, c, d, o)})
         ELSE pending' = pending \cup Owed(t, cancel)
      /\ UNCHANGED armed

Change(t, d, o) ==
  LET gone   == {c \in triggers[t] : ~o[Tests[t].triggers[c].h]}
      ready  == {c \in triggers[t] \ gone : Ready(t, c, d, o)}
      cancel == {Event(c, "Cancelled") : c \in gone}
  IN  /\ data' = [data EXCEPT ![t] = d] /\ open' = [open EXCEPT ![t] = o]
      /\ triggers' = [triggers EXCEPT ![t] = @ \ gone]
      /\ IF armed[t] /\ ready # {}
         THEN /\ \E c \in ready : pending' = pending \cup Owed(t, cancel \cup {Fired(t, c, d, o)})
              /\ armed' = [armed EXCEPT ![t] = FALSE]
         ELSE /\ pending' = pending \cup Owed(t, cancel)
              /\ UNCHANGED armed

(***************************************************************************)
(* A test thread.  A step runs once the handlers its previous Mojo call    *)
(* fired have run, if Mojo runs them synchronously.                        *)
(***************************************************************************)
Step(t) == Tests[t].steps[pc[t]]
List(t) == lists[Tests[t].sink]

Running(t) == /\ ~failed[t] /\ pc[t] <= Len(Tests[t].steps)
              /\ Sync => \A p \in pending : p.t # t

\* Go to t's next step if its assertion ok holds (assert!), else fail.
Expect(t, ok) == IF ok THEN pc' = [pc EXCEPT ![t] = @ + 1] /\ UNCHANGED failed
                 ELSE failed' = [failed EXCEPT ![t] = TRUE] /\ UNCHANGED pc

Next1(t) == pc' = [pc EXCEPT ![t] = @ + 1]

\* TRAP_TEST_LOCK.lock(): blocks while another test holds it.
\* Mutant: the lock is taken without waiting for it.
TakeLockNoWait(t) ==
  /\ Running(t) /\ Step(t).op = "lock"
  /\ lock' = t /\ Next1(t)
  /\ UNCHANGED <<failed, data, open, triggers, armed, pending, lists>>

TakeLock(t) ==
  /\ Running(t) /\ Step(t).op = "lock" /\ lock = NoOne
  /\ lock' = t /\ Next1(t)
  /\ UNCHANGED <<failed, data, open, triggers, armed, pending, lists>>

\* _test_lock is dropped when the test returns.
ReleaseLock(t) ==
  /\ Running(t) /\ Step(t).op = "unlock"
  /\ lock' = NoOne /\ Next1(t)
  /\ UNCHANGED <<failed, data, open, triggers, armed, pending, lists>>

\* UnsafeTrap::arm(): Blocked with the events of the ready triggers, else
\* Armed.  Trap::arm() of safe_trap hands those events to its handler and
\* returns FailedPrecondition.
Arm(t) ==
  /\ Running(t) /\ Step(t).op = "arm"
  /\ LET ready == {c \in triggers[t] : Ready(t, c, data[t], open[t])}
     IN  IF ready = {}
         THEN /\ armed' = [armed EXCEPT ![t] = TRUE]
              /\ Expect(t, Step(t).expect = {})
              /\ UNCHANGED pending
         ELSE /\ UNCHANGED armed
              /\ IF Step(t).safe
                 THEN /\ pending' = pending \cup
                           Owed(t, {Fired(t, c, data[t], open[t]) : c \in ready})
                      /\ Expect(t, Step(t).expect = "FailedPrecondition")
                 ELSE /\ UNCHANGED pending
                      /\ \E c \in ready :
                           Expect(t, Step(t).expect = {Fired(t, c, data[t], open[t])})
  /\ UNCHANGED <<data, open, triggers, lists, lock>>

\* prod.write: cons becomes readable; cons.read(DISCARD): it no longer is.
WriteOrRead(t) ==
  /\ Running(t) /\ Step(t).op \in {"write", "read"}
  /\ Change(t, Step(t).op = "write", open[t])
  /\ Next1(t)
  /\ UNCHANGED <<failed, lists, lock>>

\* drop(cons) or drop(prod).
CloseHandle(t) ==
  /\ Running(t) /\ Step(t).op = "close"
  /\ Change(t, data[t], [open[t] EXCEPT ![Step(t).h] = FALSE])
  /\ Next1(t)
  /\ UNCHANGED <<failed, lists, lock>>

\* drop(trap): every trigger left is cancelled.
CloseTrap(t) ==
  /\ Running(t) /\ Step(t).op = "closeTrap"
  /\ triggers' = [triggers EXCEPT ![t] = {}] /\ armed' = [armed EXCEPT ![t] = FALSE]
  /\ pending' = pending \cup Owed(t, {Event(c, "Cancelled") : c \in triggers[t]})
  /\ Next1(t)
  /\ UNCHANGED <<failed, data, open, lists, lock>>

\* wait_for_trap_events(lock, n) or the wait_while of safe_trap, blocked
\* until the list holds n events, and the assertions on what it returns;
\* safe_trap then clears its list under the same guard.
WaitEvents(t) ==
  /\ Running(t) /\ Step(t).op = "wait" /\ Len(List(t)) >= Step(t).n
  /\ Expect(t, Len(List(t)) = Cardinality(Step(t).expect) /\ Range(List(t)) = Step(t).expect)
  /\ lists' = IF Step(t).clear THEN [lists EXCEPT ![Tests[t].sink] = <<>>] ELSE lists
  /\ UNCHANGED <<data, open, triggers, armed, pending, lock>>

\* assert_eq!(len, n) on the list, and clear_trap_events(n), which then
\* clears it.
CheckEvents(t) ==
  /\ Running(t) /\ Step(t).op \in {"check", "clear"}
  /\ Expect(t, Len(List(t)) = Step(t).n)
  /\ lists' = IF Step(t).op = "clear" /\ Len(List(t)) = Step(t).n
              THEN [lists EXCEPT ![Tests[t].sink] = <<>>] ELSE lists
  /\ UNCHANGED <<data, open, triggers, armed, pending, lock>>

\* Mutant: the handler's lock() fails (a poisoned mutex) and the event is
\* dropped.
DeliverDrop ==
  /\ \E p \in pending : pending' = pending \ {p}
  /\ UNCHANGED <<pc, failed, data, open, triggers, armed, lists, lock>>

\* A handler: lock the list, push the event, notify_all.
Deliver ==
  /\ \E p \in pending :
       /\ pending' = pending \ {p}
       /\ lists' = [lists EXCEPT ![Tests[p.t].sink] = Append(@, p.ev)]
  /\ UNCHANGED <<pc, failed, data, open, triggers, armed, lock>>

Init ==
  /\ pc = [t \in T |-> 1] /\ failed = [t \in T |-> FALSE]
  /\ data = [t \in T |-> FALSE]
  /\ open = [t \in T |-> [h \in Handles |-> TRUE]]
  /\ triggers = [t \in T |-> DOMAIN Tests[t].triggers]
  /\ armed = [t \in T |-> FALSE]
  /\ pending = {} /\ lists = [s \in Sinks |-> <<>>] /\ lock = NoOne

\* One step of test thread t.
TestStep(t) ==
  \/ TakeLock(t) \/ ReleaseLock(t) \/ Arm(t) \/ WriteOrRead(t)
  \/ CloseHandle(t) \/ CloseTrap(t) \/ WaitEvents(t) \/ CheckEvents(t)

Next == (\E t \in T : TestStep(t)) \/ Deliver

Spec == Init /\ [][Next]_vars

\* The harness keeps scheduling every test thread that can run, and Mojo
\* runs every handler it owes (the callback contract of MojoTrap).
FairSpec == Spec /\ (\A t \in T : WF_vars(TestStep(t))) /\ WF_vars(Deliver)
-----------------------------------------------------------------------------
(* The trap tests' assertions hold: every arm result, every list length   *)
(* and every event a test reads from its list is the one it asserts, in  *)
(* every interleaving of the test threads with each other and with the   *)
(* handlers.                                                               *)
TestPasses == \A t \in T : ~failed[t]

(* Every test returns: no wait blocks forever, so every event a test       *)
(* waits for is eventually pushed by a handler, and TRAP_TEST_LOCK is      *)
(* eventually free for the test waiting on it.                             *)
TestCompletes == <>(\A t \in T : pc[t] > Len(Tests[t].steps))
=============================================================================
