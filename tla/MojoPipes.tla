------------------------------ MODULE MojoPipes ------------------------------
(***************************************************************************)
(* The message-pipe and wait-set tests of tests/system.rs (message_pipe    *)
(* and wait_set).  The Rust harness runs each test on a thread of its own; *)
(* wait_set spawns a writer thread that writes to one end of its pipe      *)
(* while the test thread waits on a WaitSet watching the other end.        *)
(*                                                                         *)
(* The message pipe and the wait set are Mojo's (collaborators reached     *)
(* through FFI); their rules are the ones the tests assert and spec 6.3    *)
(* states: a write queues the message at the peer while the peer is open;  *)
(* a read of an empty end is ShouldWait; an end is READABLE while a        *)
(* message is queued at it, WRITABLE and PEER_CLOSED by its peer's state,  *)
(* and READABLE stays satisfiable while a message is queued or the peer is *)
(* open.  A wait (MessageEndpoint::wait, WaitSet::wait_on_set) blocks      *)
(* until a watched signal is satisfied or every one is unsatisfiable.      *)
(* Messages are one abstract value; the tests only compare their bytes.    *)
(***************************************************************************)
EXTENDS Integers, Sequences, FiniteSets, TLC

CONSTANTS
  Threads   \* thread -> [test, spawned, steps]; a spawned thread starts at spawn

Th == DOMAIN Threads
PTests == {Threads[x].test : x \in Th}
Ends == {"a", "b"}
Other(e) == IF e = "a" THEN "b" ELSE "a"

VARIABLES
  ppc,       \* ppc[x]: thread x's next step; 0 while a spawned thread has not started
  pfailed,   \* pfailed[x]: an assertion of thread x has failed
  queue,     \* queue[t][e]: the messages queued at end e of test t's pipe
  popen,     \* popen[t][e]: end e of test t's pipe is not yet dropped
  set        \* set[t]: test t's WaitSet, cookie -> [h, sig]

pvars == <<ppc, pfailed, queue, popen, set>>

(***************************************************************************)
(* Signals of end e of test t's pipe.                                      *)
(***************************************************************************)
EndSatisfied(t, e) ==
  {s \in {"READABLE"} : queue[t][e] # <<>>}
  \cup (IF popen[t][Other(e)] THEN {"WRITABLE"} ELSE {"PEER_CLOSED"})

EndSatisfiable(t, e) ==
  {"PEER_CLOSED"}
  \cup (IF popen[t][Other(e)] THEN {"READABLE", "WRITABLE"} ELSE {})
  \cup {s \in {"READABLE"} : queue[t][e] # <<>>}

\* A wait on sigs returns: one is satisfied, or none can ever be.
Woken(t, e, sigs) == sigs \cap EndSatisfied(t, e) # {} \/ sigs \cap EndSatisfiable(t, e) = {}

WaitResult(t, e, sigs) ==
  IF sigs \cap EndSatisfied(t, e) # {} THEN "Okay" ELSE "FailedPrecondition"

(***************************************************************************)
(* A test thread runs its steps in order.                                  *)
(***************************************************************************)
PStep(x) == Threads[x].steps[ppc[x]]
PTest(x) == Threads[x].test

PRunning(x) == ~pfailed[x] /\ 1 <= ppc[x] /\ ppc[x] <= Len(Threads[x].steps)

\* assert!: go on if ok holds, else the thread panics.
Asserts(x, ok) == IF ok THEN ppc' = [ppc EXCEPT ![x] = @ + 1] /\ UNCHANGED pfailed
                ELSE pfailed' = [pfailed EXCEPT ![x] = TRUE] /\ UNCHANGED ppc

\* A signals state as the test reads it: satisfied() and satisfiable()
\* hold at least the signals it asserts.
Shows(t, e, x) == x.sat \subseteq EndSatisfied(t, e) /\ x.able \subseteq EndSatisfiable(t, e)

\* MessageEndpoint::write: the message is queued at the peer while it is
\* open (Okay), else FailedPrecondition.
PipeWrite(x) ==
  /\ PRunning(x) /\ PStep(x).op = "write"
  /\ LET t == PTest(x)  e == PStep(x).e
     IN  IF popen[t][Other(e)]
         THEN /\ queue' = [queue EXCEPT ![t][Other(e)] = Append(@, "msg")]
              /\ Asserts(x, PStep(x).expect = "Okay")
         ELSE /\ UNCHANGED queue
              /\ Asserts(x, PStep(x).expect = "FailedPrecondition")
  /\ UNCHANGED <<popen, set>>

\* MessageEndpoint::read: the oldest message, or ShouldWait on an empty end
\* whose peer is open (FailedPrecondition once it is closed).
PipeRead(x) ==
  /\ PRunning(x) /\ PStep(x).op = "read"
  /\ LET t == PTest(x)  e == PStep(x).e
         res == CASE queue[t][e] # <<>> -> "Okay"
                  [] popen[t][Other(e)] -> "ShouldWait"
                  [] OTHER              -> "FailedPrecondition"
     IN  /\ queue' = IF res = "Okay" THEN [queue EXCEPT ![t][e] = Tail(@)] ELSE queue
         /\ Asserts(x, PStep(x).expect = res)
  /\ UNCHANGED <<popen, set>>

\* Mutant: the wait returns only when a signal is satisfied, never when the
\* signals it waits for can no longer be satisfied.
WaitNoUnsatisfiable(x) ==
  /\ PRunning(x) /\ PStep(x).op = "wait"
  /\ LET t == PTest(x)  e == PStep(x).e
     IN  /\ PStep(x).sigs \cap EndSatisfied(t, e) # {}
         /\ Asserts(x, PStep(x).expect.res = WaitResult(t, e, PStep(x).sigs)
                     /\ Shows(t, e, PStep(x).expect))
  /\ UNCHANGED <<queue, popen, set>>

\* MessageEndpoint::wait(sigs), blocked until it is woken, and the
\* assertions on the signals state it returns.
PipeWait(x) ==
  /\ PRunning(x) /\ PStep(x).op = "wait"
  /\ LET t == PTest(x)  e == PStep(x).e
     IN  /\ Woken(t, e, PStep(x).sigs)
         /\ Asserts(x, PStep(x).expect.res = WaitResult(t, e, PStep(x).sigs)
                     /\ Shows(t, e, PStep(x).expect))
  /\ UNCHANGED <<queue, popen, set>>

\* drop(end): the end is closed, and what was queued at it is discarded.
PipeClose(x) ==
  /\ PRunning(x) /\ PStep(x).op = "close"
  /\ LET t == PTest(x)  e == PStep(x).e
     IN  /\ popen' = [popen EXCEPT ![t][e] = FALSE]
         /\ queue' = [queue EXCEPT ![t][e] = <<>>]
  /\ ppc' = [ppc EXCEPT ![x] = @ + 1]
  /\ UNCHANGED <<pfailed, set>>

\* Mutant: add does not look for the cookie and replaces its entry.
SetAddNoCheck(x) ==
  /\ PRunning(x) /\ PStep(x).op = "add"
  /\ LET t == PTest(x)  s == PStep(x)
     IN  /\ set' = [set EXCEPT ![t] = (s.cookie :> [h |-> s.e, sig |-> s.sig]) @@ @]
         /\ Asserts(x, s.expect = "Okay")
  /\ UNCHANGED <<queue, popen>>

\* WaitSet::add: AlreadyExists for a cookie in the set, else Okay.
SetAdd(x) ==
  /\ PRunning(x) /\ PStep(x).op = "add"
  /\ LET t == PTest(x)  s == PStep(x)
     IN  IF s.cookie \in DOMAIN set[t]
         THEN /\ UNCHANGED set
              /\ Asserts(x, s.expect = "AlreadyExists")
         ELSE /\ set' = [set EXCEPT ![t] = (s.cookie :> [h |-> s.e, sig |-> s.sig]) @@ @]
              /\ Asserts(x, s.expect = "Okay")
  /\ UNCHANGED <<queue, popen>>

\* WaitSet::remove: NotFound for a cookie not in the set, else Okay.
SetRemove(x) ==
  /\ PRunning(x) /\ PStep(x).op = "remove"
  /\ LET t == PTest(x)  c == PStep(x).cookie
     IN  /\ set' = [set EXCEPT ![t] = [k \in DOMAIN @ \ {c} |-> @[k]]]
         /\ Asserts(x, PStep(x).expect = IF c \in DOMAIN set[t] THEN "Okay" ELSE "NotFound")
  /\ UNCHANGED <<queue, popen>>

\* The entries of test t's set whose wait is over, as wait_on_set reports
\* them: cookie, wait result and the satisfied signals.
ReadyEntries(t) ==
  {[cookie |-> c, res |-> WaitResult(t, set[t][c].h, {set[t][c].sig}),
    sat |-> EndSatisfied(t, set[t][c].h)] :
     c \in {k \in DOMAIN set[t] : Woken(t, set[t][k].h, {set[t][k].sig})}}

\* Mutant: wait_on_set returns at once with whatever entries are ready.
WaitOnSetNoBlock(x) ==
  /\ PRunning(x) /\ PStep(x).op = "waitSet"
  /\ LET out == ReadyEntries(PTest(x))  w == PStep(x).expect
     IN  Asserts(x, /\ Cardinality(out) = w.n
                  /\ \A o \in out : o.cookie = w.cookie /\ o.res = w.res /\ w.sat \subseteq o.sat)
  /\ UNCHANGED <<queue, popen, set>>

\* WaitSet::wait_on_set, blocked until an entry is ready, and the
\* assertions on the entries it returns.
WaitOnSet(x) ==
  /\ PRunning(x) /\ PStep(x).op = "waitSet"
  /\ ReadyEntries(PTest(x)) # {}
  /\ LET out == ReadyEntries(PTest(x))  w == PStep(x).expect
     IN  Asserts(x, /\ Cardinality(out) = w.n
                  /\ \A o \in out : o.cookie = w.cookie /\ o.res = w.res /\ w.sat \subseteq o.sat)
  /\ UNCHANGED <<queue, popen, set>>

\* thread::spawn: the writer thread starts.
Spawn(x) ==
  /\ PRunning(x) /\ PStep(x).op = "spawn"
  /\ ppc' = [ppc EXCEPT ![x] = @ + 1, ![PStep(x).th] = 1]
  /\ UNCHANGED <<pfailed, queue, popen, set>>

PInit ==
  /\ ppc = [x \in Th |-> IF Threads[x].spawned THEN 0 ELSE 1]
  /\ pfailed = [x \in Th |-> FALSE]
  /\ queue = [t \in PTests |-> [e \in Ends |-> <<>>]]
  /\ popen = [t \in PTests |-> [e \in Ends |-> TRUE]]
  /\ set = [t \in PTests |-> <<>>]

\* One step of thread x.
ThreadStep(x) ==
  \/ PipeWrite(x) \/ PipeRead(x) \/ PipeWait(x) \/ PipeClose(x)
  \/ SetAdd(x) \/ SetRemove(x) \/ WaitOnSet(x) \/ Spawn(x)

PNext == \E x \in Th : ThreadStep(x)

PSpec == PInit /\ [][PNext]_pvars

\* The harness, and the OS for a spawned thread, keep scheduling every
\* thread that can run.
PFairness == \A x \in Th : WF_pvars(ThreadStep(x))

PFairSpec == PSpec /\ PFairness
-----------------------------------------------------------------------------
(* The message_pipe and wait_set tests' assertions hold: every result and *)
(* every signals state they read is the one they assert, in every          *)
(* interleaving of wait_set's test thread with the writer it spawns.      *)
PipeTestsPass == \A x \in Th : ~pfailed[x]

(* Every thread of these tests returns: no wait on an end or on the set    *)
(* blocks forever.                                                          *)
PipeTestsComplete == <>(\A x \in Th : ppc[x] > Len(Threads[x].steps))
=============================================================================
