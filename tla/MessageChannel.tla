--------------------------- MODULE MessageChannel ---------------------------
(***************************************************************************)
(* What the message envelope promises its two ends (spec 4.9 and the send *)
(* and receive errors of section 7), with headers and byte offsets left   *)
(* out: a FIFO channel of (request id, payload) messages, each marked by   *)
(* whether its header is one the receiver's version table accepts.        *)
(*                                                                         *)
(* A send is refused (OldVersion), fails on a closed channel (FailedWrite) *)
(* or appends its message.  A receive on an empty channel fails           *)
(* (FailedRead); otherwise it consumes the oldest message and yields it,   *)
(* request id and payload as sent, when its header is valid, and          *)
(* FailedValidation when it is not.  Closing the receiving end discards   *)
(* what is queued.                                                         *)
(***************************************************************************)
EXTENDS Sequences

CONSTANTS Ids, Payloads

VARIABLES
  chan,        \* the messages queued, oldest first: [id, p, valid]
  open,        \* the receiving end is open
  received,    \* what each receive that found a message yielded, in order
  sendResult,  \* the last send's result
  recvResult   \* the last receive's result

avars == <<chan, open, received, sendResult, recvResult>>

ChanInit ==
  /\ chan = <<>> /\ open = TRUE /\ received = <<>>
  /\ sendResult = "none" /\ recvResult = "none"

Refuse ==
  /\ sendResult' = "OldVersion"
  /\ UNCHANGED <<chan, open, received, recvResult>>

Send(id, p, valid) ==
  /\ IF open
     THEN chan' = Append(chan, [id |-> id, p |-> p, valid |-> valid]) /\ sendResult' = "Ok"
     ELSE UNCHANGED chan /\ sendResult' = "FailedWrite"
  /\ UNCHANGED <<open, received, recvResult>>

\* The oldest message is consumed whatever its header; only a valid one is
\* yielded, and as it was sent.
Recv ==
  /\ open
  /\ IF chan = <<>>
     THEN recvResult' = "FailedRead" /\ UNCHANGED <<chan, received>>
     ELSE LET m == Head(chan)
          IN  /\ chan' = Tail(chan)
              /\ received' = Append(received, IF m.valid THEN [ok |-> TRUE, id |-> m.id, p |-> m.p]
                                                         ELSE [ok |-> FALSE])
              /\ recvResult' = IF m.valid THEN "Ok" ELSE "FailedValidation"
  /\ UNCHANGED <<open, sendResult>>

CloseChan ==
  /\ open
  /\ open' = FALSE /\ chan' = <<>>
  /\ UNCHANGED <<received, sendResult, recvResult>>

ChanNext ==
  \/ Refuse
  \/ \E id \in Ids, p \in Payloads, valid \in BOOLEAN : Send(id, p, valid)
  \/ Recv
  \/ CloseChan

ChanSpec == ChanInit /\ [][ChanNext]_avars
=============================================================================
