---------------------------- MODULE MojomMessage ----------------------------
(***************************************************************************)
(* The message envelope (bindings/mojom.rs): send_request with its version *)
(* check, create_request's split of one buffer into a header region and a *)
(* payload region, the message pipe between the two ends, and             *)
(* recv_response -> decode_message on the receiving end.                   *)
(*                                                                         *)
(* MessageHeader lives in message.rs, which is not among the sources: its *)
(* version table (version -> struct size) is the constant HeaderTable, and *)
(* its serialized_size is the size that table records for the header's    *)
(* version (spec 4.2, the struct-version rule).  Payload bytes are        *)
(* abstracted to the payload they encode; a payload decoded from the wrong *)
(* offset yields an error or a value that was never sent (Garbage).        *)
(***************************************************************************)
EXTENDS Integers, Sequences, SequencesExt

CONSTANTS
  Payloads,        \* the request payload structs a caller may send
  Ids,             \* request ids a caller may pass
  MinVersion,      \* payload -> R::min_version()
  Version,         \* the interface's self.version()
  HeaderTable,     \* MessageHeader's version table: version -> size
  SenderVersions,  \* versions R::create_header() may produce
  ForeignHeaders,  \* (version, size) pairs a peer of another binding may write
  Garbage,         \* a payload value nobody sent
  MaxMsgs          \* bound on the messages written

ASSUME SenderVersions \subseteq DOMAIN HeaderTable

VARIABLES
  pipe,       \* the messages in the pipe, oldest first
  written,    \* [id, p] of every message written (history; bounds the run)
  received,   \* what each decode_message of a message returned, in order
  open,       \* whether the receiving endpoint is still open
  sendResult, \* the last result of send_request
  recvResult  \* the last result of recv_response

vars == <<pipe, written, received, open, sendResult, recvResult>>

AlignDefault(n) == ((n + 7) \div 8) * 8

\* A message on the wire: the header's version and size as its data header
\* says, the request id, where the payload region starts, the payload.
Wire(ver, size, id, at, p) == [ver |-> ver, size |-> size, id |-> id, at |-> at, p |-> p]

\* Only writes to an open pipe are bounded: a closed one grows nothing.
Bounded == open => Len(written) < MaxMsgs

Write(m) ==
  /\ Bounded
  /\ IF open
     THEN /\ pipe' = Append(pipe, m)
          /\ written' = Append(written, [id |-> m.id, p |-> m.p])
          /\ sendResult' = "Ok"
     ELSE /\ sendResult' = "FailedWrite"
          /\ UNCHANGED <<pipe, written>>

\* create_request: the header is serialized into the first
\* header.compute_size() bytes, the payload into the rest.
CreateRequest(id, p, v) ==
  Wire(v, HeaderTable[v], id, AlignDefault(HeaderTable[v]), p)

\* send_request: refuse a payload newer than the interface, else create the
\* request and write it to the pipe.
SendRequest(id, p, v) ==
  /\ Bounded
  /\ IF Version < MinVersion[p]
     THEN /\ sendResult' = "OldVersion"
          /\ UNCHANGED <<pipe, written>>
     ELSE Write(CreateRequest(id, p, v))
  /\ UNCHANGED <<received, open, recvResult>>

\* A peer of another binding writes a header of any (version, size) pair,
\* followed by the payload.
ForeignSend(id, p, h) ==
  /\ Write(Wire(h[1], h[2], id, h[2], p))
  /\ UNCHANGED <<received, open, recvResult>>

\* The receiving endpoint is closed; what is in the pipe is discarded.
Close ==
  /\ open
  /\ open' = FALSE /\ pipe' = <<>>
  /\ UNCHANGED <<written, received, sendResult, recvResult>>

\* Mutant: the payload is sliced at the size of the newest header version,
\* whatever version the decoded header has.
HeaderSizeLatest(m) == HeaderTable[Max(DOMAIN HeaderTable)]

\* MessageHeader::deserialize accepts the header: its (version, size) pair
\* is one of the version table.
HeaderValid(m) == m.ver \in DOMAIN HeaderTable /\ HeaderTable[m.ver] = m.size

\* MessageHeader::serialized_size of the decoded header.
HeaderSize(m) == HeaderTable[m.ver]

\* decode_message: decode the header with no handles (its version and size
\* must be a pair of the table), then the payload from the bytes after
\* header.serialized_size().
DecodeMessage(m) ==
  IF ~HeaderValid(m)
  THEN {[ok |-> FALSE]}
  ELSE IF HeaderSize(m) = m.at
       THEN {[ok |-> TRUE, id |-> m.id, p |-> m.p]}
       ELSE {[ok |-> FALSE], [ok |-> TRUE, id |-> m.id, p |-> Garbage]}

\* recv_response: read the next message, or fail to read on an empty pipe.
RecvResponse ==
  /\ open
  /\ IF pipe = <<>>
     THEN /\ recvResult' = "FailedRead"
          /\ UNCHANGED <<pipe, received>>
     ELSE \E r \in DecodeMessage(Head(pipe)) :
            /\ pipe' = Tail(pipe)
            /\ received' = Append(received, r)
            /\ recvResult' = IF r.ok THEN "Ok" ELSE "FailedValidation"
  /\ UNCHANGED <<written, open, sendResult>>

Init ==
  /\ pipe = <<>> /\ written = <<>> /\ received = <<>>
  /\ open = TRUE
  /\ sendResult = "none" /\ recvResult = "none"

Next ==
  \/ \E id \in Ids, p \in Payloads :
       \/ \E v \in SenderVersions : SendRequest(id, p, v)
       \/ \E h \in ForeignHeaders : ForeignSend(id, p, h)
  \/ Close
  \/ RecvResponse

Spec == Init /\ [][Next]_vars
-----------------------------------------------------------------------------
(* The envelope implements the channel of MessageChannel: the pipe, seen  *)
(* as the (request id, payload, header valid) of each message in it, is  *)
(* that channel.  So recv_response yields the messages in the order they *)
(* were written, each once; a message whose header the version table     *)
(* accepts is yielded with the request id and payload its sender wrote   *)
(* (create_request's split at header.compute_size() and decode_message's *)
(* slice at header.serialized_size() agree for every version), and only  *)
(* a message with a rejected header fails validation.                    *)
Channel == INSTANCE MessageChannel WITH
  chan <- [i \in 1 .. Len(pipe) |-> [id |-> pipe[i].id, p |-> pipe[i].p,
                                      valid |-> HeaderValid(pipe[i])]]

EnvelopeRefined == Channel!ChanSpec
=============================================================================
