--------------------------- MODULE HandleOwnership ---------------------------
(***************************************************************************)
(* What the bindings promise about the handles a message carries (spec    *)
(* sections 4.10 and 6, "handle conservation"), with no wire format: every *)
(* handle has exactly one owner at a time, and it only moves forward:     *)
(*                                                                         *)
(*   sender -> message -> decoder -> value -> closed                       *)
(*                            \-------------> closed                       *)
(*                                                                         *)
(* A handle leaves the sender when it is encoded, arrives in the decoder  *)
(* or is closed when the message is delivered, moves into the decoded     *)
(* value when it is claimed, and is closed when whoever owns it drops it. *)
(* Once deserialize returns, nothing is left in the decoder.              *)
(***************************************************************************)
CONSTANT Handles

VARIABLES
  owner,  \* owner[h]: who owns handle h
  done    \* whether deserialize has returned

Places == {"sender", "message", "decoder", "value", "closed"}

\* Exactly the handles in from move to one of to; the others stay.
MoveAll(from, to) ==
  \A h \in Handles :
    IF owner[h] = from THEN owner'[h] \in to ELSE owner'[h] = owner[h]

Init ==
  /\ owner = [h \in Handles |-> "sender"]
  /\ done = FALSE

\* A handle is encoded into the message.
Encode(h) ==
  /\ ~done /\ owner[h] = "sender"
  /\ owner' = [owner EXCEPT ![h] = "message"]
  /\ UNCHANGED done

\* The message is delivered: each of its handles reaches the decoder or
\* is closed on the way.
Deliver ==
  /\ ~done
  /\ MoveAll("message", {"decoder", "closed"})
  /\ UNCHANGED done

\* A handle is claimed into the value; the value may drop (close) one
\* handle it held, which the new one replaces.
Claim(h) ==
  /\ ~done /\ owner[h] = "decoder"
  /\ owner' \in [Handles -> Places] /\ owner'[h] = "value"
  /\ \A g \in Handles \ {h} :
       owner'[g] = owner[g] \/ (owner[g] = "value" /\ owner'[g] = "closed")
  /\ UNCHANGED done

\* deserialize returns an error: the value and the decoder are dropped.
Fail ==
  /\ ~done
  /\ \A h \in Handles :
       owner'[h] = IF owner[h] \in {"decoder", "value"} THEN "closed" ELSE owner[h]
  /\ done' = TRUE

\* deserialize returns the value: the decoder closes what nobody claimed.
Return ==
  /\ ~done
  /\ MoveAll("decoder", {"closed"})
  /\ done' = TRUE

Next ==
  \/ \E h \in Handles : Encode(h) \/ Claim(h)
  \/ Deliver \/ Fail \/ Return

Spec == Init /\ [][Next]_<<owner, done>>
=============================================================================
