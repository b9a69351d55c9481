---------------------------- MODULE MojomHandles ----------------------------
(***************************************************************************)
(* Ownership of the handles a mojom message carries, from the sender's    *)
(* value to the receiver's decoded value (bindings/mojom.rs).             *)
(*                                                                         *)
(* The sender's value is a container of handles: Vec<H>, [H; N],           *)
(* Vec<Option<H>> or HashMap<u8, H>.  Encoding moves every handle into the *)
(* encoder's handle vector and writes its index inline.  The message then  *)
(* crosses a message pipe from a peer that need not be honest: the handle  *)
(* vector may arrive truncated and the inline indices, counts and keys     *)
(* rewritten.  Decoding claims a slot of the received vector per index,   *)
(* builds the container, and on the first validation error returns Err,   *)
(* dropping (or, for [H; N], leaking) what it built.  When deserialize     *)
(* returns, the Decoder is dropped and closes every slot nobody claimed.  *)
(*                                                                         *)
(* The Decoder's claim_handle and the Encoder's add_handle live in         *)
(* decoding.rs / encoding.rs, not part of the sources, and are modelled    *)
(* from the spec (sections 4.2, 4.3 and 4.10).                             *)
(***************************************************************************)
EXTENDS Integers, Sequences, FiniteSets

CONSTANTS
  Handles,   \* the sender's handles (model values)
  None,      \* an absent Option<H>
  Kinds,     \* container types: subset of {"vec", "fixed", "optvec", "map"}
  MaxLen,    \* bound on container lengths, sent or forged
  Keys,      \* the u8 keys a map may hold
  Tamper     \* whether the peer may alter the message in transit

ASSUME Kinds \subseteq {"vec", "fixed", "optvec", "map"}
ASSUME MaxLen \in Nat \ {0} /\ None \notin Handles /\ Tamper \in BOOLEAN

\* encode_null_handle writes u32::MAX; the handle decode reads it as i32.
NullIndex == -1

VARIABLES
  phase,    \* "encode", "header", "decode" or "done"
  kind,     \* the container type
  elems,    \* the sender's elements (handles, or None), in encode order
  keys,     \* for a map: the key of each element, in the same order
  k,        \* elements encoded / decoded so far
  hv,       \* the handle vector: the encoder's, then the one received
  wIdx,     \* the handle indices on the wire (the values array)
  wKeys,    \* for a map: the keys array on the wire
  claimed,  \* indices of hv the decoder has claimed
  partial,  \* the container under construction (Vec, array or map)
  result,   \* the decoded value, or None on a validation error
  closes,   \* closes[h]: how often handle h has been closed
  leaked,   \* handles in an aggregate that was forgotten, never dropped
  tampered  \* whether transit altered the message

vars == <<phase, kind, elems, keys, k, hv, wIdx, wKeys, claimed, partial,
          result, closes, leaked, tampered>>

Sent == {elems[x] : x \in DOMAIN elems} \ {None}

Injective(s) == \A x, y \in DOMAIN s : s[x] = s[y] => x = y

Close(S) == [h \in Handles |-> IF h \in S THEN closes[h] + 1 ELSE closes[h]]

Elems(s) == {s[x] : x \in DOMAIN s}

(***************************************************************************)
(* The sender's value: distinct owned handles; a map's keys are distinct.  *)
(***************************************************************************)
Init ==
  /\ kind \in Kinds
  /\ \E n \in (IF kind = "vec" THEN 0 ELSE 1) .. MaxLen :
       /\ elems \in {s \in [1 .. n -> Handles \cup {None}] :
                       Injective(s) /\ (kind # "optvec" => None \notin Elems(s))}
       /\ keys \in IF kind = "map" THEN {s \in [1 .. n -> Keys] : Injective(s)} ELSE {<<>>}
  /\ phase = "encode"
  /\ k = 0
  /\ hv = <<>> /\ wIdx = <<>> /\ wKeys = <<>>
  /\ claimed = {} /\ partial = <<>> /\ result = None
  /\ closes = [h \in Handles |-> 0] /\ leaked = {} /\ tampered = FALSE

(***************************************************************************)
(* Encoding (MojomStruct::serialize of a struct holding the container).   *)
(***************************************************************************)
\* For a map, HashMap::encode_value has encoded the keys array first.
Encoding == phase = "encode" /\ k < Len(elems) /\ (kind = "map" => wKeys = keys)

\* Mutant: the index written is the one after the slot the handle got.
EncodeHandleOffByOne ==
  /\ Encoding /\ elems[k + 1] # None
  /\ hv' = Append(hv, elems[k + 1])
  /\ wIdx' = Append(wIdx, Len(hv) + 1)
  /\ k' = k + 1
  /\ UNCHANGED <<phase, kind, elems, keys, wKeys, claimed, partial, result, closes, leaked, tampered>>

\* The handle's encode: Encoder::add_handle appends it to the handle
\* vector and the index it got is written inline.
EncodeHandle ==
  /\ Encoding /\ elems[k + 1] # None
  /\ hv' = Append(hv, elems[k + 1])
  /\ wIdx' = Append(wIdx, Len(hv))
  /\ k' = k + 1
  /\ UNCHANGED <<phase, kind, elems, keys, wKeys, claimed, partial, result, closes, leaked, tampered>>

\* Option<H>::encode of None writes the null handle.
EncodeNullHandle ==
  /\ Encoding /\ elems[k + 1] = None
  /\ wIdx' = Append(wIdx, NullIndex)
  /\ k' = k + 1
  /\ UNCHANGED <<phase, kind, elems, keys, hv, wKeys, claimed, partial, result, closes, leaked, tampered>>

\* HashMap::encode_value writes the keys array before the values array.
EncodeMapKeys ==
  /\ phase = "encode" /\ kind = "map" /\ k = 0 /\ wKeys = <<>> /\ keys # <<>>
  /\ wKeys' = keys
  /\ UNCHANGED <<phase, kind, elems, keys, k, hv, wIdx, claimed, partial, result, closes, leaked, tampered>>

(***************************************************************************)
(* Transit: pipe write on the sender's side, pipe read on the receiver's.  *)
(* A dishonest peer may truncate the handle vector (the dropped handles   *)
(* are closed) and forge the counts, indices and keys of the payload.     *)
(***************************************************************************)
Forged ==
  UNION {[1 .. n -> (0 .. MaxLen - 1) \cup {NullIndex}] : n \in 0 .. MaxLen}

Transmit ==
  /\ phase = "encode" /\ k = Len(elems) /\ (kind = "map" => wKeys = keys)
  /\ phase' = "header" /\ k' = 0
  /\ \/ /\ UNCHANGED <<hv, wIdx, wKeys, closes, tampered>>
     \/ /\ Tamper
        /\ \E n \in 0 .. Len(hv), ix \in Forged,
              ks \in IF kind = "map" THEN UNION {[1 .. m -> Keys] : m \in 0 .. MaxLen} ELSE {<<>>} :
             /\ hv' = SubSeq(hv, 1, n)
             /\ closes' = Close({hv[x] : x \in n + 1 .. Len(hv)})
             /\ wIdx' = ix /\ wKeys' = ks
             /\ tampered' = (<<n, ix, ks>> # <<Len(hv), wIdx, wKeys>>)
  /\ UNCHANGED <<kind, elems, keys, claimed, partial, result, leaked>>

(***************************************************************************)
(* Decoding (MojomStruct::deserialize of the struct holding the container) *)
(***************************************************************************)

\* Mutant: claim_handle without the already-claimed check.
CanClaimTwice(idx) == idx # NullIndex /\ 0 <= idx /\ idx < Len(hv)

\* Decoder::claim_handle: the index must name a slot of the received vector
\* that nobody has claimed yet (u32::MAX reads as -1 and names none).
CanClaim(idx) == idx # NullIndex /\ 0 <= idx /\ idx < Len(hv) /\ idx \notin claimed

\* The slots the Decoder still owns, closed when it is dropped.
Unclaimed == {hv[x + 1] : x \in (0 .. Len(hv) - 1) \ claimed}

\* Vec / Box<[T]> / [T; N]::decode_value read the array header; [T; N]
\* rejects a count other than N.
DecodeArrayHeader ==
  /\ phase = "header" /\ kind # "map"
  /\ kind = "fixed" => Len(wIdx) = Len(elems)
  /\ phase' = "decode"
  /\ UNCHANGED <<kind, elems, keys, k, hv, wIdx, wKeys, claimed, partial, result, closes, leaked, tampered>>

\* HashMap::decode_value decodes the keys array, then reads the values
\* array header and rejects arrays of different lengths.
DecodeMapHeader ==
  /\ phase = "header" /\ kind = "map"
  /\ Len(wKeys) = Len(wIdx)
  /\ phase' = "decode"
  /\ UNCHANGED <<kind, elems, keys, k, hv, wIdx, wKeys, claimed, partial, result, closes, leaked, tampered>>

\* An error before any handle was claimed: UnexpectedArrayHeader for an
\* array of the wrong arity, DifferentSizedArraysInMap for a map.  The
\* decoder is dropped and closes the whole received vector.
RejectHeader ==
  /\ phase = "header"
  /\ \/ kind = "fixed" /\ Len(wIdx) # Len(elems)
     \/ kind = "map" /\ Len(wKeys) # Len(wIdx)
  /\ phase' = "done"
  /\ closes' = Close(Unclaimed)
  /\ UNCHANGED <<kind, elems, keys, k, hv, wIdx, wKeys, claimed, partial, result, leaked, tampered>>

Decoding == phase = "decode" /\ k < Len(wIdx)

Idx == wIdx[k + 1]

\* The container takes one more element: Vec::push, a write into the
\* array, or HashMap::insert, which drops the value a duplicate key had.
Add(c, h) ==
  IF kind = "map"
  THEN [x \in DOMAIN c \cup {wKeys[k + 1]} |-> IF x = wKeys[k + 1] THEN h ELSE c[x]]
  ELSE Append(c, h)

Displaced == IF kind = "map" /\ wKeys[k + 1] \in DOMAIN partial
             THEN {partial[wKeys[k + 1]]} ELSE {}

\* The handle's decode: read the index, claim the slot, add the handle.
DecodeHandle ==
  /\ Decoding /\ CanClaim(Idx)
  /\ ~(kind = "optvec" /\ Idx = NullIndex)
  /\ claimed' = claimed \cup {Idx}
  /\ partial' = Add(partial, hv[Idx + 1])
  /\ closes' = Close(Displaced)
  /\ k' = k + 1
  /\ UNCHANGED <<phase, kind, elems, keys, hv, wIdx, wKeys, result, leaked, tampered>>

\* Option<H>::decode: skip_if_null_handle finds the null index.
DecodeNullHandle ==
  /\ Decoding /\ kind = "optvec" /\ Idx = NullIndex
  /\ partial' = Append(partial, None)
  /\ k' = k + 1
  /\ UNCHANGED <<phase, kind, elems, keys, hv, wIdx, wKeys, claimed, result, closes, leaked, tampered>>

Held(c) == {c[x] : x \in DOMAIN c} \ {None}

\* Mutant: the error path forgets the partial container, as [T; N] does,
\* for every container type.
RejectHandleNoDrop ==
  /\ Decoding /\ ~CanClaim(Idx)
  /\ ~(kind = "optvec" /\ Idx = NullIndex)
  /\ phase' = "done"
  /\ closes' = Close(Unclaimed)
  /\ leaked' = Held(partial)
  /\ UNCHANGED <<kind, elems, keys, k, hv, wIdx, wKeys, claimed, partial, result, tampered>>

\* claim_handle returns IllegalHandle and the container's decode_value
\* returns it at once.  A Vec or a HashMap under construction is dropped,
\* closing its handles; an [H; N] of MaybeUninit elements is forgotten.
\* Then the decoder is dropped.
RejectHandle ==
  /\ Decoding /\ ~CanClaim(Idx)
  /\ ~(kind = "optvec" /\ Idx = NullIndex)
  /\ phase' = "done"
  /\ closes' = Close(Unclaimed \cup (IF kind = "fixed" THEN {} ELSE Held(partial)))
  /\ leaked' = IF kind = "fixed" THEN Held(partial) ELSE {}
  /\ UNCHANGED <<kind, elems, keys, k, hv, wIdx, wKeys, claimed, partial, result, tampered>>

\* Every element decoded: the value is returned and the decoder dropped.
FinishDecode ==
  /\ phase = "decode" /\ k = Len(wIdx)
  /\ phase' = "done"
  /\ result' = partial
  /\ closes' = Close(Unclaimed)
  /\ UNCHANGED <<kind, elems, keys, k, hv, wIdx, wKeys, claimed, partial, leaked, tampered>>

Next ==
  \/ EncodeHandle \/ EncodeNullHandle \/ EncodeMapKeys \/ Transmit
  \/ DecodeArrayHeader \/ DecodeMapHeader \/ RejectHeader
  \/ DecodeHandle \/ DecodeNullHandle \/ RejectHandle \/ FinishDecode

Spec == Init /\ [][Next]_vars

(***************************************************************************)
(* Properties.                                                             *)
(***************************************************************************)
\* The value the sender encoded, as the receiver's container holds it.
SentValue == IF kind = "map" THEN [x \in Elems(keys) |-> elems[CHOOSE y \in DOMAIN keys : keys[y] = x]]
             ELSE elems

Occ(c, h) == Cardinality({x \in DOMAIN c : c[x] = h})

\* Handle conservation (encode, transit, claim_handle, the error paths of
\* the containers' decode_value, the Decoder's drop): once deserialize has
\* returned, every handle the sender put in the message is either in the
\* decoded value exactly once or has been closed exactly once.
HandleConservation ==
  phase = "done" =>
    \A h \in Sent : closes[h] + (IF result = None THEN 0 ELSE Occ(result, h)) = 1

(***************************************************************************)
(* Refinement mapping onto HandleOwnership: who owns each handle.         *)
(* A handle sent but neither in the decoder, nor in the value, nor closed *)
(* has no owner, a place the abstract specification does not have.       *)
(***************************************************************************)
Owner(h) ==
  CASE closes[h] > 0                                   -> "closed"
    [] h \notin Sent                                   -> "sender"
    [] phase = "encode"                                -> IF h \in Elems(hv) THEN "message" ELSE "sender"
    [] phase # "done" /\ h \in Unclaimed               -> "decoder"
    [] phase # "done" /\ h \in Held(partial)           -> "value"
    [] phase = "done" /\ result # None /\ h \in Held(result) -> "value"
    [] OTHER                                           -> "lost"

Ownership == INSTANCE HandleOwnership
               WITH owner <- [h \in Handles |-> Owner(h)], done <- (phase = "done")

(* Refinement: every step of encode, transit and decode, error paths and  *)
(* the Decoder's drop included, moves handles only the way the abstract   *)
(* ownership protocol allows: never back, never to two owners, never lost.*)
OwnershipRefined == Ownership!Spec

\* Round trip (serialize then deserialize): a message that crosses the
\* pipe unaltered decodes without error to the value that was sent.
RoundTrip ==
  (phase = "done" /\ ~tampered) => result = SentValue

====
