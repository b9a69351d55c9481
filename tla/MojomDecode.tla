----------------------------- MODULE MojomDecode -----------------------------
(***************************************************************************)
(* The receiving side of MojomSize: deserialize of a message whose regions *)
(* the encoder laid out, after a peer may have altered one pointer, one    *)
(* array header or one string's bytes (bindings/mojom.rs).                 *)
(*                                                                         *)
(* The wire is abstracted to its regions: at each region's offset, the    *)
(* data header (size, element count or version), the absolute targets of  *)
(* the pointers the region holds (decode_pointer adds the relative offset  *)
(* to its own position; 0 stands for the null pointer, as it does in      *)
(* decode_union_nested and HashMap::decode_value) and whether a string's  *)
(* bytes are UTF-8.  The decoder follows pointers depth-first, as the      *)
(* nested decode_new / decode_value calls do; Decoder::claim and the      *)
(* header checks live in decoding.rs and are modelled from spec 4.3.      *)
(***************************************************************************)
EXTENDS Integers, Sequences, SequencesExt, FiniteSets

CONSTANT Roots          \* the values the sender serializes

Sz == INSTANCE MojomSize WITH bufLen <- 0, todo <- <<>>, head <- 0,
                              regions <- {}, phase <- "encode"

NullPtr == 0   \* MOJOM_NULL_POINTER

NoType   == [k |-> "none"]      \* an unused type field
NullSlot == [null |-> TRUE]     \* an absent Option in a pointer slot

VARIABLES
  mem,        \* the received wire: offset -> region record
  bufLen,     \* the received buffer's length
  sent,       \* the regions the encoder laid out: offset -> size
  tampered,   \* whether the peer altered the message
  todo,       \* pointers still to follow: [off, t, nullable, role]
  claimed,    \* the byte ranges the decoder has claimed, in order: [lo, hi]
  read,       \* the byte ranges each decode_value has read, in order (history)
  keysCount,  \* the element count of the map's keys array, once decoded
  outcome     \* "running", "ok", "err" (a ValidationError) or "panic"

vars == <<mem, bufLen, sent, tampered, todo, claimed, read, keysCount, outcome>>

(***************************************************************************)
(* The sender's layout (MojomStruct::auto_serialize, as MojomSize checks  *)
(* it): regions in encode_new order, each child placed by Encoder::add.    *)
(***************************************************************************)
IsPtr(T) == T.k \in {"str", "vec", "map"} \/ (T.k = "opt" /\ T.e.k \in {"str", "vec", "map"})

\* The pointer slots of a region's value, in order: the value pointed to,
\* or NullSlot for an absent Option.
Slots(v) ==
  CASE v.t.k = "map" -> <<Sz!KeysArray(v), Sz!ValsArray(v)>>
    [] v.t.k = "vec" /\ IsPtr(v.t.e) ->
         [j \in 1 .. Len(v.elems) |->
            IF v.elems[j].t.k = "opt"
            THEN IF v.elems[j].some THEN v.elems[j].elems[1] ELSE NullSlot
            ELSE v.elems[j]]
    [] OTHER -> <<>>

Count(v) == CASE v.t.k = "str" -> v.n
              [] v.t.k = "vec" -> Len(v.elems)
              [] v.t.k = "map" -> 0

RECURSIVE Place(_, _)
Place(v, head) ==
  LET off  == Sz!AlignDefault(head)
      size == Sz!SerializedSize(v)
      kids == FoldLeft(
                LAMBDA acc, c :
                  IF c = NullSlot
                  THEN [acc EXCEPT !.ptrs = Append(@, NullPtr)]
                  ELSE LET p == Place(c, acc.end)
                       IN  [regs |-> acc.regs \o p.regs, end |-> p.end,
                            ptrs |-> Append(acc.ptrs, Sz!AlignDefault(acc.end))],
                [regs |-> <<>>, end |-> off + size, ptrs |-> <<>>], Slots(v))
  IN  [regs |-> <<[off |-> off, size |-> size, count |-> Count(v), t |-> v.t,
                   ptrs |-> kids.ptrs, utf8 |-> TRUE]>> \o kids.regs,
       end  |-> kids.end]

Layout(root) == LET regs == Place(root, 0).regs
                IN  [o \in {regs[j].off : j \in 1 .. Len(regs)} |->
                       CHOOSE r \in Range(regs) : r.off = o]

(***************************************************************************)
(* What a peer may alter: one pointer (redirected to another region, past  *)
(* the buffer's end, off its alignment, or to null), one array count with  *)
(* the size left as it was, one array grown or shrunk with a consistent    *)
(* header (a grown one may reach past the buffer's end), or               *)
(* one string's bytes made invalid UTF-8.                                  *)
(***************************************************************************)
\* Mutant: the expected size truncates the packed element bits.
ArraySizeFloor(t, count) ==
  IF t.k = "str" THEN Sz!DATA_HEADER_SIZE + count
  ELSE Sz!ArraySerializedSizeFloor([t |-> t, elems |-> [j \in 1 .. count |-> 0]])

\* The header of an array of count elements of type t (decode_array_header).
ArraySize(t, count) ==
  IF t.k = "str" THEN Sz!DATA_HEADER_SIZE + count
  ELSE Sz!ArraySerializedSize([t |-> t, elems |-> [j \in 1 .. count |-> 0]])

Tampers(m, len) ==
  LET offs == DOMAIN m
      arrs == {o \in offs : m[o].t.k # "map" /\ m[o].count > 0}
  IN  UNION {{[m EXCEPT ![p[1]].ptrs[p[2]] = x] :
                 x \in (offs \cup {NullPtr, len, 4}) \ {m[p[1]].ptrs[p[2]]}} :
              p \in UNION {{<<o, j>> : j \in DOMAIN m[o].ptrs} : o \in offs}}
      \cup {[m EXCEPT ![o].count = @ + 1] : o \in arrs}
      \cup {[m EXCEPT ![o].count = @ + d, ![o].size = ArraySize(m[o].t, m[o].count + d)] :
              o \in {p \in arrs : m[p].ptrs = <<>>}, d \in {1, 8}}
      \cup {[m EXCEPT ![o].count = @ - 1, ![o].size = ArraySize(m[o].t, m[o].count - 1),
                      ![o].ptrs = IF @ = <<>> THEN @ ELSE Front(@)] : o \in arrs}
      \cup {[m EXCEPT ![o].utf8 = FALSE] : o \in {p \in arrs : m[p].t.k = "str"}}

(***************************************************************************)
(* The decoder.                                                            *)
(***************************************************************************)
\* The type and nullability of a region's j-th pointer slot.
Child(t, j) ==
  CASE t.k = "map" /\ j = 1 -> [t |-> [k |-> "vec", e |-> t.key, key |-> NoType, val |-> NoType],
                                nullable |-> FALSE, role |-> "keys"]
    [] t.k = "map" /\ j = 2 -> [t |-> [k |-> "vec", e |-> t.val, key |-> NoType, val |-> NoType],
                                nullable |-> FALSE, role |-> "vals"]
    [] t.e.k = "opt"        -> [t |-> t.e.e, nullable |-> TRUE, role |-> "plain"]
    [] OTHER                -> [t |-> t.e, nullable |-> FALSE, role |-> "plain"]

\* The pointers a decode_value follows, in order, ahead of the rest.
Follow(r, t) == [j \in 1 .. Len(r.ptrs) |-> [off |-> r.ptrs[j]] @@ Child(t, j)]

\* Mutant: claim without the bound check against the buffer's end.
ClaimOKNoBound(off) ==
  /\ off % 8 = 0 /\ off \in DOMAIN mem
  /\ \A c \in Range(claimed) : off + mem[off].size <= c.lo \/ c.hi <= off

\* Decoder::claim: the offset must be aligned, the region inside the buffer
\* and clear of every region claimed before.
ClaimOK(off) ==
  /\ off % 8 = 0 /\ off \in DOMAIN mem
  /\ off + mem[off].size <= bufLen
  /\ \A c \in Range(claimed) : off + mem[off].size <= c.lo \/ c.hi <= off

\* decode_array_header / decode_struct_header(&MAP_VERSIONS).
HeaderOK(r, t) ==
  IF t.k = "map" THEN r.size = Sz!MAP_SIZE /\ r.count = 0
  ELSE r.size = ArraySize(t, r.count)

Item == Head(todo)

\* deserialize claims the root at offset 0 through decode_new directly;
\* every other offset was read from a pointer, where 0 is null.
IsNull == Item.off = NullPtr /\ Item.role # "root"
Reg  == mem[Item.off]

Decoding == outcome = "running" /\ todo # <<>>

Fail == /\ outcome' = "err"
        /\ UNCHANGED <<mem, bufLen, sent, tampered, todo, claimed, read, keysCount>>

\* Option<T>::decode: skip_if_null_pointer yields None.
SkipNull ==
  /\ Decoding /\ IsNull /\ Item.nullable
  /\ todo' = Tail(todo)
  /\ UNCHANGED <<mem, bufLen, sent, tampered, claimed, read, keysCount, outcome>>

\* A null pointer where the type is not an Option: UnexpectedNullPointer.
\* HashMap::decode_value reads both its pointers and rejects a null one
\* before it claims either array.
MapNullPtr ==
  /\ Item.t.k = "map" /\ ~IsNull /\ ClaimOK(Item.off) /\ HeaderOK(Reg, Item.t)
  /\ NullPtr \in Range(Reg.ptrs)

RejectNull ==
  /\ Decoding
  /\ \/ IsNull /\ ~Item.nullable
     \/ MapNullPtr
  /\ Fail

\* decode_new / array_claim_and_decode_header: Decoder::claim fails.
RejectPointer ==
  /\ Decoding /\ ~IsNull /\ ~ClaimOK(Item.off)
  /\ Fail

\* The region is claimed but its header is not the one the type expects,
\* or a map's values array differs in length from its keys array.
RejectHeader ==
  /\ Decoding /\ ~IsNull /\ ClaimOK(Item.off)
  /\ \/ ~HeaderOK(Reg, Item.t)
     \/ Item.role = "vals" /\ HeaderOK(Reg, Item.t) /\ Reg.count # keysCount
  /\ Fail

\* Decoder::claim of the region decode_new (or array_claim_and_decode_header)
\* was given, and the bytes decode_value then reads.
Span == [lo |-> Item.off, hi |-> Item.off + Reg.size]
Claim == claimed' = Append(claimed, Span)
ReadRegion == read' = Append(read, Span)

DecodeString ==
  /\ Decoding /\ Item.t.k = "str" /\ ~IsNull
  /\ ClaimOK(Item.off) /\ HeaderOK(Reg, Item.t)
  /\ Claim /\ ReadRegion
  /\ todo' = Tail(todo)
  /\ outcome' = IF Reg.utf8 THEN "running" ELSE "panic"
  /\ UNCHANGED <<mem, bufLen, sent, tampered, keysCount>>

\* Vec / Box<[T]>::decode_value, and the keys and values arrays of a map:
\* claim, header, then each element in order.
DecodeArray ==
  /\ Decoding /\ Item.t.k = "vec" /\ ~IsNull
  /\ ClaimOK(Item.off) /\ HeaderOK(Reg, Item.t)
  /\ Item.role = "vals" => Reg.count = keysCount
  /\ Claim /\ ReadRegion
  /\ todo' = Follow(Reg, Item.t) \o Tail(todo)
  /\ keysCount' = IF Item.role = "keys" THEN Reg.count ELSE keysCount
  /\ UNCHANGED <<mem, bufLen, sent, tampered, outcome>>

\* HashMap::decode_value: the struct header, then the keys and the values
\* pointers, each followed in turn.
DecodeMap ==
  /\ Decoding /\ Item.t.k = "map" /\ ~IsNull
  /\ ClaimOK(Item.off) /\ HeaderOK(Reg, Item.t) /\ ~MapNullPtr
  /\ Claim /\ ReadRegion
  /\ todo' = Follow(Reg, Item.t) \o Tail(todo)
  /\ UNCHANGED <<mem, bufLen, sent, tampered, keysCount, outcome>>

\* deserialize returns Ok once every pointer has been followed.
Finish ==
  /\ outcome = "running" /\ todo = <<>>
  /\ outcome' = "ok"
  /\ UNCHANGED <<mem, bufLen, sent, tampered, todo, claimed, read, keysCount>>

Init ==
  /\ \E root \in Roots :
       LET honest == Layout(root)
           len    == Sz!ComputeSize(root)
       IN  /\ sent = [o \in DOMAIN honest |-> honest[o].size]
           /\ bufLen = len
           /\ \/ mem = honest /\ tampered = FALSE
              \/ mem \in Tampers(honest, len) /\ mem # honest /\ tampered = TRUE
           /\ todo = <<[off |-> 0, t |-> root.t, nullable |-> FALSE, role |-> "root"]>>
  /\ claimed = <<>> /\ read = <<>>
  /\ keysCount = 0
  /\ outcome = "running"

Next ==
  \/ SkipNull \/ RejectNull \/ RejectPointer \/ RejectHeader
  \/ DecodeString \/ DecodeArray \/ DecodeMap \/ Finish

Spec == Init /\ [][Next]_vars

-----------------------------------------------------------------------------
TypeOK ==
  /\ outcome \in {"running", "ok", "err", "panic"}
  /\ claimed \in Seq([lo : Nat, hi : Nat])
  /\ \A c \in Range(claimed) : c.lo < c.hi /\ c.hi <= bufLen
  /\ keysCount \in Nat

(* Encoder and decoder agree (MojomSize's layout composed with the         *)
(* decode_new / decode_value calls): a message that crosses the pipe       *)
(* unaltered is accepted, and the decoder claims exactly the regions the   *)
(* encoder laid out, each with the size the encoder gave it.               *)
HonestAccepted ==
  ~tampered =>
    /\ outcome \in {"running", "ok"}
    /\ \A c \in Range(claimed) : c.lo \in DOMAIN sent /\ c.hi = c.lo + sent[c.lo]
    /\ outcome = "ok" => {c.lo : c \in Range(claimed)} = DOMAIN sent

=============================================================================
