------------------------------ MODULE MojomSize ------------------------------
(***************************************************************************)
(* Size pre-computation against region allocation (bindings/mojom.rs).     *)
(*                                                                         *)
(* auto_serialize sizes the buffer with compute_size and then serialize    *)
(* lets the encoder hand out one region per pointer-typed value, in the    *)
(* depth-first order of encode_new -> Encoder::add -> encode_value.  Each  *)
(* action below is one Encoder::add together with the inline writes of     *)
(* the value's encode_value into that region; the pointer-typed children   *)
(* it meets are pushed, in order, in front of the remaining work.          *)
(*                                                                         *)
(* A type is a record [k |-> kind, e |-> element type, key, val]:          *)
(* u8/u32/u64/bool are inline, "opt" is Option<e>, "str" is String, "vec"  *)
(* is Vec<e> (or [e; N] or Box<[e]>, which share its code), "map" is       *)
(* HashMap<key, val>.  A value is a record [t, n, some, elems, keys, vals].*)
(***************************************************************************)
EXTENDS Integers, Sequences, SequencesExt

CONSTANT Roots          \* the root values to serialize

VARIABLES
    bufLen,     \* the buffer length auto_serialize allocated: compute_size
    todo,       \* pointer-typed values whose region is still to be added
    head,       \* the encoder's write head (end of the last region)
    regions,    \* the regions added: [start, size, used]
    phase       \* "encode", "done", or "panic" (add().unwrap() failed)

vars == <<bufLen, todo, head, regions, phase>>

DATA_HEADER_SIZE == 8
MAP_SIZE == 24

\* align_default(n) = (n + 7) & ~7
AlignDefault(n) == ((n + 7) \div 8) * 8

\* Bits::as_bytes rounds up to whole bytes.
AsBytes(bits) == (bits + 7) \div 8

PrimBytes == [u8 |-> 1, u32 |-> 4, u64 |-> 8]

IsPointerType(T) == T.k \in {"str", "vec", "map"}

\* embed_size of each MojomEncodable impl, in bits.
RECURSIVE EmbedBits(_)
EmbedBits(T) ==
    CASE T.k \in DOMAIN PrimBytes -> 8 * PrimBytes[T.k]
      [] T.k = "bool"             -> 1
      [] T.k = "opt"              -> EmbedBits(T.e)
      [] OTHER                    -> 64

(***************************************************************************)
(* serialized_size of the MojomPointer impls.                              *)
(***************************************************************************)
\* A mutant: the packed element bits truncated instead of rounded up.
ArraySerializedSizeFloor(v) ==
    DATA_HEADER_SIZE
      + IF Len(v.elems) > 0 THEN (EmbedBits(v.t.e) * Len(v.elems)) \div 8 ELSE 0

ArraySerializedSize(v) ==
    DATA_HEADER_SIZE
      + IF Len(v.elems) > 0 THEN AsBytes(EmbedBits(v.t.e) * Len(v.elems)) ELSE 0

StringSerializedSize(v) == DATA_HEADER_SIZE + v.n

SerializedSize(v) ==
    CASE v.t.k = "str" -> StringSerializedSize(v)
      [] v.t.k = "vec" -> ArraySerializedSize(v)
      [] v.t.k = "map" -> MAP_SIZE

\* The keys and values arrays a map's encode_value lays out.
KeysArray(v) == [t |-> [k |-> "vec", e |-> v.t.key], n |-> 0, some |-> FALSE,
                 elems |-> v.keys, keys |-> <<>>, vals |-> <<>>]
ValsArray(v) == [t |-> [k |-> "vec", e |-> v.t.val], n |-> 0, some |-> FALSE,
                 elems |-> v.vals, keys |-> <<>>, vals |-> <<>>]

(***************************************************************************)
(* compute_size of each MojomEncodable impl.                               *)
(***************************************************************************)
SumOver(f(_), s) == FoldLeft(LAMBDA acc, x : acc + f(x), 0, s)

\* A mutant: String's compute_size without the align_default.
StringComputeSizeNoAlign(v) == StringSerializedSize(v)

StringComputeSize(v) == AlignDefault(StringSerializedSize(v))

RECURSIVE ComputeSize(_), ArrayComputeSize(_), MapComputeSize(_)
ArrayComputeSize(v) ==
    AlignDefault(SerializedSize(v)) + SumOver(ComputeSize, v.elems)

MapComputeSize(v) ==
    LET n      == Len(v.keys)
        keys   == AlignDefault(AlignDefault(MAP_SIZE) + DATA_HEADER_SIZE
                                 + AsBytes(EmbedBits(v.t.key) * n))
        keysCh == AlignDefault(keys + SumOver(ComputeSize, v.keys))
        vals   == AlignDefault(keysCh + DATA_HEADER_SIZE
                                 + AsBytes(EmbedBits(v.t.val) * n))
    IN  AlignDefault(vals + SumOver(ComputeSize, v.vals))

ComputeSize(v) ==
    CASE v.t.k = "opt" -> IF v.some THEN ComputeSize(v.elems[1]) ELSE 0
      [] v.t.k = "str" -> StringComputeSize(v)
      [] v.t.k = "vec" -> ArrayComputeSize(v)
      [] v.t.k = "map" -> MapComputeSize(v)
      [] OTHER         -> 0

(***************************************************************************)
(* EncodingState cursor over one region: bools are bit-packed, any other   *)
(* element is aligned to a byte and then to its own width.  A cursor is    *)
(* [off, bit]; Used is the number of bytes it has touched.                 *)
(***************************************************************************)
RoundUp(x, n) == ((x + n - 1) \div n) * n

ElemBytes(T) == EmbedBits(T) \div 8

WriteElem(c, T) ==
    IF EmbedBits(T) = 1
    THEN IF c.bit = 7 THEN [off |-> c.off + 1, bit |-> 0]
                      ELSE [off |-> c.off, bit |-> c.bit + 1]
    ELSE LET o == RoundUp(IF c.bit > 0 THEN c.off + 1 ELSE c.off, ElemBytes(T))
         IN  [off |-> o + ElemBytes(T), bit |-> 0]

Used(c) == IF c.bit > 0 THEN c.off + 1 ELSE c.off

\* The bytes of an array region the element writes reach.
ArrayUsed(v) ==
    Used(FoldLeft(LAMBDA c, x : WriteElem(c, v.t.e),
                  [off |-> DATA_HEADER_SIZE, bit |-> 0], v.elems))

\* The pointer-typed values an element sequence hands to encode_new, in order.
Kid(x) == IF x.t.k = "opt" THEN (IF x.some THEN <<x.elems[1]>> ELSE <<>>)
          ELSE IF IsPointerType(x.t) THEN <<x>> ELSE <<>>
Kids(s) == FlattenSeq([j \in 1..Len(s) |-> Kid(s[j])])

Init ==
    /\ \E root \in Roots :
         /\ bufLen = ComputeSize(root)
         /\ todo = <<root>>
    /\ head = 0
    /\ regions = {}
    /\ phase = "encode"

(***************************************************************************)
(* Encoder::add: align the head to 8, reserve the header's size, and fail  *)
(* (the unwrap in encode_new panics) if that passes the buffer's end.      *)
(***************************************************************************)
\* A mutant: the new region starts at the head without aligning it.
AddNoAlign(v, used, kids) ==
    LET size == SerializedSize(v)
    IN  IF head + size <= bufLen
        THEN /\ head' = head + size
             /\ regions' = regions \cup
                  {[start |-> head, size |-> size, used |-> used]}
             /\ todo' = kids \o Tail(todo)
             /\ UNCHANGED <<bufLen, phase>>
        ELSE /\ phase' = "panic"
             /\ UNCHANGED <<bufLen, todo, head, regions>>

Add(v, used, kids) ==
    LET start == AlignDefault(head)
        size  == SerializedSize(v)
    IN  IF start + size <= bufLen
        THEN /\ head' = start + size
             /\ regions' = regions \cup
                  {[start |-> start, size |-> size, used |-> used]}
             /\ todo' = kids \o Tail(todo)
             /\ UNCHANGED <<bufLen, phase>>
        ELSE /\ phase' = "panic"
             /\ UNCHANGED <<bufLen, todo, head, regions>>

\* String: encode_new, then encode_value writes each byte as a u8.
EncodeString ==
    /\ phase = "encode" /\ todo # <<>> /\ Head(todo).t.k = "str"
    /\ Add(Head(todo), DATA_HEADER_SIZE + Head(todo).n, <<>>)

\* Vec/[T; N]/Box<[T]>: encode_new, then encode_value encodes each element.
EncodeArray ==
    /\ phase = "encode" /\ todo # <<>> /\ Head(todo).t.k = "vec"
    /\ Add(Head(todo), ArrayUsed(Head(todo)), Kids(Head(todo).elems))

\* HashMap: encode_new, then encode_value adds the keys array, encodes the
\* keys into it, and encodes the values as a Vec<V> (another encode_new).
\* The two pointers fill the map's 16 bytes after its header.
EncodeMap ==
    /\ phase = "encode" /\ todo # <<>> /\ Head(todo).t.k = "map"
    /\ Add(Head(todo), DATA_HEADER_SIZE + 16,
           <<KeysArray(Head(todo)), ValsArray(Head(todo))>>)

\* serialize returns once the root's encode_new has returned.
Finish ==
    /\ phase = "encode" /\ todo = <<>>
    /\ phase' = "done"
    /\ UNCHANGED <<bufLen, todo, head, regions>>

Next == EncodeString \/ EncodeArray \/ EncodeMap \/ Finish

Spec == Init /\ [][Next]_vars

-----------------------------------------------------------------------------
TypeOK ==
    /\ bufLen \in Nat /\ head \in Nat
    /\ regions \subseteq [start : Nat, size : Nat, used : Nat]
    /\ \A r \in regions : r.start % 8 = 0
    /\ phase \in {"encode", "done", "panic"}

(* Size exactness (spec 4.8 and the buffer auto_serialize allocates):     *)
(* every region Encoder::add hands out lies inside the buffer sized by     *)
(* compute_size, so the add().unwrap() in encode_new never panics, and     *)
(* once serialize returns the aligned write head is exactly that size.     *)
SizeExact ==
    /\ phase # "panic"
    /\ \A r \in regions : r.start + r.size <= bufLen
    /\ phase = "done" => AlignDefault(head) = bufLen

(* The inline writes of an encode_value stay inside the region its         *)
(* serialized_size reserved: the element cursor (bit-packed bools          *)
(* included) never passes the region's end into the next region.          *)
InlineWithinRegion ==
    \A r \in regions : r.used <= r.size
=============================================================================
