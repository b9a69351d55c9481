---------------------------- MODULE MojomLayout ----------------------------
(***************************************************************************)
(* The inline layout of one mojom struct region: the fields of a struct   *)
(* are written one after the other by an EncodingState cursor and read     *)
(* back, in the same order, by a DecoderState cursor over the same bytes. *)
(*                                                                         *)
(* The per-type encode/decode paths are those of bindings/mojom.rs:        *)
(* primitives, bools (bit-packed), handles (an index), pointers, nullable *)
(* wrappers (Option<T>, a null sentinel chosen by the mojom type) and      *)
(* unions, inline (a 16-byte cell) or, inside another union's payload,     *)
(* nested (a pointer to a 16-byte region).  The cursor primitives          *)
(* (align_to_byte, align_to_bytes, encode<T>, encode_bool, the skip_if_null *)
(* helpers) live in encoding.rs / decoding.rs, which are not part of the   *)
(* sources, and are modelled from the spec (sections 4.1 and 4.3).         *)
(*                                                                         *)
(* A cursor is [off |-> byte offset from the region base, bit |-> bit      *)
(* offset in that byte].  A struct region starts with its 8-byte header,   *)
(* so both cursors start at offset 8.  A field value is a record           *)
(*   [ty |-> mojom type, opt |-> nullable?, null |-> absent?,              *)
(*    pay |-> <<payload field>> for a union, <<>> otherwise].              *)
(***************************************************************************)
EXTENDS Integers, Sequences, FiniteSets

CONSTANTS
  Schemas     \* the struct values to encode: sequences of field records

PrimWidth == [u8 |-> 1, u32 |-> 4, u64 |-> 8]
PrimTypes == DOMAIN PrimWidth

VARIABLES
  fields,   \* the struct value being serialized
  phase,    \* "encode", "decode" or "done"
  enc,      \* the EncodingState cursor
  i,        \* next field the encoder writes
  wire,     \* the bytes written: a set of [off, len, val] atoms
  encPos,   \* encPos[k]: where the encoder put field k (and its payload)
  cells,    \* the inline union cells the encoder wrote: [lo, hi]
  dec,      \* the DecoderState cursor
  decPos,   \* decPos[k]: where the decoder read field k (and its payload)
  decNull   \* decNull[k]: whether the decoder decoded field k as absent

vars == <<fields, phase, enc, i, wire, encPos, cells, dec, decPos, decNull>>

Cursor == [off : Nat, bit : 0 .. 7]

RoundUp(x, n) == ((x + n - 1) \div n) * n

(***************************************************************************)
(* EncodingState cursor primitives (encoding.rs, spec section 4.1).       *)
(***************************************************************************)
AlignToByte(c) == IF c.bit > 0 THEN [off |-> c.off + 1, bit |-> 0] ELSE c

AlignToBytes(c, n) == [c EXCEPT !.off = RoundUp(c.off, n)]

\* The result of encoding something: the cursor after it, the positions of
\* its parts, the bytes it wrote and the inline union cells it produced.
Res(cur, pos, atoms, cl) == [cur |-> cur, pos |-> pos, atoms |-> atoms, cells |-> cl]

\* encode<T>(v): re-align to a byte, then to sizeof(T), write n bytes.
Write(c, n, v) ==
  LET a == AlignToBytes(AlignToByte(c), n)
  IN  Res([off |-> a.off + n, bit |-> 0], <<[off |-> a.off, bit |-> 0]>>,
          {[off |-> a.off, len |-> n, val |-> v]}, {})

\* encode_bool(b): one bit at the bit cursor.
WriteBool(c) ==
  Res(IF c.bit = 7 THEN [off |-> c.off + 1, bit |-> 0] ELSE [c EXCEPT !.bit = @ + 1],
      <<c>>, {[off |-> c.off, len |-> 1, val |-> "data"]}, {})

\* Two writes in a row; the parts are located by the first one.
Then(r, s) == Res(s.cur, r.pos, r.atoms \cup s.atoms, r.cells \cup s.cells)

\* encode_null_union: 16 zero bytes; encode_null_handle: u32::MAX.
NullUnion(c) == LET h == Write(c, 8, "zero") IN Then(h, Write(h.cur, 8, "zero"))

(***************************************************************************)
(* Encode paths of bindings/mojom.rs.                                      *)
(***************************************************************************)
EncPrim(c, f) == Write(c, PrimWidth[f.ty], "data")

EncBool(c) == WriteBool(c)

\* Mutant: the handle index written with the wrong width.
EncHandleNarrow(c) == Write(c, 2, "data")

\* A handle is appended to the handle vector and its index written as i32.
EncHandle(c) == Write(c, 4, "data")

\* A pointer type writes the relative offset of the region encode_new made.
EncPointer(c) == Write(c, 8, "data")

\* An interface is {handle index, u32 version}.
EncInterface(c) == LET h == Write(c, 4, "data") IN Then(h, Write(h.cur, 4, "data"))

\* Mutant: a null handle written as zero instead of u32::MAX.
EncNoneZeroHandle(c, ty) ==
  CASE ty = "ptr"    -> Write(c, 8, "zero")
    [] ty = "union"  -> NullUnion(c)
    [] ty = "handle" -> Write(c, 4, "zero")
    [] ty = "iface"  -> LET h == Write(c, 4, "ones") IN Then(h, Write(h.cur, 4, "zero"))

\* Option<T>::encode of None: the null sentinel chosen by T::mojom_type().
EncNone(c, ty) ==
  CASE ty = "ptr"    -> Write(c, 8, "zero")
    [] ty = "union"  -> NullUnion(c)
    [] ty = "handle" -> Write(c, 4, "ones")
    [] ty = "iface"  -> LET h == Write(c, 4, "ones") IN Then(h, Write(h.cur, 4, "zero"))

\* encode_union_nested: a 16-byte region is added and a pointer to it is
\* written inline; the region's own contents are not part of this region.
EncUnionNested(c) == Write(c, 8, "data")

RECURSIVE EncField(_, _, _)

\* Mutant: the union cell not aligned to 8 before its size is written.
EncUnionInlineNoAlign(c, f) ==
  LET sz == Write(c, 4, "data")
      tg == Write(sz.cur, 4, "data")
      pl == EncField(tg.cur, f.pay[1], TRUE)
      hi == pl.cur.off + (IF pl.cur.bit > 0 THEN 1 ELSE 0)
  IN  Res(AlignToByte(AlignToBytes(pl.cur, 8)),
          sz.pos \o <<pl.pos[1]>>,
          sz.atoms \cup tg.atoms \cup pl.atoms,
          pl.cells \cup {[lo |-> sz.pos[1].off, hi |-> hi]})

\* encode_union_inline: align to 8, size and tag, then the payload, which the
\* union's encode_value writes in a union context, then re-align.
EncUnionInline(c, f) ==
  LET sz == Write(AlignToBytes(c, 8), 4, "data")
      tg == Write(sz.cur, 4, "data")
      pl == EncField(tg.cur, f.pay[1], TRUE)
      hi == pl.cur.off + (IF pl.cur.bit > 0 THEN 1 ELSE 0)
  IN  Res(AlignToByte(AlignToBytes(pl.cur, 8)),
          sz.pos \o <<pl.pos[1]>>,
          sz.atoms \cup tg.atoms \cup pl.atoms,
          pl.cells \cup {[lo |-> sz.pos[1].off, hi |-> hi]})

\* Mutant: a union encoded inline whatever the context's is_union flag.
EncFieldNoContext(c, f, inU) ==
  IF f.opt /\ f.null THEN EncNone(c, f.ty)
  ELSE CASE f.ty \in PrimTypes -> EncPrim(c, f)
         [] f.ty = "bool"      -> EncBool(c)
         [] f.ty = "handle"    -> EncHandle(c)
         [] f.ty = "ptr"       -> EncPointer(c)
         [] f.ty = "iface"     -> EncInterface(c)
         [] f.ty = "union"     -> EncUnionInline(c, f)

\* T::encode for a field of type f in a context whose is_union flag is inU.
EncField(c, f, inU) ==
  IF f.opt /\ f.null THEN EncNone(c, f.ty)
  ELSE CASE f.ty \in PrimTypes      -> EncPrim(c, f)
         [] f.ty = "bool"           -> EncBool(c)
         [] f.ty = "handle"         -> EncHandle(c)
         [] f.ty = "ptr"            -> EncPointer(c)
         [] f.ty = "iface"          -> EncInterface(c)
         [] f.ty = "union" /\ inU   -> EncUnionNested(c)
         [] f.ty = "union" /\ ~inU  -> EncUnionInline(c, f)

(***************************************************************************)
(* DecoderState cursor primitives (decoding.rs, spec section 4.3).         *)
(***************************************************************************)
DAlignToByte(d) == IF d.bit > 0 THEN [off |-> d.off + 1, bit |-> 0] ELSE d

DAlignToBytes(d, n) == [d EXCEPT !.off = RoundUp(d.off, n)]

\* decode<T>(): re-align like encode<T> and read n bytes.
Read(d, n) ==
  LET a == DAlignToBytes(DAlignToByte(d), n)
  IN  [cur |-> [off |-> a.off + n, bit |-> 0], pos |-> <<[off |-> a.off, bit |-> 0]>>]

ReadBool(d) ==
  [cur |-> IF d.bit = 7 THEN [off |-> d.off + 1, bit |-> 0] ELSE [d EXCEPT !.bit = @ + 1],
   pos |-> <<d>>]

\* The buffer is zero-filled: bytes nobody wrote read as zero.
ZeroAt(w, o, n) == \A a \in w : a.off + a.len <= o \/ o + n <= a.off \/ a.val = "zero"

OnesAt(w, o) == \E a \in w : a.off = o /\ a.val = "ones"

\* skip_if_null_{pointer,union,handle,interface}: peek the aligned inline
\* field; on the null sentinel step over it and report it skipped.
SkipIfNull(w, d, ty) ==
  LET n  == IF ty \in {"ptr", "union"} THEN 8 ELSE 4
      a  == DAlignToBytes(DAlignToByte(d), n)
      sk == IF ty \in {"ptr", "union"} THEN ZeroAt(w, a.off, 8) ELSE OnesAt(w, a.off)
      wd == CASE ty = "ptr" -> 8 [] ty = "union" -> 16 [] ty = "handle" -> 4 [] ty = "iface" -> 8
  IN  [skipped |-> sk, cur |-> [off |-> a.off + wd, bit |-> 0], pos |-> <<a>>]

DecPrim(d, f) == Read(d, PrimWidth[f.ty])

DecBool(d) == ReadBool(d)

\* The handle index is read as i32 (claim_handle is MojomHandles' concern).
DecHandle(d) == Read(d, 4)

\* decode_pointer; the claimed region is not part of this region.
DecPointer(d) == Read(d, 8)

DecInterface(d) == LET h == Read(d, 4) IN [cur |-> Read(h.cur, 4).cur, pos |-> h.pos]

\* decode_union_nested reads the pointer to the union's own region.
DecUnionNested(d) == Read(d, 8)

RECURSIVE DecField(_, _, _, _)

\* decode_union_inline: align to a byte then to 8, the union's decode_value
\* reads size, tag and the payload (in a union context), then re-align.
DecUnionInline(w, d, f) ==
  LET sz == Read(DAlignToBytes(DAlignToByte(d), 8), 4)
      tg == Read(sz.cur, 4)
      pl == DecField(w, tg.cur, f.pay[1], TRUE)
  IN  [cur |-> DAlignToBytes(DAlignToByte(pl.cur), 8), pos |-> sz.pos \o <<pl.pos[1]>>]

\* T::decode for a field of type f; Option<T>::decode when f.opt: the
\* decoder knows the type, never the value, and asks the wire.
DecField(w, d, f, inU) ==
  LET sk   == SkipIfNull(w, d, f.ty)
      some == CASE f.ty \in PrimTypes     -> DecPrim(d, f)
                [] f.ty = "bool"          -> DecBool(d)
                [] f.ty = "handle"        -> DecHandle(d)
                [] f.ty = "ptr"           -> DecPointer(d)
                [] f.ty = "iface"         -> DecInterface(d)
                [] f.ty = "union" /\ inU  -> DecUnionNested(d)
                [] f.ty = "union" /\ ~inU -> DecUnionInline(w, d, f)
  IN  IF f.opt /\ sk.skipped THEN [cur |-> sk.cur, pos |-> sk.pos, null |-> TRUE]
      ELSE [cur |-> some.cur, pos |-> some.pos, null |-> FALSE]

(***************************************************************************)
(* The state machine: MojomStruct::serialize writes the fields in order,  *)
(* MojomStruct::deserialize reads them back in order.                      *)
(***************************************************************************)
Init ==
  /\ fields \in Schemas
  /\ phase = "encode"
  /\ enc = [off |-> 8, bit |-> 0]
  /\ i = 1
  /\ wire = {}
  /\ encPos = <<>>
  /\ cells = {}
  /\ dec = [off |-> 8, bit |-> 0]
  /\ decPos = <<>>
  /\ decNull = <<>>

Cur == fields[i]

Present(f) == ~(f.opt /\ f.null)

Encoding == phase = "encode" /\ i <= Len(fields)

Emit(r) ==
  /\ enc' = r.cur
  /\ wire' = wire \cup r.atoms
  /\ encPos' = Append(encPos, r.pos)
  /\ cells' = cells \cup r.cells
  /\ i' = i + 1
  /\ UNCHANGED <<fields, phase, dec, decPos, decNull>>

EncodePrim      == Encoding /\ Cur.ty \in PrimTypes /\ Emit(EncPrim(enc, Cur))
EncodeBoolField == Encoding /\ Cur.ty = "bool" /\ Emit(EncBool(enc))
EncodeHandle    == Encoding /\ Cur.ty = "handle" /\ Present(Cur) /\ Emit(EncHandle(enc))
EncodePointer   == Encoding /\ Cur.ty = "ptr" /\ Present(Cur) /\ Emit(EncPointer(enc))
EncodeInterface == Encoding /\ Cur.ty = "iface" /\ Present(Cur) /\ Emit(EncInterface(enc))
EncodeNone      == Encoding /\ ~Present(Cur) /\ Emit(EncNone(enc, Cur.ty))
EncodeUnion     == Encoding /\ Cur.ty = "union" /\ Present(Cur) /\ Emit(EncUnionInline(enc, Cur))

\* The encoder is done; the decoder claims the root region and its
\* decode_struct_header leaves the cursor after the 8-byte header.
StartDecode ==
  /\ phase = "encode" /\ i > Len(fields)
  /\ phase' = "decode"
  /\ UNCHANGED <<fields, enc, i, wire, encPos, cells, dec, decPos, decNull>>

Next1 == fields[Len(decPos) + 1]

Decoding == phase = "decode" /\ Len(decPos) < Len(fields)

Take(r, null) ==
  /\ dec' = r.cur
  /\ decPos' = Append(decPos, r.pos)
  /\ decNull' = Append(decNull, null)
  /\ UNCHANGED <<fields, phase, enc, i, wire, encPos, cells>>

DecodePrim      == Decoding /\ ~Next1.opt /\ Next1.ty \in PrimTypes /\ Take(DecPrim(dec, Next1), FALSE)
DecodeBoolField == Decoding /\ ~Next1.opt /\ Next1.ty = "bool" /\ Take(DecBool(dec), FALSE)
DecodeHandle    == Decoding /\ ~Next1.opt /\ Next1.ty = "handle" /\ Take(DecHandle(dec), FALSE)
DecodePointer   == Decoding /\ ~Next1.opt /\ Next1.ty = "ptr" /\ Take(DecPointer(dec), FALSE)
DecodeInterface == Decoding /\ ~Next1.opt /\ Next1.ty = "iface" /\ Take(DecInterface(dec), FALSE)
DecodeUnion     == Decoding /\ ~Next1.opt /\ Next1.ty = "union" /\ Take(DecUnionInline(wire, dec, Next1), FALSE)
DecodeOption    == Decoding /\ Next1.opt /\ LET r == DecField(wire, dec, Next1, FALSE) IN Take(r, r.null)

FinishDecode ==
  /\ phase = "decode" /\ Len(decPos) = Len(fields)
  /\ phase' = "done"
  /\ UNCHANGED <<fields, enc, i, wire, encPos, cells, dec, decPos, decNull>>

Next ==
  \/ EncodePrim \/ EncodeBoolField \/ EncodeHandle \/ EncodePointer
  \/ EncodeInterface \/ EncodeNone \/ EncodeUnion \/ StartDecode
  \/ DecodePrim \/ DecodeBoolField \/ DecodeHandle \/ DecodePointer
  \/ DecodeInterface \/ DecodeUnion \/ DecodeOption \/ FinishDecode

Spec == Init /\ [][Next]_vars

(***************************************************************************)
(* Properties.                                                             *)
(***************************************************************************)
TypeOK ==
  /\ phase \in {"encode", "decode", "done"}
  /\ enc \in Cursor /\ dec \in Cursor
  /\ i \in 1 .. Len(fields) + 1
  /\ wire \subseteq [off : Nat, len : {1, 4, 8}, val : {"data", "zero", "ones"}]
  /\ cells \subseteq [lo : Nat, hi : Nat]
  /\ Len(encPos) = i - 1 /\ Len(decPos) <= Len(encPos)
  /\ decNull \in Seq(BOOLEAN) /\ Len(decNull) = Len(decPos)

\* Encode/decode symmetry (mojom.rs encode_union_inline vs
\* decode_union_inline, bools against every other field): every field, and
\* the payload of every union, is read by the decoder at exactly the byte
\* and bit where the encoder wrote it.
EncodeDecodeAgree ==
  \A k \in 1 .. Len(decPos) : decPos[k] = encPos[k]

\* Nullable round trip (Option<T>::encode / Option<T>::decode): the decoder
\* finds a field absent exactly when the encoder wrote the null sentinel of
\* that field's mojom type.
NullRoundTrip ==
  \A k \in 1 .. Len(decNull) : decNull[k] = ~Present(fields[k])

\* Union cells (encode_union_inline, Option<union>::encode in a union
\* payload): every inline union cell starts 8-byte aligned and everything it
\* holds, payload included, stays within its 16 bytes.
UnionCellBound ==
  \A c \in cells : c.lo % 8 = 0 /\ c.hi <= c.lo + 16

=============================================================================
