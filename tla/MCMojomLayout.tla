--------------------------- MODULE MCMojomLayout ---------------------------
(***************************************************************************)
(* Model-checking instance of MojomLayout: every struct of up to MaxFields *)
(* fields drawn from the field values below, each a type the generated     *)
(* code can hold (Option only around pointer, union, handle and interface *)
(* types: Option of a simple type panics in Option<T>::encode).           *)
(***************************************************************************)
EXTENDS MojomLayout

MaxFields == 3

Leaf(t) == [ty |-> t, opt |-> FALSE, null |-> FALSE, pay |-> <<>>]
Opt(t, n) == [ty |-> t, opt |-> TRUE, null |-> n, pay |-> <<>>]
Union(p) == [ty |-> "union", opt |-> FALSE, null |-> FALSE, pay |-> <<p>>]
OptUnion(n) == [ty |-> "union", opt |-> TRUE, null |-> n, pay |-> <<Leaf("u32")>>]

\* What a union's payload can be: its variant, written in a union context.
Payloads ==
  {Leaf(t) : t \in {"bool", "u32", "u64", "handle"}}
  \cup {Union(Leaf("u32")), OptUnion(FALSE), OptUnion(TRUE), Opt("ptr", TRUE)}

FieldValues ==
  {Leaf(t) : t \in {"u8", "u32", "u64", "bool", "handle", "ptr", "iface"}}
  \cup {Opt(t, n) : t \in {"ptr", "handle", "iface"}, n \in BOOLEAN}
  \cup {Union(p) : p \in Payloads}
  \cup {OptUnion(n) : n \in BOOLEAN}

AllSchemas == UNION {[1 .. n -> FieldValues] : n \in 1 .. MaxFields}

\* A union whose payload bit-packs a bool, or whose payload is an absent
\* nested union; and a union right after a bool.
BoolPayload(f) == f.ty = "union" /\ f.pay # <<>> /\ f.pay[1].ty = "bool"
NullNested(f) == f.ty = "union" /\ f.pay # <<>> /\ f.pay[1].ty = "union" /\ f.pay[1].opt /\ f.pay[1].null

BoolBeforeUnion(s) ==
  \E k \in 1 .. Len(s) - 1 : s[k].ty = "bool" /\ s[k + 1].ty = "union" /\ Present(s[k + 1])

SafeSchemas ==
  {s \in AllSchemas : ~BoolBeforeUnion(s) /\ \A k \in DOMAIN s : ~BoolPayload(s[k]) /\ ~NullNested(s[k])}

\* The structs that exhibit each of the three cases excluded above.
BoolBeforeUnionSchemas == {s \in AllSchemas : BoolBeforeUnion(s)}
BoolPayloadSchemas == {s \in AllSchemas : \E k \in DOMAIN s : BoolPayload(s[k])}
NullNestedSchemas == {s \in AllSchemas : \E k \in DOMAIN s : NullNested(s[k])}
=============================================================================
