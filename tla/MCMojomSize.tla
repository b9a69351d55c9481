----------------------------- MODULE MCMojomSize -----------------------------
(***************************************************************************)
(* Root values for MojomSize: arrays, strings and maps nested two deep,    *)
(* with element counts 0..2 and string lengths 0..3, so that packed        *)
(* bools, unaligned strings, absent pointers and a map's two arrays all    *)
(* occur, alone and next to each other.                                    *)
(***************************************************************************)
EXTENDS MojomSize

T(kind) == [k |-> kind, e |-> "none", key |-> "none", val |-> "none"]
VecOf(e) == [k |-> "vec", e |-> e, key |-> "none", val |-> "none"]
OptOf(e) == [k |-> "opt", e |-> e, key |-> "none", val |-> "none"]
MapOf(kt, vt) == [k |-> "map", e |-> "none", key |-> kt, val |-> vt]

V(t, n, some, elems, keys, vals) ==
    [t |-> t, n |-> n, some |-> some, elems |-> elems, keys |-> keys, vals |-> vals]

Inline(kind) == V(T(kind), 0, FALSE, <<>>, <<>>, <<>>)
Str(n) == V(T("str"), n, FALSE, <<>>, <<>>, <<>>)
Strs == {Str(n) : n \in 0..3}

\* Sequences of length 0..2 over a set.
UpTo2(S) == {<<>>} \cup {<<x>> : x \in S} \cup {<<x, y>> : x, y \in S}

Vecs(t, S) == {V(VecOf(t), 0, FALSE, s, <<>>, <<>>) : s \in UpTo2(S)}

OptStrs == {V(OptOf(T("str")), 0, FALSE, <<>>, <<>>, <<>>)}
             \cup {V(OptOf(T("str")), 0, TRUE, <<s>>, <<>>, <<>>) : s \in Strs}

\* Leaf arrays: of each inline width, of packed bools, of strings.
Leaves ==
    Vecs(T("u8"), {Inline("u8")}) \cup Vecs(T("u32"), {Inline("u32")})
      \cup Vecs(T("u64"), {Inline("u64")})
      \cup Vecs(T("bool"), {Inline("bool")}) \cup Vecs(T("str"), Strs)
      \cup Vecs(OptOf(T("str")), OptStrs)

\* Maps from u8 to u32 and to String.
Maps(vt, S) ==
    {V(MapOf(T("u8"), vt), 0, FALSE, <<>>, ks, vs) :
        ks \in {<<>>, <<Inline("u8")>>, <<Inline("u8"), Inline("u8")>>},
        vs \in UpTo2(S)}
MapRoots ==
    {m \in Maps(T("u32"), {Inline("u32")}) \cup Maps(T("str"), Strs) :
        Len(m.keys) = Len(m.vals)}

\* Arrays of arrays: of u8 arrays, of bool arrays.
Nested ==
    Vecs(VecOf(T("u8")), Vecs(T("u8"), {Inline("u8")}))
      \cup Vecs(VecOf(T("bool")), Vecs(T("bool"), {Inline("bool")}))

MCRoots == Leaves \cup MapRoots \cup Nested
=============================================================================
