---------------------------- MODULE MCMojomDecode ----------------------------
(***************************************************************************)
(* Root values for MojomDecode: Vec<String>, Vec<Option<String>>,          *)
(* Vec<Vec<bool>> and HashMap<u8, String> of up to two elements, strings   *)
(* of length 0..2, so that every pointer slot kind, packed bools and a    *)
(* map's two arrays occur, each with every alteration the peer may make.   *)
(***************************************************************************)
EXTENDS MojomDecode

Ty(kind, e) == [k |-> kind, e |-> e, key |-> NoType, val |-> NoType]
U8   == Ty("u8", NoType)
Bool == Ty("bool", NoType)
StrT == Ty("str", NoType)

V(t, n, some, elems, keys, vals) ==
  [t |-> t, n |-> n, some |-> some, elems |-> elems, keys |-> keys, vals |-> vals]

Str(n) == V(StrT, n, FALSE, <<>>, <<>>, <<>>)
Strs   == {Str(n) : n \in 0 .. 2}
UpTo2(S) == {<<>>} \cup {<<x>> : x \in S} \cup {<<x, y>> : x, y \in S}
Vecs(t, S) == {V(Ty("vec", t), 0, FALSE, s, <<>>, <<>>) : s \in UpTo2(S)}

OptStrs == {V(Ty("opt", StrT), 0, FALSE, <<>>, <<>>, <<>>)}
             \cup {V(Ty("opt", StrT), 0, TRUE, <<s>>, <<>>, <<>>) : s \in {Str(1)}}

BoolVecs == Vecs(Bool, {V(Bool, 0, FALSE, <<>>, <<>>, <<>>)})

Maps == {V([k |-> "map", e |-> NoType, key |-> U8, val |-> StrT], 0, FALSE, <<>>, ks, vs) :
           <<ks, vs>> \in {<<<<>>, <<>>>>,
                           <<<<V(U8, 0, FALSE, <<>>, <<>>, <<>>)>>, <<Str(1)>>>>}}

MCRoots == Vecs(StrT, {Str(0), Str(2)}) \cup Vecs(Ty("opt", StrT), OptStrs)
             \cup Vecs(Ty("vec", Bool), {b \in BoolVecs : Len(b.elems) = 1}) \cup Maps
=============================================================================
