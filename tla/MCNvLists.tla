----------------------------- MODULE MCNvLists ------------------------------
(***************************************************************************)
(* Lists with values of every type, nested twice, whole and with any word  *)
(* of them replaced.  Encoded is what libnvpair writes.                    *)
(***************************************************************************)
EXTENDS NvLists, TLC

RECURSIVE EncodedList(_), ValueOf(_)
Concat(ss) == LET f[i \in 0..Len(ss)] == IF i = 0 THEN <<>> ELSE f[i - 1] \o ss[i] IN f[Len(ss)]
ValueOf(p) ==
  CASE p.type = Types.NvList -> EncodedList(p.val)
    [] p.type = Types.NvListArray -> Concat([i \in DOMAIN p.val |-> EncodedList(p.val[i])])
    [] p.type = Types.StringArray -> Concat(p.val)
    [] p.type \in is_fixed_width_array -> <<Len(p.val)>> \o Concat(p.val)
    [] OTHER -> p.val
Count(p) == IF p.type = Types.Boolean THEN 0
            ELSE IF p.type \in Arrays THEN Len(p.val)
            ELSE IF p.type = Types.ByteArray THEN p.val[1] ELSE 1
EncodedPair(p) ==
  LET v == ValueOf(p)
  IN <<4 * (4 + Len(p.name) + Len(v)), 64>> \o p.name \o <<p.type, Count(p)>> \o v
EncodedList(t) == <<0, 1>> \o Concat([i \in DOMAIN t |-> EncodedPair(t[i])]) \o <<0, 0>>

N(k) == <<4, 100 + k>>
Pair(k, type, val) == [name |-> N(k), type |-> Types[type], val |-> val]
U64(k, v) == Pair(k, "Uint64", <<0, v>>)
Str(k, v) == Pair(k, "String", <<4, v>>)

Numbers == <<Pair(1, "Boolean", <<>>), Pair(2, "Byte", <<200>>), Pair(3, "Int16", <<7>>), Pair(4, "Uint16", <<40000>>),
  Pair(5, "Int32", <<7>>), Pair(6, "Uint32", <<7>>), Pair(7, "Int64", <<1, 2>>), Pair(8, "HrTime", <<1, 2>>),
  Pair(9, "BooleanValue", <<1>>), Pair(10, "Int8", <<1>>), Pair(11, "Uint8", <<1>>), Pair(12, "Double", <<1, 2>>)>>
ArrayLists == <<Pair(1, "ByteArray", <<6, 1, 2>>), Pair(2, "Int16Array", <<<<1>>, <<2>>>>), Pair(3, "Uint64Array", <<<<0, 5>>, <<0, 6>>, <<0, 7>>>>),
  Pair(4, "StringArray", <<<<4, 70>>, <<5, 71, 72>>, <<0>>>>), Pair(5, "Uint32Array", <<>>), Pair(6, "BooleanArray", <<<<1>>, <<0>>>>)>>
OtherArrays == <<Pair(1, "Int8Array", <<<<1>>, <<2>>>>), Pair(2, "Uint8Array", <<<<3>>>>), Pair(3, "Uint16Array", <<<<4>>, <<5>>>>),
  Pair(4, "Int32Array", <<<<6>>>>), Pair(5, "Int64Array", <<<<0, 7>>, <<1, 8>>>>)>>
Nested == <<U64(1, 9), Pair(2, "NvList", <<Pair(3, "Boolean", <<>>), Pair(4, "NvList", <<U64(5, 6)>>)>>),
  Pair(6, "NvListArray", <<<<U64(1, 2)>>, <<>>, <<Str(2, 70), Pair(3, "Boolean", <<>>)>>>>), Str(7, 71)>>

Xdr == [encoding |-> "Xdr", endian |-> "Little", reserved |-> 0]
Doc(t, h) == [header |-> h, words |-> EncodedList(t), tree |-> t, hurt |-> NoWord, kind |-> "list"]
Trees == {Numbers, ArrayLists, OtherArrays, Nested, <<>>}
Whole == {Doc(t, Xdr) : t \in Trees}
         \cup {Doc(Nested, [Xdr EXCEPT !.encoding = e, !.endian = o, !.reserved = r]) :
                 e \in {"Native", "Xdr", "other"}, o \in {"Big", "other"}, r \in {0, 1}}
Junk == 999
MCNotText == {Junk}
Values(w) == {0, 1, 3, 10, 19, 20, 28, 1000000, Junk, w - 4, w + 4, w + 1} \ ({w} \cup {-4, -3, -2, -1})
DamagedDocs ==
  UNION {UNION {{[d EXCEPT !.words[i] = x, !.hurt = i - 1] : x \in Values(d.words[i])} :
                  i \in DOMAIN d.words} : d \in {Doc(t, Xdr) : t \in Trees}}
MCDocs == Whole \cup DamagedDocs
=============================================================================
