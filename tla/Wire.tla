-------------------------------- MODULE Wire --------------------------------
(***************************************************************************)
(* The bytes of an on-disk record and the numbers in it (phys/binary.rs).  *)
(* A number is the set of its bits that are one, so that 64-bit words are  *)
(* exact; the data of a record is the set of its bits that are one (bit    *)
(* 8*i + j is bit j of byte i) and the number of its bytes.                *)
(***************************************************************************)
EXTENDS Integers, Sequences

Orders == {"Big", "Little"}
None == [none |-> TRUE]
Ok(v) == [ok |-> TRUE, val |-> v]
Err(e) == [ok |-> FALSE, err |-> e]
Data(bits, len) == [bits |-> bits, len |-> len]

\* The bit of the data that holds bit b of a number of n bytes at byte `at`.
BigPlace(at, n, b) == 8 * (at + n - 1 - (b \div 8)) + (b % 8)
LittlePlace(at, n, b) == 8 * at + b
Place(order, at, n, b) ==
  IF order = "Little" THEN LittlePlace(at, n, b) ELSE BigPlace(at, n, b)

get_uint(order, bits, at, n) ==
  {b \in 0..(8 * n - 1) : Place(order, at, n, b) \in bits}
put_uint(order, at, n, v) == {Place(order, at, n, b) : b \in v}
get_bytes(bits, at, n) == {c - 8 * at : c \in {c \in bits : 8 * at <= c /\ c < 8 * (at + n)}}
ByteAt(bits, i) == get_bytes(bits, i, 1)
\* from_utf8: a byte of 128 or more belongs to a sequence of such bytes; one
\* that stands alone is refused.
Utf8(bits, length) ==
  \A i \in 0..(length - 1) : 7 \in ByteAt(bits, i) =>
    \E j \in {i - 1, i + 1} : j \in 0..(length - 1) /\ 7 \in ByteAt(bits, j)
put_bytes(at, v) == {8 * at + b : b \in v}

\* Shifts and masks: n bits of w from bit lo on, and v moved up to bit lo.
Field(w, lo, n) == {b \in 0..(n - 1) : lo + b \in w}
At(v, lo) == {lo + b : b \in v}
Flag(on, bit) == IF on THEN {bit} ELSE {}
Fits(v, n) == v \subseteq 0..(n - 1)

BitsOf(k) == {b \in 0..30 : (k \div 2^b) % 2 = 1}
ValueOf(v) ==
  LET sum[i \in 0..31] == IF i = 0 THEN 0
        ELSE sum[i - 1] + (IF i - 1 \in v THEN 2^(i - 1) ELSE 0)
  IN sum[31]
\* v + 1 and v - 1 (v not zero), with carry and borrow.
PlusOne(v) ==
  LET k == CHOOSE k \in 0..64 : k \notin v /\ (0..(k - 1)) \subseteq v
  IN {k} \cup {b \in v : b > k}
MinusOne(v) ==
  LET k == CHOOSE k \in v : \A b \in v : k <= b
  IN (0..(k - 1)) \cup {b \in v : b > k}
-----------------------------------------------------------------------------
(***************************************************************************)
(* Records.  A decoder reads, and an encoder writes, fields one after the  *)
(* other: numbers in the byte order of the record, raw bytes, nested       *)
(* records and bytes that must be zero.  A field list is the sequence of   *)
(* those calls, a layout the place it gives each field.                    *)
(***************************************************************************)
Nums(n, names) == [i \in 1..Len(names) |-> [name |-> names[i], n |-> n, kind |-> "num"]]
U64(names) == Nums(8, names)
U32(name) == Nums(4, <<name>>)
U16(name) == Nums(2, <<name>>)
U8(name) == Nums(1, <<name>>)
Raw(name, n) == <<[name |-> name, n |-> n, kind |-> "raw"]>>
Rec(name, n) == <<[name |-> name, n |-> n, kind |-> "rec"]>>
Zeros(name, n) == <<[name |-> name, n |-> n, kind |-> "zero"]>>

Layout(fields) ==
  LET start[i \in 1..(Len(fields) + 1)] ==
        IF i = 1 THEN 0 ELSE start[i - 1] + fields[i - 1].n
      index(x) == CHOOSE i \in DOMAIN fields : fields[i].name = x
  IN [x \in {fields[i].name : i \in DOMAIN fields} |->
        [at |-> start[index(x)], n |-> fields[index(x)].n, kind |-> fields[index(x)].kind]]

EndOf(p) == p.at + p.n
SizeOf(lay) == CHOOSE s \in {EndOf(lay[x]) : x \in DOMAIN lay} :
                 \A x \in DOMAIN lay : EndOf(lay[x]) <= s
get_field(order, bits, p) ==
  IF p.kind = "num" THEN get_uint(order, bits, p.at, p.n) ELSE get_bytes(bits, p.at, p.n)
put_field(order, p, v) ==
  IF p.kind = "num" THEN put_uint(order, p.at, p.n, v) ELSE put_bytes(p.at, v)
Emit(order, lay, rec) ==
  UNION {put_field(order, lay[x], rec[x]) : x \in {y \in DOMAIN lay : lay[y].kind # "zero"}}

\* The bytes a nested decoder is left with at a field: no more than there are.
Slice(d, p) ==
  Data(get_bytes(d.bits, p.at, p.n),
       IF d.len <= p.at THEN 0 ELSE IF d.len < EndOf(p) THEN d.len - p.at ELSE p.n)

\* Records inside a record, each read by its decoder.
Nested(order, d, lay, names, From(_, _)) == [x \in names |-> From(order, Slice(d, lay[x]))]
NoRecords == <<>>
Fields(order, d, lay, nested) ==
  [x \in DOMAIN lay |-> IF x \in DOMAIN nested THEN nested[x] ELSE get_field(order, d.bits, lay[x])]

\* A decoder stops at its first failure.  A check is made once its field is
\* read, that of a nested record once the fields before it are; reading past
\* the end and a padding byte that is not zero are errors of the buffer.
Check(field, err, fails) == [field |-> field, err |-> err, fails |-> fails]
FirstFailure(d, lay, checks, v) ==
  LET made(p) == IF p.kind = "rec" THEN p.at <= d.len ELSE EndOf(p) <= d.len
      bad == {i \in DOMAIN checks : checks[i].fails /\ made(lay[checks[i].field])}
      dirty == {x \in DOMAIN lay : /\ lay[x].kind = "zero" /\ EndOf(lay[x]) <= d.len
                                   /\ get_bytes(d.bits, lay[x].at, lay[x].n) # {}}
      first == CHOOSE i \in bad : \A j \in bad : i <= j
  IN IF bad # {} /\ \A x \in dirty : EndOf(lay[checks[first].field]) < EndOf(lay[x])
     THEN Err(checks[first].err)
     ELSE IF dirty # {} \/ d.len < SizeOf(lay) THEN Err("Binary") ELSE Ok(v)
\* The fields r of the record go to its checks and to its value.
Judged(d, lay, r, Checks(_), Value(_)) == FirstFailure(d, lay, Checks(r), Value(r))
Decoded(order, d, lay, nested, Checks(_), Value(_)) ==
  Judged(d, lay, Fields(order, d, lay, nested), Checks, Value)

\* An encoder stops at its first refusal, and otherwise writes its fields;
\* those of nested records are what the encoders of these returned.
Refusal(err, fails) == [err |-> err, fails |-> fails]
Encoded(order, refusals, lay, rec) ==
  LET bad == {i \in DOMAIN refusals : refusals[i].fails}
  IN IF bad # {} THEN Err(refusals[CHOOSE i \in bad : \A j \in bad : i <= j].err)
     ELSE Ok(Data(Emit(order, lay, rec), SizeOf(lay)))
Written(o) == IF o.ok THEN o.val.bits ELSE {}
EncodedAround(order, nested, Refusals(_), lay, rec) ==
  Encoded(order, Refusals(nested), lay,
    [x \in DOMAIN lay |-> IF x \in DOMAIN nested THEN nested[x].val.bits
                          ELSE IF lay[x].kind = "zero" THEN {} ELSE rec[x]])
=============================================================================
