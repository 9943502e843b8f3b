------------------------------ MODULE FileView ------------------------------
(***************************************************************************)
(* What lib.rs promises a host: each call of the read API is one step that *)
(* answers from the pool as it was written, or names what kept it from an  *)
(* answer.  How the objects are found is not said here: a way to an object *)
(* is any sequence of objects, each of which names the next.               *)
(*                                                                         *)
(* world.objects maps <<object set, number>> to an object: whether it can  *)
(* be read, the ZAP in it (names to numbers, or NoZap), its bonus, and     *)
(* whether its data can be read.  Byte p of object o is <<o, p>>.          *)
(***************************************************************************)
EXTENDS Integers, Sequences, Outcome

CONSTANTS MAX_FILE_BYTES,
          ObjSpan, MidSpan,   \* a directory entry: type, unused bits, object
          Sets,               \* object sets of datasets
          NoZap, Absent

VARIABLES world, call, answer

Mos == "mos"
Obj(o) == world.objects[o]
Readable(o) == o \in DOMAIN world.objects /\ Obj(o).readable
HasZap(o) == Readable(o) /\ Obj(o).zap # NoZap
Has(o, n) == HasZap(o) /\ n \in DOMAIN Obj(o).zap
Lacks(o, n) == HasZap(o) /\ n \notin DOMAIN Obj(o).zap
Value(o, n) == Obj(o).zap[n]

\* A directory entry of type t for object number n.
IsEntry(v, t, n) == n \in 0 .. ObjSpan - 1 /\ \E m \in 0 .. MidSpan - 1 :
                      v = (t * MidSpan + m) * ObjSpan + n
KindOf(t) == CASE t = 4 -> "Directory" [] t = 8 -> "Regular" [] t = 10 -> "Symlink"
               [] OTHER -> "Other"
Types == 0 .. 15
In(set) == {set} \X (0 .. ObjSpan - 1)

\* s[k] is the DSL directory that the first k names of the dataset lead to.
IsDslDir(o) == Readable(o) /\ Obj(o).bonus.type = "dsl_dir"
ChildZap(o) == <<Mos, Obj(o).bonus.child_zap>>
DslWay(k, s) ==
  /\ Has(<<Mos, 1>>, "root_dataset") /\ s[0] = <<Mos, Value(<<Mos, 1>>, "root_dataset")>>
  /\ \A i \in 1 .. k : /\ IsDslDir(s[i - 1]) /\ Has(ChildZap(s[i - 1]), call.dataset[i])
                       /\ s[i] = <<Mos, Value(ChildZap(s[i - 1]), call.dataset[i])>>
DslEnds(k) == {s[k] : s \in {w \in [0 .. k -> In(Mos)] : DslWay(k, w)}}

HeadOf(d) == <<Mos, Obj(d).bonus.head>>
OpensAs(d, set) == /\ IsDslDir(d) /\ Obj(d).bonus.head # Absent
                   /\ Readable(HeadOf(d)) /\ Obj(HeadOf(d)).bonus.type = "dsl_dataset"
                   /\ Obj(HeadOf(d)).bonus.objset = set /\ set \in Sets
Datasets == {set \in Sets : \E d \in DslEnds(Len(call.dataset)) : OpensAs(d, set)}

\* s[k] is the object that the first k components of the path lead to.
FileWay(set, k, s) ==
  /\ Has(<<set, 1>>, "ROOT") /\ s[0] = <<set, Value(<<set, 1>>, "ROOT")>>
  /\ \A i \in 1 .. k : /\ Has(s[i - 1], call.path[i])
                       /\ \E t \in Types : IsEntry(Value(s[i - 1], call.path[i]), t, s[i][2])
FileEnds(set, k) == {s[k] : s \in {w \in [0 .. k -> In(set)] : FileWay(set, k, w)}}
\* The path ends at an entry of type x[1] for object x[2].
Final == call.path[Len(call.path)]
Named(d) == {x \in Types \X In(d[1]) : Has(d, Final) /\ IsEntry(Value(d, Final), x[1], x[2][2])}
Targets == IF call.path = <<>> THEN {}
           ELSE UNION {UNION {Named(d) : d \in FileEnds(set, Len(call.path) - 1)} : set \in Datasets}
OfType(T) == {x[2] : x \in {y \in Targets : y[1] \in T}}

\* The file size: the second attribute, after a header that says its own
\* length in words.
HasSize(o) == /\ Readable(o) /\ Obj(o).bonus.type = "sa"
              /\ Obj(o).bonus.header + 2 <= Len(Obj(o).bonus.words)
Size(o) == Obj(o).bonus.words[Obj(o).bonus.header + 2]
WholeFile(o) == [off |-> 0, n |-> Size(o)]
Window(o) == [off |-> call.off,
              n |-> IF call.off >= Size(o) THEN 0
                    ELSE IF call.len < Size(o) - call.off THEN call.len ELSE Size(o) - call.off]
Extent(o) == IF call.op = "read" THEN WholeFile(o) ELSE Window(o)
Bytes(o, e) == [k \in 1 .. e.n |-> <<o, e.off + k - 1>>]
Files == {o \in OfType({8}) : HasSize(o)}
-----------------------------------------------------------------------------
\* The directory that read_dir lists, and what it says of it.
Listed == IF call.path = <<>> THEN UNION {FileEnds(set, 0) : set \in Datasets} ELSE OfType({4})
Listing(v) == \E d \in Listed :
  /\ HasZap(d) /\ DOMAIN v = DOMAIN Obj(d).zap
  /\ \A n \in DOMAIN v : \E t \in Types : /\ v[n].kind = KindOf(t)
                                          /\ IsEntry(Value(d, n), t, v[n].object_id)
Stat(v) ==
  \/ call.path = <<>> /\ v = [kind |-> "Directory", size |-> 0] /\ Datasets # {}
  \/ \E x \in Targets :
       /\ v.kind = KindOf(x[1])
       /\ IF x[1] = 8 THEN HasSize(x[2]) /\ v.size = Size(x[2]) ELSE v.size = 0
Exists == \/ call.path = <<>> /\ Datasets # {}
          \/ \E x \in Targets : x[1] = 8 => HasSize(x[2])

\* A name is missing where the way so far has led.
Missing ==
  \/ Lacks(<<Mos, 1>>, "root_dataset")
  \/ \E k \in 0 .. Len(call.dataset) - 1 : \E d \in DslEnds(k) :
       IsDslDir(d) /\ Lacks(ChildZap(d), call.dataset[k + 1])
  \/ \E d \in DslEnds(Len(call.dataset)) : IsDslDir(d) /\ Obj(d).bonus.head = Absent
  \/ \E set \in Datasets :
       \/ Lacks(<<set, 1>>, "ROOT")
       \/ Has(<<set, 1>>, "ROOT") /\ call.path = <<>> /\ call.op \in {"read", "read_at"}
       \/ \E k \in 0 .. Len(call.path) - 1 : \E d \in FileEnds(set, k) : Lacks(d, call.path[k + 1])

\* An object on the way cannot be read, or is not what its place asks for.
Blocked ==
  \/ ~HasZap(<<Mos, 1>>)
  \/ \E k \in 0 .. Len(call.dataset) : \E d \in DslEnds(k) :
       \/ ~IsDslDir(d)
       \/ k < Len(call.dataset) /\ ~HasZap(ChildZap(d))
       \/ k = Len(call.dataset) /\ ~\E set \in Sets : OpensAs(d, set)
  \/ \E set \in Datasets :
       \/ ~HasZap(<<set, 1>>)
       \/ \E k \in 0 .. Len(call.path) - 1 : \E d \in FileEnds(set, k) : ~HasZap(d)
  \/ call.op = "read_dir" /\ \E d \in Listed : ~HasZap(d)
  \/ call.op # "read_dir" /\ \E o \in OfType({8}) : ~HasSize(o)
  \/ call.op \in {"read", "read_at"} /\ \E o \in Files : ~Obj(o).data

\* The promise.
Promised(r) ==
  \/ r.ok /\ CASE call.op = "read_dir" -> Listing(r.val)
               [] call.op = "stat" -> Stat(r.val)
               [] call.op = "exists" -> IF r.val THEN Exists ELSE Missing
               [] OTHER -> \E o \in Files :
                             Extent(o).n <= MAX_FILE_BYTES /\ r.val = Bytes(o, Extent(o))
  \/ r = NotFound /\ call.op # "exists" /\ Missing
  \/ r = NotADirectory /\ call.op = "read_dir" /\ OfType(Types \ {4}) # {}
  \/ r = NotARegularFile /\ call.op \in {"read", "read_at"} /\ OfType(Types \ {8}) # {}
  \/ r = FileTooLarge /\ call.op \in {"read", "read_at"}
                      /\ \E o \in Files : Extent(o).n > MAX_FILE_BYTES
  \/ IsErr(r) /\ r.kind \in {"Io", "Inconsistent", "UnsupportedFeature"} /\ Blocked

Init == answer = Pending
Answer == /\ answer = Pending /\ answer' # Pending /\ Promised(answer')
          /\ UNCHANGED <<world, call>>
Spec == Init /\ [][Answer]_<<world, call, answer>>
=============================================================================
