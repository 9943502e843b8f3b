-------------------------- MODULE PathLookupProofs --------------------------
(***************************************************************************)
(* PathLookup implements FileView: whatever the pool and the call, every   *)
(* answer of the step by step lookup is one that FileView promises.        *)
(***************************************************************************)
EXTENDS PathLookup, TLAPS

\* s is what is left of whole after its first k members.
Suffix(s, whole, k) == /\ s \in Seq(Components) /\ Len(s) = Len(whole) - k
                       /\ \A i \in 1 .. Len(s) : s[i] = whole[k + i]

\* The lookup is at an object to which FileView's ways lead.
PathInv ==
  /\ world \in Worlds /\ call \in PathCalls
  /\ pc # "done" => result = Pending
  /\ pc = "objdir" => names = call.dataset
  /\ pc = "dsl" => \E k \in 0 .. Len(call.dataset) :
                     Suffix(names, call.dataset, k) /\ dir_obj \in View!DslEnds(k)
  /\ pc = "master" => /\ names = call.path
                      /\ \E set \in View!Datasets : dir_obj = <<set, 1>>
                      /\ call.path = <<>> => call.op \notin {"stat", "exists"}
  /\ pc = "path" => \E set \in View!Datasets : \E k \in 0 .. Len(call.path) - 1 :
                      Suffix(names, call.path, k) /\ dir_obj \in View!FileEnds(set, k)
  /\ pc = "list" => call.op = "read_dir" /\ dir_obj \in View!Listed
  /\ pc = "target" => \E t \in 0 .. 15 : /\ <<t, dir_obj>> \in View!Targets
                                         /\ dirent_kind(value) = View!KindOf(t)
-----------------------------------------------------------------------------
\* FileView's ways depend on the pool and the call alone, which no step changes.
LEMMA SameView ==
  ASSUME UNCHANGED <<world, call>>
  PROVE  /\ \A k : View!DslEnds(k)' = View!DslEnds(k)
         /\ View!Datasets' = View!Datasets
         /\ \A set, k : View!FileEnds(set, k)' = View!FileEnds(set, k)
         /\ View!Targets' = View!Targets
         /\ View!Listed' = View!Listed
<1>0. world' = world /\ call' = call
  OBVIOUS
<1>1. \A k : View!DslEnds(k)' = View!DslEnds(k)
  BY <1>0 DEF View!DslEnds, View!DslWay, View!In, View!Mos, View!Has, View!HasZap, View!Readable,
     View!Obj, View!Value, View!IsDslDir, View!ChildZap
<1>2. View!Datasets' = View!Datasets
  BY <1>0, <1>1 DEF View!Datasets, View!OpensAs, View!IsDslDir, View!HeadOf, View!Readable,
     View!Obj, View!Mos
<1>3. \A set, k : View!FileEnds(set, k)' = View!FileEnds(set, k)
  BY <1>0 DEF View!FileEnds, View!FileWay, View!In, View!Has, View!HasZap, View!Readable,
     View!Obj, View!Value, View!Types, View!IsEntry
<1>4. \A d : View!Named(d)' = View!Named(d)
  BY <1>0 DEF View!Named, View!Final, View!Has, View!HasZap, View!Readable, View!Obj, View!Value,
     View!Types, View!IsEntry, View!In
<1>5. View!Targets' = View!Targets
  <2>1. ASSUME NEW x
        PROVE  x \in View!Targets' <=> x \in View!Targets
    BY <1>0, <1>2, <1>3, <1>4 DEF View!Targets
  <2> QED
    BY <2>1
<1>6. View!Listed' = View!Listed
  BY <1>0, <1>2, <1>3, <1>5 DEF View!Listed, View!OfType
<1> QED
  BY <1>1, <1>2, <1>3, <1>5, <1>6
-----------------------------------------------------------------------------
LEMMA Euclid ==
  ASSUME NEW v \in Nat, NEW b \in Nat \ {0}
  PROVE  /\ v \div b \in Nat /\ v % b \in 0 .. b - 1
         /\ v = (v \div b) * b + (v % b)
BY Z3

LEMMA Quotient ==
  ASSUME NEW v \in Nat, NEW b \in Nat \ {0}, NEW t \in Nat, NEW r \in 0 .. b - 1, v = t * b + r
  PROVE  v \div b = t
BY Z3

LEMMA LowPart ==
  ASSUME NEW m \in Nat, NEW M \in Nat \ {0}, NEW S \in Nat \ {0}, NEW n \in 0 .. S - 1, m <= M - 1
  PROVE  m * S + n \in 0 .. S * M - 1
<1>1. m * S <= (M - 1) * S
  BY Z3
<1>2. (M - 1) * S = S * M - S
  BY Z3
<1>3. m * S \in Nat /\ S * M \in Nat /\ (M - 1) * S \in Nat
  BY Z3
<1> QED
  BY <1>1, <1>2, <1>3

LEMMA Regroup ==
  ASSUME NEW t \in Nat, NEW M \in Nat, NEW m \in Nat, NEW S \in Nat, NEW n \in Nat
  PROVE  (t * M + m) * S + n = t * (S * M) + (m * S + n)
BY Z3

LEMMA Sixteen ==
  ASSUME NEW t \in Nat, NEW b \in Nat \ {0}, NEW r \in Nat, t * b + r <= 16 * b - 1
  PROVE  t \in 0 .. 15
BY Z3

\* The shift and the mask of dataset.rs take a directory entry apart.
LEMMA EntryParts ==
  ASSUME NEW v \in 0 .. (16 * (ObjSpan * MidSpan) - 1)
  PROVE  \E t \in 0 .. 15 : View!IsEntry(v, t, ObjOf(v)) /\ dirent_kind(v) = View!KindOf(t)
<1> DEFINE S == ObjSpan
           M == MidSpan
           q == v \div S
           n == v % S
           t == q \div M
           m == q % M
<1>1. S \in Nat \ {0} /\ M \in Nat \ {0} /\ v \in Nat
  BY SpansAssumption
<1>2. S * M \in Nat \ {0}
  BY <1>1, Z3
<1>3. q \in Nat /\ n \in 0 .. S - 1 /\ v = q * S + n
  BY <1>1, Euclid
<1>4. t \in Nat /\ m \in 0 .. M - 1 /\ q = t * M + m
  BY <1>1, <1>3, Euclid
<1>5. v = (t * M + m) * S + n
  BY <1>3, <1>4
<1> HIDE DEF q, n, t, m
<1>6. m * S + n \in 0 .. S * M - 1
  BY <1>1, <1>3, <1>4, LowPart
<1>7. v = t * (S * M) + (m * S + n)
  BY <1>1, <1>3, <1>4, <1>5, Regroup
<1>8. v \div (S * M) = t
  BY <1>1, <1>2, <1>4, <1>6, <1>7, Quotient
<1>9. t \in 0 .. 15
  <2>1. t * (S * M) + (m * S + n) <= 16 * (S * M) - 1
    BY <1>7
  <2> QED
    BY <1>2, <1>4, <1>6, <2>1, Sixteen
<1>10. View!IsEntry(v, t, ObjOf(v))
  BY <1>3, <1>4, <1>5 DEF View!IsEntry, ObjOf, n
<1>11. dirent_kind(v) = View!KindOf(t)
  BY <1>8 DEF dirent_kind, View!KindOf
<1> QED
  BY <1>9, <1>10, <1>11
-----------------------------------------------------------------------------
\* Numbers in the pool's ZAPs are in range.
LEMMA ZapValues ==
  ASSUME world \in Worlds, NEW o, NEW n, View!Has(o, n)
  PROVE  /\ View!Value(o, n) \in 0 .. (16 * (ObjSpan * MidSpan) - 1)
         /\ o[1] = "mos" \/ (o[2] = 1 /\ n = "ROOT") => View!Value(o, n) \in 0 .. (ObjSpan - 1)
BY WorldsAssumption DEF View!Has, View!HasZap, View!Readable, View!Obj, View!Value

\* Errors that say the pool, not the path, is at fault.
Trouble(r) == \E k \in {"Io", "Inconsistent", "UnsupportedFeature"} : \E t : r = Err(k, t)

\* Errors are no answer Pending, and each is what FileView says of it.
LEMMA TroubleIsErr ==
  ASSUME NEW r, Trouble(r)
  PROVE  /\ ~r.ok /\ r # Pending /\ r # NotFound /\ r.kind # "NotFound"
         /\ View!IsErr(r) /\ r.kind \in {"Io", "Inconsistent", "UnsupportedFeature"}
BY DEF Trouble, Err, Pending, NotFound, View!IsErr, View!ErrorKind

\* The object's ZAP, if it has one.
LEMMA ZapRead ==
  ASSUME NEW o
  PROVE  \/ View!HasZap(o) /\ ZapOf(o) = Ok(View!Obj(o).zap)
         \/ ~View!HasZap(o) /\ Trouble(ZapOf(o))
BY DEF ZapOf, ReadObject, View!HasZap, View!Readable, View!Obj, Trouble, Ok, Err

\* zap_lookup finds a value, or that there is none, or that there is no ZAP.
LEMMA Lookup ==
  ASSUME NEW o, NEW n
  PROVE  \/ View!Has(o, n) /\ zap_lookup(o, n) = Ok(View!Value(o, n))
         \/ View!Lacks(o, n) /\ zap_lookup(o, n) = NotFound
         \/ ~View!HasZap(o) /\ Trouble(zap_lookup(o, n))
<1>1. CASE View!HasZap(o) /\ ZapOf(o) = Ok(View!Obj(o).zap)
  BY <1>1 DEF zap_lookup, View!Has, View!Lacks, View!Value, Ok
<1>2. CASE ~View!HasZap(o) /\ Trouble(ZapOf(o))
  <2>1. ~ZapOf(o).ok
    BY <1>2, TroubleIsErr
  <2> QED
    BY <1>2, <2>1 DEF zap_lookup
<1> QED
  BY <1>1, <1>2, ZapRead

\* Its bonus, if that is of the type asked for.
LEMMA BonusRead ==
  ASSUME NEW o, NEW type, NEW token
  PROVE  \/ /\ View!Readable(o) /\ View!Obj(o).bonus.type = type
            /\ Bonus(o, type, token) = Ok(View!Obj(o).bonus)
         \/ /\ ~(View!Readable(o) /\ View!Obj(o).bonus.type = type)
            /\ Trouble(Bonus(o, type, token))
BY DEF Bonus, ReadObject, View!Readable, View!Obj, Trouble, Ok, Err

\* The file size, if there is one.
LEMMA SizeRead ==
  ASSUME world \in Worlds
  PROVE  \/ View!HasSize(dir_obj) /\ FileSize = Ok(View!Size(dir_obj)) /\ View!Size(dir_obj) \in Nat
         \/ ~View!HasSize(dir_obj) /\ Trouble(FileSize)
<1>1. CASE ~View!Readable(dir_obj)
  BY <1>1 DEF FileSize, ReadObject, View!HasSize, View!Readable, View!Obj, Trouble, Ok, Err
<1>2. CASE View!Readable(dir_obj)
  <2> DEFINE b == View!Obj(dir_obj).bonus
  <2>1. FileSize = sa_file_size(b)
    BY <1>2 DEF FileSize, ReadObject, View!Readable, View!Obj, Ok, Err
  <2>2. b.type = "sa" => b.header \in Nat /\ b.words \in Seq(Nat)
    BY <1>2, WorldsAssumption DEF View!Readable, View!Obj
  <2> HIDE DEF b
  <2>3. CASE b.type # "sa"
    BY <2>1, <2>3 DEF sa_file_size, View!HasSize, Trouble, b, Err
  <2>4. CASE b.type = "sa" /\ b.header + 2 > Len(b.words)
    <3>1. ~(b.header + 2 <= Len(b.words))
      BY <2>2, <2>4
    <3> QED
      BY <2>1, <2>4, <3>1 DEF sa_file_size, View!HasSize, Trouble, b, Err
  <2>5. CASE b.type = "sa" /\ ~(b.header + 2 > Len(b.words))
    <3>1. b.header + 2 <= Len(b.words) /\ b.words[b.header + 2] \in Nat
      <4>1. \A w \in Seq(Nat) : \A h \in Nat : ~(h + 2 > Len(w)) => h + 2 <= Len(w) /\ h + 2 \in 1 .. Len(w)
        OBVIOUS
      <4>2. \A w \in Seq(Nat) : \A i \in 1 .. Len(w) : w[i] \in Nat
        OBVIOUS
      <4> QED
        BY <2>2, <2>5, <4>1, <4>2
    <3>2. View!HasSize(dir_obj) /\ View!Size(dir_obj) = b.words[b.header + 2]
      BY <1>2, <2>5, <3>1 DEF View!HasSize, View!Size, b
    <3>3. FileSize = Ok(b.words[b.header + 2])
      BY <2>1, <2>5 DEF sa_file_size
    <3> QED
      BY <3>1, <3>2, <3>3
  <2> QED
    BY <2>3, <2>4, <2>5
<1> QED
  BY <1>1, <1>2
-----------------------------------------------------------------------------
\* The ways of FileView grow by the entry that was looked up.
LEMMA DslRoot ==
  ASSUME world \in Worlds, View!Has(<<"mos", 1>>, "root_dataset")
  PROVE  <<"mos", View!Value(<<"mos", 1>>, "root_dataset")>> \in View!DslEnds(0)
<1> DEFINE v == View!Value(<<"mos", 1>>, "root_dataset")
           s == [i \in 0 .. 0 |-> <<"mos", v>>]
<1>1. v \in 0 .. (ObjSpan - 1)
  BY ZapValues
<1> HIDE DEF v
<1>2. s \in [0 .. 0 -> View!In("mos")]
  BY <1>1 DEF View!In
<1>3. View!DslWay(0, s)
  BY DEF View!DslWay, View!Mos, v
<1>4. s[0] = <<"mos", v>>
  OBVIOUS
<1> HIDE DEF s
<1> QED
  BY <1>2, <1>3, <1>4 DEF View!DslEnds, View!Mos, v

LEMMA DslGrows ==
  ASSUME world \in Worlds, NEW k \in 0 .. Len(call.dataset) - 1, call.dataset \in Seq(Components),
         NEW d \in View!DslEnds(k), View!IsDslDir(d), View!Has(View!ChildZap(d), call.dataset[k + 1])
  PROVE  <<"mos", View!Value(View!ChildZap(d), call.dataset[k + 1])>> \in View!DslEnds(k + 1)
<1> DEFINE v == View!Value(View!ChildZap(d), call.dataset[k + 1])
<1>1. v \in 0 .. (ObjSpan - 1)
  BY ZapValues DEF View!ChildZap, View!Mos
<1>2. PICK w \in [0 .. k -> View!In("mos")] : View!DslWay(k, w) /\ w[k] = d
  BY DEF View!DslEnds, View!Mos
<1> DEFINE s == [i \in 0 .. (k + 1) |-> IF i = k + 1 THEN <<"mos", v>> ELSE w[i]]
<1>3. k \in Nat /\ k + 1 \in 0 .. (k + 1)
  OBVIOUS
<1> HIDE DEF v
<1>4. s \in [0 .. (k + 1) -> View!In("mos")]
  BY <1>1, <1>2, <1>3 DEF View!In
<1>5. s[k + 1] = <<"mos", v>> /\ \A i \in 0 .. k : s[i] = w[i]
  BY <1>3
<1> HIDE DEF s
<1>6. View!DslWay(k + 1, s)
  <2>1. View!Has(<<"mos", 1>>, "root_dataset") /\ s[0] = <<"mos", View!Value(<<"mos", 1>>, "root_dataset")>>
    BY <1>2, <1>3, <1>5 DEF View!DslWay, View!Mos
  <2>2. ASSUME NEW i \in 1 .. (k + 1)
        PROVE  /\ View!IsDslDir(s[i - 1]) /\ View!Has(View!ChildZap(s[i - 1]), call.dataset[i])
               /\ s[i] = <<"mos", View!Value(View!ChildZap(s[i - 1]), call.dataset[i])>>
    <3>1. CASE i = k + 1
      BY <1>2, <1>3, <1>5, <3>1 DEF v
    <3>2. CASE i # k + 1
      <4>1. i \in 1 .. k /\ i - 1 \in 0 .. k /\ i \in 0 .. k
        BY <1>3, <3>2
      <4> QED
        BY <1>2, <1>5, <4>1 DEF View!DslWay, View!Mos
    <3> QED
      BY <3>1, <3>2
  <2> QED
    BY <2>1, <2>2 DEF View!DslWay, View!Mos
<1> QED
  BY <1>4, <1>5, <1>6 DEF View!DslEnds, View!Mos, v

LEMMA FileRoot ==
  ASSUME world \in Worlds, NEW set, View!Has(<<set, 1>>, "ROOT")
  PROVE  <<set, View!Value(<<set, 1>>, "ROOT")>> \in View!FileEnds(set, 0)
<1> DEFINE v == View!Value(<<set, 1>>, "ROOT")
           s == [i \in 0 .. 0 |-> <<set, v>>]
<1>1. v \in 0 .. (ObjSpan - 1)
  BY ZapValues
<1> HIDE DEF v
<1>2. s \in [0 .. 0 -> View!In(set)]
  BY <1>1 DEF View!In
<1>3. View!FileWay(set, 0, s)
  BY DEF View!FileWay, v
<1>4. s[0] = <<set, v>>
  OBVIOUS
<1> HIDE DEF s
<1> QED
  BY <1>2, <1>3, <1>4 DEF View!FileEnds, v

LEMMA FileGrows ==
  ASSUME world \in Worlds, NEW set, NEW k \in 0 .. Len(call.path) - 1, call.path \in Seq(Components),
         NEW d \in View!FileEnds(set, k), View!Has(d, call.path[k + 1])
  PROVE  <<set, ObjOf(View!Value(d, call.path[k + 1]))>> \in View!FileEnds(set, k + 1)
<1> DEFINE v == View!Value(d, call.path[k + 1])
           n == ObjOf(v)
<1>1. PICK t \in 0 .. 15 : View!IsEntry(v, t, n)
  <2>1. v \in 0 .. (16 * (ObjSpan * MidSpan) - 1)
    BY ZapValues
  <2> HIDE DEF v
  <2> QED
    BY <2>1, EntryParts
<1>2. PICK w \in [0 .. k -> View!In(set)] : View!FileWay(set, k, w) /\ w[k] = d
  BY DEF View!FileEnds
<1> HIDE DEF n
<1> DEFINE s == [i \in 0 .. (k + 1) |-> IF i = k + 1 THEN <<set, n>> ELSE w[i]]
<1>3. k \in Nat /\ k + 1 \in 0 .. (k + 1)
  OBVIOUS
<1> HIDE DEF v
<1>4. s \in [0 .. (k + 1) -> View!In(set)]
  BY <1>1, <1>2, <1>3 DEF View!In, View!IsEntry
<1>5. s[k + 1] = <<set, n>> /\ \A i \in 0 .. k : s[i] = w[i]
  BY <1>3
<1> HIDE DEF s
<1>6. View!FileWay(set, k + 1, s)
  <2>1. View!Has(<<set, 1>>, "ROOT") /\ s[0] = <<set, View!Value(<<set, 1>>, "ROOT")>>
    BY <1>2, <1>3, <1>5 DEF View!FileWay
  <2>2. ASSUME NEW i \in 1 .. (k + 1)
        PROVE  /\ View!Has(s[i - 1], call.path[i])
               /\ \E u \in View!Types : View!IsEntry(View!Value(s[i - 1], call.path[i]), u, s[i][2])
    <3>1. CASE i = k + 1
      <4>1. s[i - 1] = d /\ s[i][2] = n
        BY <1>2, <1>3, <1>5, <3>1
      <4> QED
        BY <1>1, <3>1, <4>1 DEF v, View!Types
    <3>2. CASE i # k + 1
      <4>1. i \in 1 .. k /\ i - 1 \in 0 .. k /\ i \in 0 .. k
        BY <1>3, <3>2
      <4> QED
        BY <1>2, <1>5, <4>1 DEF View!FileWay
    <3> QED
      BY <3>1, <3>2
  <2> QED
    BY <2>1, <2>2 DEF View!FileWay
<1> QED
  BY <1>4, <1>5, <1>6 DEF View!FileEnds, n, v

\* The last component's entry is the target.
LEMMA TargetFound ==
  ASSUME world \in Worlds, call.path \in Seq(Components), call.path # <<>>,
         NEW set \in View!Datasets, NEW d \in View!FileEnds(set, Len(call.path) - 1),
         View!Has(d, call.path[Len(call.path)])
  PROVE  LET v == View!Value(d, call.path[Len(call.path)])
         IN  \E t \in 0 .. 15 : /\ <<t, <<d[1], ObjOf(v)>>>> \in View!Targets
                                /\ dirent_kind(v) = View!KindOf(t)
<1> DEFINE v == View!Value(d, call.path[Len(call.path)])
<1>1. v \in 0 .. (16 * (ObjSpan * MidSpan) - 1)
  BY ZapValues
<1> HIDE DEF v
<1>2. PICK t \in 0 .. 15 : View!IsEntry(v, t, ObjOf(v)) /\ dirent_kind(v) = View!KindOf(t)
  BY <1>1, EntryParts
<1>3. <<t, <<d[1], ObjOf(v)>>>> \in View!Named(d)
  BY <1>2 DEF View!Named, View!Final, View!Types, View!In, View!IsEntry, v
<1>4. <<t, <<d[1], ObjOf(v)>>>> \in View!Targets
  BY <1>3 DEF View!Targets
<1> QED
  BY <1>2, <1>4 DEF v

\* A way into an object set stays in it.
LEMMA FileSet ==
  ASSUME NEW set, NEW k \in Nat, NEW d \in View!FileEnds(set, k)
  PROVE  d[1] = set
BY DEF View!FileEnds, View!In
-----------------------------------------------------------------------------
\* A call that returns keeps the invariant, and answers as FileView promises.
LEMMA Returns ==
  ASSUME PathInv, pc # "done", NEW r, Return(r),
         result' # Pending, View!Promised(result')
  PROVE  PathInv' /\ View!Answer
BY DEF PathInv, Return, View!Answer, View!Pending, Pending

LEMMA Refused ==
  ASSUME PathInv, pc # "done", NEW r, Return(r), Trouble(r), View!Blocked
  PROVE  PathInv' /\ View!Answer
<1>1. ~r.ok /\ r # Pending /\ r.kind # "NotFound" /\ View!IsErr(r)
      /\ r.kind \in {"Io", "Inconsistent", "UnsupportedFeature"}
  BY TroubleIsErr
<1>2. result' = r
  BY <1>1 DEF Return
<1>3. View!Promised(result')
  BY <1>1, <1>2 DEF View!Promised
<1> QED
  BY <1>1, <1>2, <1>3, Returns

LEMMA NoName ==
  ASSUME PathInv, pc # "done", Return(NotFound), View!Missing
  PROVE  PathInv' /\ View!Answer
<1>1. CASE call.op = "exists"
  <2>1. result' = Ok(FALSE)
    BY <1>1 DEF Return, NotFound, Err
  <2>2. result' # Pending /\ View!Promised(result')
    BY <1>1, <2>1 DEF View!Promised, Ok, Pending
  <2> QED
    BY <2>2, Returns
<1>2. CASE call.op # "exists"
  <2>1. result' = NotFound
    BY <1>2 DEF Return
  <2>2. result' # Pending /\ View!Promised(result')
    BY <1>2, <2>1 DEF View!Promised, NotFound, Err, Pending, View!NotFound, View!Err
  <2> QED
    BY <2>2, Returns
<1> QED
  BY <1>1, <1>2
-----------------------------------------------------------------------------
\* What each step is to do: keep the invariant, and answer or leave the answer
\* pending.
Implements == PathInv' /\ (View!Answer \/ UNCHANGED <<world, call, result>>)

LEMMA ObjectDirectoryStep ==
  ASSUME PathInv, ObjectDirectory
  PROVE  Implements
<1> DEFINE o == <<"mos", 1>>
           r == zap_lookup(o, "root_dataset")
<1>0. world \in Worlds /\ pc = "objdir" /\ pc # "done"
  BY DEF PathInv, ObjectDirectory
<1>1. \/ View!Has(o, "root_dataset") /\ r = Ok(View!Value(o, "root_dataset"))
      \/ View!Lacks(o, "root_dataset") /\ r = NotFound
      \/ ~View!HasZap(o) /\ Trouble(r)
  BY Lookup
<1>2. IF ~r.ok THEN Return(r)
      ELSE pc' = "dsl" /\ dir_obj' = <<"mos", r.val>> /\ UNCHANGED <<world, call, names, value, result>>
  BY DEF ObjectDirectory, MOS_OBJECT_DIRECTORY
<1> HIDE DEF r
<1>3. CASE View!Has(o, "root_dataset") /\ r = Ok(View!Value(o, "root_dataset"))
  <2>1. /\ pc' = "dsl" /\ dir_obj' = <<"mos", View!Value(o, "root_dataset")>>
        /\ UNCHANGED <<world, call, names, value, result>>
    BY <1>2, <1>3 DEF Ok
  <2>2. dir_obj' \in View!DslEnds(0)
    BY <1>0, <1>3, <2>1, DslRoot
  <2>3. call.dataset \in Seq(Components) /\ names = call.dataset
    BY <1>0, CallsAssumption DEF PathInv
  <2>4. Suffix(names, call.dataset, 0) /\ 0 \in 0 .. Len(call.dataset)
    BY <2>3 DEF Suffix
  <2>5. UNCHANGED <<world, call>>
    BY <2>1
  <2>6. dir_obj' \in View!DslEnds(0)'
    BY <2>2, <2>5, SameView
  <2>7. Suffix(names, call.dataset, 0)'
    BY <2>1, <2>4 DEF Suffix
  <2>8. PathInv'
    BY <1>0, <2>1, <2>4, <2>6, <2>7 DEF PathInv
  <2> QED
    BY <2>1, <2>8 DEF Implements
<1>4. CASE View!Lacks(o, "root_dataset") /\ r = NotFound
  <2>1. Return(NotFound)
    BY <1>2, <1>4 DEF NotFound, Err
  <2>2. View!Missing
    BY <1>4 DEF View!Missing, View!Mos
  <2> QED
    BY <1>0, <2>1, <2>2, NoName DEF Implements
<1>5. CASE ~View!HasZap(o) /\ Trouble(r)
  <2>1. Return(r)
    BY <1>2, <1>5, TroubleIsErr
  <2>2. View!Blocked
    BY <1>5 DEF View!Blocked, View!Mos
  <2> QED
    BY <1>0, <1>5, <2>1, <2>2, Refused DEF Implements
<1> QED
  BY <1>1, <1>3, <1>4, <1>5

\* The first name left, and what is left after it.
LEMMA NextName ==
  ASSUME NEW whole \in Seq(Components), NEW s, NEW k \in 0 .. Len(whole), Suffix(s, whole, k), s # <<>>
  PROVE  /\ k \in 0 .. (Len(whole) - 1) /\ s[1] = whole[k + 1]
         /\ Len(s) = Len(whole) - k
         /\ Suffix(Tail(s), whole, k + 1)
<1>1. s \in Seq(Components) /\ Len(s) = Len(whole) - k /\ Len(s) > 0 /\ Len(s) \in Nat /\ Len(whole) \in Nat
  BY DEF Suffix
<1>2. k \in 0 .. (Len(whole) - 1) /\ 1 \in 1 .. Len(s) /\ k + 1 \in 0 .. Len(whole)
  BY <1>1
<1>3. s[1] = whole[k + 1]
  BY <1>2 DEF Suffix
<1>4. Tail(s) \in Seq(Components) /\ Len(Tail(s)) = Len(s) - 1
  BY <1>1
<1>5. ASSUME NEW i \in 1 .. Len(Tail(s))
      PROVE  Tail(s)[i] = whole[(k + 1) + i]
  <2>1. i + 1 \in 1 .. Len(s) /\ Tail(s)[i] = s[i + 1]
    BY <1>1, <1>4
  <2>2. s[i + 1] = whole[k + (i + 1)]
    BY <2>1 DEF Suffix
  <2>3. k + (i + 1) = (k + 1) + i
    BY <1>4
  <2> QED
    BY <2>1, <2>2, <2>3
<1>6. Len(Tail(s)) = Len(whole) - (k + 1)
  BY <1>1, <1>4
<1> QED
  BY <1>1, <1>2, <1>3, <1>4, <1>5, <1>6 DEF Suffix

LEMMA DslChildStep ==
  ASSUME PathInv, DslChild
  PROVE  Implements
<1>0. /\ world \in Worlds /\ pc = "dsl" /\ pc # "done" /\ names # <<>>
      /\ call.dataset \in Seq(Components)
  BY CallsAssumption DEF PathInv, DslChild
<1>1. PICK k \in 0 .. Len(call.dataset) :
        Suffix(names, call.dataset, k) /\ dir_obj \in View!DslEnds(k)
  BY <1>0 DEF PathInv
<1>2. /\ k \in 0 .. (Len(call.dataset) - 1) /\ names[1] = call.dataset[k + 1]
      /\ Suffix(Tail(names), call.dataset, k + 1)
  BY <1>0, <1>1, NextName
<1>3. k < Len(call.dataset) /\ k + 1 \in 0 .. Len(call.dataset)
  BY <1>0, <1>2
<1> DEFINE d == dsl_dir(dir_obj)
           z == View!ChildZap(dir_obj)
           n == call.dataset[k + 1]
           r == IF d.ok THEN zap_lookup(<<"mos", d.val.child_zap>>, n) ELSE d
<1>4. IF ~r.ok THEN Return(r)
      ELSE /\ dir_obj' = <<"mos", r.val>> /\ names' = Tail(names)
           /\ UNCHANGED <<world, call, pc, value, result>>
  BY <1>2 DEF DslChild
<1>5. \/ View!IsDslDir(dir_obj) /\ r = zap_lookup(z, n)
      \/ ~View!IsDslDir(dir_obj) /\ Trouble(r)
  <2>1. \/ View!IsDslDir(dir_obj) /\ d = Ok(View!Obj(dir_obj).bonus)
        \/ ~View!IsDslDir(dir_obj) /\ Trouble(d)
    BY BonusRead DEF dsl_dir, View!IsDslDir
  <2> HIDE DEF d
  <2> QED
    <3>1. CASE View!IsDslDir(dir_obj) /\ d = Ok(View!Obj(dir_obj).bonus)
      BY <3>1 DEF Ok, View!ChildZap, View!Mos
    <3>2. CASE ~View!IsDslDir(dir_obj) /\ Trouble(d)
      <4>1. ~d.ok
        BY <3>2, TroubleIsErr
      <4> QED
        BY <3>2, <4>1
    <3> QED
      BY <2>1, <3>1, <3>2
<1> HIDE DEF r, d
<1>6. CASE ~View!IsDslDir(dir_obj) /\ Trouble(r)
  <2>1. Return(r)
    BY <1>4, <1>6, TroubleIsErr
  <2>2. View!Blocked
    BY <1>1, <1>6 DEF View!Blocked
  <2> QED
    BY <1>0, <1>6, <2>1, <2>2, Refused DEF Implements
<1>7. CASE View!IsDslDir(dir_obj) /\ View!Has(z, n) /\ r = Ok(View!Value(z, n))
  <2>1. /\ pc' = "dsl" /\ dir_obj' = <<"mos", View!Value(z, n)>> /\ names' = Tail(names)
        /\ UNCHANGED <<world, call, value, result>>
    BY <1>0, <1>4, <1>7 DEF Ok
  <2>2. dir_obj' \in View!DslEnds(k + 1)
    BY <1>0, <1>1, <1>2, <1>7, <2>1, DslGrows
  <2>3. UNCHANGED <<world, call>>
    BY <2>1
  <2>4. dir_obj' \in View!DslEnds(k + 1)'
    BY <2>2, <2>3, SameView
  <2>5. Suffix(names', call.dataset', k + 1)
    BY <1>2, <2>1
  <2>6. PathInv'
    BY <1>0, <1>3, <2>1, <2>4, <2>5 DEF PathInv
  <2> QED
    BY <2>1, <2>6 DEF Implements
<1>8. CASE View!IsDslDir(dir_obj) /\ View!Lacks(z, n) /\ r = NotFound
  <2>1. Return(NotFound)
    BY <1>4, <1>8 DEF NotFound, Err
  <2>2. View!Missing
    BY <1>1, <1>2, <1>8 DEF View!Missing
  <2> QED
    BY <1>0, <2>1, <2>2, NoName DEF Implements
<1>9. CASE View!IsDslDir(dir_obj) /\ ~View!HasZap(z) /\ Trouble(r)
  <2>1. Return(r)
    BY <1>4, <1>9, TroubleIsErr
  <2>2. View!Blocked
    BY <1>1, <1>3, <1>9 DEF View!Blocked
  <2> QED
    BY <1>0, <1>9, <2>1, <2>2, Refused DEF Implements
<1> QED
  BY <1>5, <1>6, <1>7, <1>8, <1>9, Lookup

\* The head dataset opens, or its directory has none, or something is wrong.
LEMMA HeadFound ==
  \/ \E s \in Sets : View!OpensAs(dir_obj, s) /\ HeadSet = Ok(s)
  \/ /\ View!IsDslDir(dir_obj) /\ View!Obj(dir_obj).bonus.head = Absent
     /\ HeadSet = NotFound
  \/ /\ ~\E s \in Sets : View!OpensAs(dir_obj, s)
     /\ Trouble(HeadSet)
<1> DEFINE d == dsl_dir(dir_obj)
           h == <<"mos", View!Obj(dir_obj).bonus.head>>
           b == Bonus(h, "dsl_dataset", "dsl_dataset")
<1>1. \/ View!IsDslDir(dir_obj) /\ d = Ok(View!Obj(dir_obj).bonus)
      \/ ~View!IsDslDir(dir_obj) /\ Trouble(d)
  BY BonusRead DEF dsl_dir, View!IsDslDir
<1>2. \/ /\ View!Readable(h) /\ View!Obj(h).bonus.type = "dsl_dataset"
         /\ b = Ok(View!Obj(h).bonus)
      \/ /\ ~(View!Readable(h) /\ View!Obj(h).bonus.type = "dsl_dataset")
         /\ Trouble(b)
  BY BonusRead
<1>3. CASE ~View!IsDslDir(dir_obj) /\ Trouble(d)
  <2> HIDE DEF d
  <2>1. ~d.ok
    BY <1>3, TroubleIsErr
  <2> QED
    BY <1>3, <2>1 DEF HeadSet, View!OpensAs, d
<1>4. CASE View!IsDslDir(dir_obj) /\ d = Ok(View!Obj(dir_obj).bonus)
  <2>1. d.ok /\ d.val.head = View!Obj(dir_obj).bonus.head
    BY <1>4 DEF Ok
  <2>2. HeadSet = IF View!Obj(dir_obj).bonus.head = Absent THEN NotFound
                  ELSE IF ~b.ok THEN b
                  ELSE IF b.val.objset = Absent THEN Err("Inconsistent", "dataset_no_bp")
                  ELSE IF b.val.objset \notin Sets THEN Err("Inconsistent", "objset_decode")
                  ELSE Ok(b.val.objset)
    BY <2>1 DEF HeadSet
  <2> HIDE DEF b
  <2>3. CASE View!Obj(dir_obj).bonus.head = Absent
    BY <1>4, <2>2, <2>3
  <2>4. CASE View!Obj(dir_obj).bonus.head # Absent /\ ~b.ok
    <3>1. /\ ~(View!Readable(h) /\ View!Obj(h).bonus.type = "dsl_dataset")
          /\ Trouble(b)
      BY <1>2, <2>4 DEF Ok
    <3>2. HeadSet = b
      BY <2>2, <2>4
    <3>3. ~\E s \in Sets : View!OpensAs(dir_obj, s)
      BY <3>1 DEF View!OpensAs, View!HeadOf, View!Mos
    <3> QED
      BY <3>1, <3>2, <3>3
  <2>5. CASE View!Obj(dir_obj).bonus.head # Absent /\ b.ok
    <3>1. /\ View!Readable(h) /\ View!Obj(h).bonus.type = "dsl_dataset"
          /\ b.val = View!Obj(h).bonus
      BY <1>2, <2>5, TroubleIsErr DEF Ok
    <3>2. CASE b.val.objset \in Sets
      BY <1>4, <2>2, <2>5, <3>1, <3>2, SpansAssumption DEF View!OpensAs, View!HeadOf, View!Mos
    <3>3. CASE b.val.objset \notin Sets
      <4>1. ~\E s \in Sets : View!OpensAs(dir_obj, s)
        BY <3>1, <3>3 DEF View!OpensAs, View!HeadOf, View!Mos
      <4>2. Trouble(HeadSet)
        BY <2>2, <2>5, <3>3 DEF Trouble
      <4> QED
        BY <4>1, <4>2
    <3> QED
      BY <3>2, <3>3
  <2> QED
    BY <2>3, <2>4, <2>5
<1> QED
  BY <1>1, <1>3, <1>4

LEMMA OpenHeadStep ==
  ASSUME PathInv, OpenHead
  PROVE  Implements
<1>0. /\ world \in Worlds /\ call \in PathCalls /\ pc = "dsl" /\ pc # "done" /\ names = <<>>
      /\ call.dataset \in Seq(Components) /\ call.path \in Seq(Components) /\ result = Pending
  BY CallsAssumption DEF PathInv, OpenHead
<1>1. dir_obj \in View!DslEnds(Len(call.dataset)) /\ Len(call.dataset) \in 0 .. Len(call.dataset)
  <2>1. PICK k \in 0 .. Len(call.dataset) :
          Suffix(names, call.dataset, k) /\ dir_obj \in View!DslEnds(k)
    BY <1>0 DEF PathInv
  <2>2. Len(names) = 0 /\ Len(names) = Len(call.dataset) - k
    BY <1>0, <2>1 DEF Suffix
  <2>3. k = Len(call.dataset)
    BY <1>0, <2>2
  <2> QED
    BY <2>1, <2>3
<1>2. IF ~HeadSet.ok THEN Return(HeadSet)
      ELSE IF call.op \in {"stat", "exists"} /\ call.path = <<>>
      THEN Return(Ok([kind |-> "Directory", size |-> 0]))
      ELSE /\ pc' = "master" /\ dir_obj' = <<HeadSet.val, 1>>
           /\ names' = call.path /\ UNCHANGED <<world, call, value, result>>
  BY DEF OpenHead, ZPL_MASTER_NODE
<1>3. CASE \E s \in Sets : View!OpensAs(dir_obj, s) /\ HeadSet = Ok(s)
  <2>1. PICK s \in Sets : View!OpensAs(dir_obj, s) /\ HeadSet = Ok(s)
    BY <1>3
  <2>2. s \in View!Datasets
    BY <1>1, <2>1 DEF View!Datasets
  <2>3. CASE call.op \in {"stat", "exists"} /\ call.path = <<>>
    <3> DEFINE v == [kind |-> "Directory", size |-> 0]
    <3>1. Return(Ok(v))
      BY <1>2, <2>1, <2>3 DEF Ok
    <3>2. result' = IF call.op = "stat" THEN Ok(v) ELSE Ok(TRUE)
      BY <2>3, <3>1 DEF Return, Ok
    <3>3. View!Datasets # {}
      BY <2>2
    <3>4. result' # Pending
      BY <3>2 DEF Ok, Pending
    <3>5. View!Promised(result')
      <4>1. CASE call.op = "stat"
        <5>1. View!Stat(v)
          BY <2>3, <3>3 DEF View!Stat
        <5> HIDE DEF v
        <5> QED
          BY <3>2, <4>1, <5>1 DEF View!Promised, Ok
      <4>2. CASE call.op = "exists"
        <5>1. View!Exists
          BY <2>3, <3>3 DEF View!Exists
        <5> QED
          BY <3>2, <4>2, <5>1 DEF View!Promised, Ok
      <4> QED
        BY <2>3, <4>1, <4>2
    <3> QED
      BY <1>0, <3>1, <3>4, <3>5, Returns DEF Implements
  <2>4. CASE ~(call.op \in {"stat", "exists"} /\ call.path = <<>>)
    <3>1. /\ pc' = "master" /\ dir_obj' = <<s, 1>> /\ names' = call.path
          /\ UNCHANGED <<world, call, value, result>>
      BY <1>2, <2>1, <2>4 DEF Ok
    <3>2. UNCHANGED <<world, call>>
      BY <3>1
    <3>3. s \in View!Datasets'
      BY <2>2, <3>2, SameView
    <3>4. PathInv'
      BY <1>0, <2>4, <3>1, <3>3 DEF PathInv
    <3> QED
      BY <3>1, <3>4 DEF Implements
  <2> QED
    BY <2>3, <2>4
<1>4. CASE View!IsDslDir(dir_obj) /\ View!Obj(dir_obj).bonus.head = Absent /\ HeadSet = NotFound
  <2>1. Return(NotFound)
    BY <1>2, <1>4 DEF NotFound, Err
  <2>2. View!Missing
    BY <1>1, <1>4 DEF View!Missing
  <2> QED
    BY <1>0, <2>1, <2>2, NoName DEF Implements
<1>5. CASE (~\E s \in Sets : View!OpensAs(dir_obj, s)) /\ Trouble(HeadSet)
  <2>1. Return(HeadSet)
    BY <1>2, <1>5, TroubleIsErr
  <2>2. View!Blocked
    BY <1>1, <1>5 DEF View!Blocked
  <2> QED
    BY <1>0, <1>5, <2>1, <2>2, Refused DEF Implements
<1> QED
  BY <1>3, <1>4, <1>5, HeadFound

LEMMA RootDirectoryStep ==
  ASSUME PathInv, RootDirectory
  PROVE  Implements
<1>0. /\ world \in Worlds /\ call \in PathCalls /\ pc = "master" /\ pc # "done"
      /\ call.path \in Seq(Components) /\ result = Pending /\ names = call.path
      /\ call.op \in {"read_dir", "stat", "exists", "read", "read_at"}
      /\ call.path = <<>> => call.op \notin {"stat", "exists"}
  BY CallsAssumption DEF PathInv, RootDirectory
<1>1. PICK set \in View!Datasets : dir_obj = <<set, 1>>
  BY <1>0 DEF PathInv
<1> DEFINE r == zap_lookup(dir_obj, "ROOT")
<1>2. IF ~r.ok THEN Return(r)
      ELSE IF call.path = <<>> /\ call.op # "read_dir" THEN Return(NotFound)
      ELSE /\ pc' = IF call.path = <<>> THEN "list" ELSE "path"
           /\ dir_obj' = <<dir_obj[1], r.val>>
           /\ UNCHANGED <<world, call, names, value, result>>
  BY DEF RootDirectory
<1>3. \/ View!Has(dir_obj, "ROOT") /\ r = Ok(View!Value(dir_obj, "ROOT"))
      \/ View!Lacks(dir_obj, "ROOT") /\ r = NotFound
      \/ ~View!HasZap(dir_obj) /\ Trouble(r)
  BY Lookup
<1> HIDE DEF r
<1>4. CASE View!Has(dir_obj, "ROOT") /\ r = Ok(View!Value(dir_obj, "ROOT"))
  <2>1. CASE call.path = <<>> /\ call.op # "read_dir"
    <3>1. Return(NotFound)
      BY <1>2, <1>4, <2>1 DEF Ok
    <3>2. View!Missing
      BY <1>0, <1>1, <1>4, <2>1 DEF View!Missing
    <3> QED
      BY <1>0, <3>1, <3>2, NoName DEF Implements
  <2>2. CASE ~(call.path = <<>> /\ call.op # "read_dir")
    <3>1. /\ pc' = IF call.path = <<>> THEN "list" ELSE "path"
          /\ dir_obj' = <<set, View!Value(<<set, 1>>, "ROOT")>>
          /\ UNCHANGED <<world, call, names, value, result>>
      BY <1>1, <1>2, <1>4, <2>2 DEF Ok
    <3>2. dir_obj' \in View!FileEnds(set, 0)
      BY <1>0, <1>1, <1>4, <3>1, FileRoot
    <3>3. UNCHANGED <<world, call>>
      BY <3>1
    <3>4. CASE call.path = <<>>
      <4>1. dir_obj' \in View!Listed
        BY <1>1, <3>2, <3>4 DEF View!Listed
      <4>2. dir_obj' \in View!Listed'
        BY <3>3, <4>1, SameView
      <4>3. PathInv'
        BY <1>0, <2>2, <3>1, <3>4, <4>2 DEF PathInv
      <4> QED
        BY <3>1, <4>3 DEF Implements
    <3>5. CASE call.path # <<>>
      <4>1. 0 \in 0 .. Len(call.path) - 1 /\ Suffix(call.path, call.path, 0)
        BY <1>0, <3>5 DEF Suffix
      <4>2. set \in View!Datasets' /\ dir_obj' \in View!FileEnds(set, 0)'
        BY <1>1, <3>2, <3>3, SameView
      <4>3. Suffix(names', call.path', 0)
        BY <1>0, <3>1, <4>1
      <4>4. PathInv'
        BY <1>0, <3>1, <3>5, <4>1, <4>2, <4>3 DEF PathInv
      <4> QED
        BY <3>1, <4>4 DEF Implements
    <3> QED
      BY <3>4, <3>5
  <2> QED
    BY <2>1, <2>2
<1>5. CASE View!Lacks(dir_obj, "ROOT") /\ r = NotFound
  <2>1. Return(NotFound)
    BY <1>2, <1>5 DEF NotFound, Err
  <2>2. View!Missing
    BY <1>1, <1>5 DEF View!Missing
  <2> QED
    BY <1>0, <2>1, <2>2, NoName DEF Implements
<1>6. CASE ~View!HasZap(dir_obj) /\ Trouble(r)
  <2>1. Return(r)
    BY <1>2, <1>6, TroubleIsErr
  <2>2. View!Blocked
    BY <1>1, <1>6 DEF View!Blocked
  <2> QED
    BY <1>0, <1>6, <2>1, <2>2, Refused DEF Implements
<1> QED
  BY <1>3, <1>4, <1>5, <1>6

LEMMA ComponentStep ==
  ASSUME PathInv, Component
  PROVE  Implements
<1>0. /\ world \in Worlds /\ call \in PathCalls /\ pc = "path" /\ pc # "done"
      /\ call.path \in Seq(Components) /\ result = Pending
  BY CallsAssumption DEF PathInv, Component
<1>1. PICK set \in View!Datasets, k \in 0 .. Len(call.path) - 1 :
        Suffix(names, call.path, k) /\ dir_obj \in View!FileEnds(set, k)
  BY <1>0 DEF PathInv
<1>2. k \in 0 .. Len(call.path) /\ k \in Nat /\ names # <<>> /\ call.path # <<>>
  <2>1. Len(call.path) \in Nat /\ k \in Nat /\ k <= Len(call.path) - 1
    BY <1>0
  <2>2. Len(names) = Len(call.path) - k
    BY <1>1 DEF Suffix
  <2>3. Len(names) # 0 /\ Len(call.path) # 0 /\ k \in 0 .. Len(call.path)
    BY <2>1, <2>2
  <2> QED
    BY <2>1, <2>3
<1>3. /\ names[1] = call.path[k + 1] /\ Len(names) = Len(call.path) - k
      /\ Suffix(Tail(names), call.path, k + 1)
  BY <1>0, <1>1, <1>2, NextName
<1>4. dir_obj[1] = set
  BY <1>1, <1>2, FileSet
<1> DEFINE n == call.path[k + 1]
           r == zap_lookup(dir_obj, n)
           v == View!Value(dir_obj, n)
<1>5. IF ~r.ok THEN Return(r)
      ELSE /\ value' = r.val /\ dir_obj' = <<set, ObjOf(r.val)>> /\ names' = Tail(names)
           /\ pc' = IF Len(names) = 1 THEN "target" ELSE "path"
           /\ UNCHANGED <<world, call, result>>
  BY <1>3, <1>4 DEF Component
<1>6. \/ View!Has(dir_obj, n) /\ r = Ok(v)
      \/ View!Lacks(dir_obj, n) /\ r = NotFound
      \/ ~View!HasZap(dir_obj) /\ Trouble(r)
  BY Lookup
<1> HIDE DEF r
<1>7. CASE View!Has(dir_obj, n) /\ r = Ok(v)
  <2>1. /\ value' = v /\ dir_obj' = <<set, ObjOf(v)>> /\ names' = Tail(names)
        /\ pc' = IF Len(names) = 1 THEN "target" ELSE "path"
        /\ UNCHANGED <<world, call, result>>
    BY <1>5, <1>7 DEF Ok
  <2>2. UNCHANGED <<world, call>>
    BY <2>1
  <2>3. CASE Len(names) = 1
    <3>1. k = Len(call.path) - 1 /\ k + 1 = Len(call.path)
      <4>1. Len(call.path) \in Nat
        BY <1>0
      <4>2. Len(call.path) - k = 1
        BY <1>3, <2>3
      <4> QED
        BY <1>2, <4>1, <4>2
    <3>2. \E t \in 0 .. 15 : <<t, <<set, ObjOf(v)>>>> \in View!Targets /\ dirent_kind(v) = View!KindOf(t)
      BY <1>0, <1>1, <1>2, <1>4, <1>7, <3>1, TargetFound
    <3> HIDE DEF v
    <3>3. \E t \in 0 .. 15 : <<t, dir_obj'>> \in View!Targets' /\ dirent_kind(value') = View!KindOf(t)
      BY <2>1, <2>2, <3>2, SameView
    <3>4. dirent_kind(value)' = dirent_kind(value') /\ \A t : View!KindOf(t)' = View!KindOf(t)
      BY DEF dirent_kind, View!KindOf
    <3>5. PathInv'
      BY <1>0, <2>1, <2>3, <3>3, <3>4 DEF PathInv
    <3> QED
      BY <2>1, <3>5 DEF Implements
  <2>4. CASE Len(names) # 1
    <3>1. k + 1 \in 0 .. Len(call.path) - 1
      BY <1>0, <1>1, <1>3, <2>4
    <3>2. dir_obj' \in View!FileEnds(set, k + 1)
      BY <1>0, <1>1, <1>7, <2>1, FileGrows
    <3>3. set \in View!Datasets' /\ dir_obj' \in View!FileEnds(set, k + 1)'
      BY <1>1, <2>2, <3>2, SameView
    <3>4. Suffix(names', call.path', k + 1)
      BY <1>3, <2>1
    <3>5. PathInv'
      BY <1>0, <2>1, <2>4, <3>1, <3>3, <3>4 DEF PathInv
    <3> QED
      BY <2>1, <3>5 DEF Implements
  <2> QED
    BY <2>3, <2>4
<1>8. CASE View!Lacks(dir_obj, n) /\ r = NotFound
  <2>1. Return(NotFound)
    BY <1>5, <1>8 DEF NotFound, Err
  <2>2. View!Missing
    BY <1>1, <1>8 DEF View!Missing
  <2> QED
    BY <1>0, <2>1, <2>2, NoName DEF Implements
<1>9. CASE ~View!HasZap(dir_obj) /\ Trouble(r)
  <2>1. Return(r)
    BY <1>5, <1>9, TroubleIsErr
  <2>2. View!Blocked
    BY <1>1, <1>9 DEF View!Blocked
  <2> QED
    BY <1>0, <1>9, <2>1, <2>2, Refused DEF Implements
<1> QED
  BY <1>6, <1>7, <1>8, <1>9

\* The kinds that are told apart.
LEMMA Kinds ==
  ASSUME NEW t
  PROVE  /\ View!KindOf(t) = "Directory" <=> t = 4
         /\ View!KindOf(t) = "Regular" <=> t = 8
BY DEF View!KindOf

LEMMA DirectoryTargetStep ==
  ASSUME PathInv, DirectoryTarget
  PROVE  Implements
<1>0. /\ world \in Worlds /\ call \in PathCalls /\ pc = "target" /\ pc # "done"
      /\ call.op = "read_dir" /\ result = Pending
  BY DEF PathInv, DirectoryTarget
<1>1. PICK t \in 0 .. 15 : <<t, dir_obj>> \in View!Targets /\ dirent_kind(value) = View!KindOf(t)
  BY <1>0 DEF PathInv
<1>2. CASE t # 4
  <2>1. Return(NotADirectory)
    BY <1>1, <1>2, Kinds DEF DirectoryTarget
  <2>2. result' = NotADirectory
    BY <1>0, <2>1 DEF Return
  <2>3. dir_obj \in View!OfType(View!Types \ {4})
    BY <1>1, <1>2 DEF View!OfType, View!Types
  <2>4. result' # Pending /\ View!Promised(result')
    BY <1>0, <2>2, <2>3 DEF View!Promised, NotADirectory, Err, Pending, View!NotADirectory, View!Err
  <2> QED
    BY <1>0, <2>1, <2>4, Returns DEF Implements
<1>3. CASE t = 4
  <2>1. pc' = "list" /\ UNCHANGED <<world, call, names, dir_obj, value, result>>
    BY <1>1, <1>3, Kinds DEF DirectoryTarget
  <2>2. dir_obj \in View!OfType({4})
    BY <1>1, <1>3 DEF View!OfType
  <2>3. call.path # <<>>
    BY <1>1 DEF View!Targets
  <2>4. dir_obj \in View!Listed
    BY <2>2, <2>3 DEF View!Listed
  <2>5. UNCHANGED <<world, call>>
    BY <2>1
  <2>6. dir_obj' \in View!Listed'
    BY <2>1, <2>4, <2>5, SameView
  <2>7. PathInv'
    BY <1>0, <2>1, <2>6 DEF PathInv
  <2> QED
    BY <2>1, <2>7 DEF Implements
<1> QED
  BY <1>2, <1>3

LEMMA ListDirectoryStep ==
  ASSUME PathInv, ListDirectory
  PROVE  Implements
<1>0. /\ world \in Worlds /\ pc = "list" /\ pc # "done" /\ result = Pending
      /\ call.op = "read_dir" /\ dir_obj \in View!Listed
  BY DEF PathInv, ListDirectory
<1> DEFINE r == ZapOf(dir_obj)
           z == View!Obj(dir_obj).zap
           v == [n \in DOMAIN z |-> [kind |-> dirent_kind(z[n]), object_id |-> ObjOf(z[n])]]
<1>1. CASE View!HasZap(dir_obj) /\ r = Ok(z)
  <2>1. Return(Ok(v))
    BY <1>1 DEF ListDirectory, Ok
  <2>2. result' = Ok(v)
    BY <1>0, <2>1 DEF Return
  <2>3. ASSUME NEW n \in DOMAIN z
        PROVE  \E t \in View!Types : v[n].kind = View!KindOf(t) /\ View!IsEntry(z[n], t, v[n].object_id)
    <3>1. z[n] \in 0 .. (16 * (ObjSpan * MidSpan) - 1)
      BY <1>0, <1>1, ZapValues DEF View!Has, View!Value
    <3>2. v[n].kind = dirent_kind(z[n]) /\ v[n].object_id = ObjOf(z[n])
      OBVIOUS
    <3> HIDE DEF v, z
    <3> QED
      BY <3>1, <3>2, EntryParts DEF View!Types
  <2>4. DOMAIN v = DOMAIN z
    OBVIOUS
  <2> HIDE DEF v
  <2>5. View!Listing(v)
    BY <1>0, <1>1, <2>3, <2>4 DEF View!Listing, View!Value
  <2>6. result' # Pending /\ View!Promised(result')
    BY <1>0, <2>2, <2>5 DEF View!Promised, Ok, Pending
  <2> QED
    BY <1>0, <2>1, <2>6, Returns DEF Implements
<1>2. CASE ~View!HasZap(dir_obj) /\ Trouble(r)
  <2> HIDE DEF r
  <2>1. ~r.ok
    BY <1>2, TroubleIsErr
  <2>2. Return(r)
    BY <2>1 DEF ListDirectory, r
  <2>3. View!Blocked
    BY <1>0, <1>2 DEF View!Blocked
  <2> QED
    BY <1>0, <1>2, <2>2, <2>3, Refused DEF Implements
<1> QED
  BY <1>1, <1>2, ZapRead

LEMMA StatTargetStep ==
  ASSUME PathInv, StatTarget
  PROVE  Implements
<1>0. /\ world \in Worlds /\ pc = "target" /\ pc # "done" /\ result = Pending
      /\ call.op \in {"stat", "exists"}
  BY DEF PathInv, StatTarget
<1>1. PICK t \in 0 .. 15 : <<t, dir_obj>> \in View!Targets /\ dirent_kind(value) = View!KindOf(t)
  BY <1>0 DEF PathInv
<1> DEFINE kind == dirent_kind(value)
           v(n) == [kind |-> kind, size |-> n]
<1>2. ASSUME NEW n, Return(Ok(v(n))),
             IF t = 8 THEN View!HasSize(dir_obj) /\ n = View!Size(dir_obj) ELSE n = 0
      PROVE  Implements
  <2>1. result' = IF call.op = "stat" THEN Ok(v(n)) ELSE Ok(TRUE)
    BY <1>0, <1>2 DEF Return, Ok
  <2>2. v(n).kind = View!KindOf(t) /\ v(n).size = n
    BY <1>1
  <2>3. View!Stat(v(n))
    <3>1. PICK x \in View!Targets : x = <<t, dir_obj>>
      BY <1>1
    <3> HIDE DEF v
    <3> QED
      BY <1>2, <2>2, <3>1 DEF View!Stat
  <2>4. View!Exists
    BY <1>1, <1>2 DEF View!Exists
  <2> HIDE DEF v
  <2>5. result' # Pending
    BY <2>1 DEF Ok, Pending
  <2>6. View!Promised(result')
    <3>1. CASE call.op = "stat"
      BY <2>1, <2>3, <3>1 DEF View!Promised, Ok
    <3>2. CASE call.op = "exists"
      BY <2>1, <2>4, <3>2 DEF View!Promised, Ok
    <3> QED
      BY <1>0, <3>1, <3>2
  <2> QED
    BY <1>0, <1>2, <2>5, <2>6, Returns DEF Implements
<1>3. CASE t # 8
  <2>1. Return(Ok(v(0)))
    BY <1>1, <1>3, Kinds DEF StatTarget, Ok
  <2> QED
    BY <1>2, <1>3, <2>1
<1>4. CASE t = 8 /\ View!HasSize(dir_obj) /\ FileSize = Ok(View!Size(dir_obj))
  <2>1. Return(Ok(v(View!Size(dir_obj))))
    BY <1>1, <1>4, Kinds DEF StatTarget, Ok
  <2> QED
    BY <1>2, <1>4, <2>1
<1>5. CASE t = 8 /\ ~View!HasSize(dir_obj) /\ Trouble(FileSize)
  <2>1. Return(FileSize)
    BY <1>1, <1>5, Kinds, TroubleIsErr DEF StatTarget
  <2>2. View!Blocked
    <3>1. dir_obj \in View!OfType({8})
      BY <1>1, <1>5 DEF View!OfType
    <3>2. call.op # "read_dir"
      BY <1>0
    <3> QED
      BY <1>5, <3>1, <3>2 DEF View!Blocked
  <2> QED
    BY <1>0, <1>5, <2>1, <2>2, Refused DEF Implements
<1> QED
  BY <1>0, <1>3, <1>4, <1>5, SizeRead

\* The bytes of an extent are read, or the file's data is damaged.
LEMMA RangeRead ==
  ASSUME PathInv, pc = "target", call.op \in {"read", "read_at"},
         dir_obj \in View!Files, NEW n, NEW off, View!Extent(dir_obj) = [off |-> off, n |-> n],
         n <= MAX_FILE_BYTES, Return(ReadRange(dir_obj, off, n))
  PROVE  Implements
<1>1. CASE View!Obj(dir_obj).data
  <2> DEFINE bytes == [k \in 1 .. n |-> <<dir_obj, off + k - 1>>]
  <2>1. result' = Ok(bytes)
    BY <1>1 DEF Return, ReadRange, View!Obj
  <2>2. bytes = View!Bytes(dir_obj, View!Extent(dir_obj)) /\ View!Extent(dir_obj).n <= MAX_FILE_BYTES
    BY DEF View!Bytes
  <2> HIDE DEF bytes
  <2>3. result' # Pending
    BY <2>1 DEF Ok, Pending
  <2>4. View!Promised(result')
    BY <2>1, <2>2 DEF View!Promised, Ok
  <2> QED
    BY <2>3, <2>4, Returns DEF Implements
<1>2. CASE ~View!Obj(dir_obj).data
  <2>1. Trouble(ReadRange(dir_obj, off, n))
    BY <1>2 DEF ReadRange, Trouble, View!Obj
  <2>2. View!Blocked
    BY <1>2 DEF View!Blocked
  <2> QED
    BY <2>1, <2>2, Refused DEF Implements
<1> QED
  BY <1>1, <1>2

\* A file that does not fit is refused.
LEMMA TooLarge ==
  ASSUME PathInv, pc = "target", call.op \in {"read", "read_at"},
         dir_obj \in View!Files, View!Extent(dir_obj).n > MAX_FILE_BYTES, Return(FileTooLarge)
  PROVE  Implements
<1>1. result' = FileTooLarge
  BY DEF Return
<1>2. result' # Pending /\ View!Promised(result')
  BY <1>1 DEF View!Promised, FileTooLarge, Err, Pending, View!FileTooLarge, View!Err
<1> QED
  BY <1>2, Returns DEF Implements

LEMMA ReadTargetStep ==
  ASSUME PathInv, ReadTarget
  PROVE  Implements
<1>0. /\ world \in Worlds /\ call \in PathCalls /\ pc = "target" /\ pc # "done" /\ result = Pending
      /\ call.op \in {"read", "read_at"} /\ call.off \in Nat /\ call.len \in Nat
  BY CallsAssumption DEF PathInv, ReadTarget
<1>1. PICK t \in 0 .. 15 : <<t, dir_obj>> \in View!Targets /\ dirent_kind(value) = View!KindOf(t)
  BY <1>0 DEF PathInv
<1>2. CASE t # 8
  <2>1. Return(NotARegularFile)
    BY <1>1, <1>2, Kinds DEF ReadTarget
  <2>2. result' = NotARegularFile
    BY <1>0, <2>1 DEF Return
  <2>3. dir_obj \in View!OfType(View!Types \ {8})
    BY <1>1, <1>2 DEF View!OfType, View!Types
  <2>4. result' # Pending /\ View!Promised(result')
    BY <1>0, <2>2, <2>3 DEF View!Promised, NotARegularFile, Err, Pending, View!NotARegularFile, View!Err
  <2> QED
    BY <1>0, <2>1, <2>4, Returns DEF Implements
<1>3. CASE t = 8 /\ ~View!HasSize(dir_obj) /\ Trouble(FileSize)
  <2>1. Return(FileSize)
    BY <1>1, <1>3, Kinds, TroubleIsErr DEF ReadTarget
  <2>2. View!Blocked
    <3>1. dir_obj \in View!OfType({8})
      BY <1>1, <1>3 DEF View!OfType
    <3>2. call.op # "read_dir"
      BY <1>0
    <3> QED
      BY <1>3, <3>1, <3>2 DEF View!Blocked
  <2> QED
    BY <1>0, <1>3, <2>1, <2>2, Refused DEF Implements
<1>4. CASE t = 8 /\ View!HasSize(dir_obj) /\ FileSize = Ok(View!Size(dir_obj)) /\ View!Size(dir_obj) \in Nat
  <2> DEFINE size == View!Size(dir_obj)
  <2>1. dir_obj \in View!Files
    BY <1>1, <1>4 DEF View!Files, View!OfType
  <2>2. IF call.op = "read"
        THEN Return(IF size > MAX_FILE_BYTES THEN FileTooLarge ELSE ReadRange(dir_obj, 0, size))
        ELSE Return(IF call.off >= size THEN Ok(<<>>)
                    ELSE IF want(size) > MAX_FILE_BYTES THEN FileTooLarge
                    ELSE ReadRange(dir_obj, call.off, want(size)))
    BY <1>1, <1>4, Kinds DEF ReadTarget, Ok
  <2>3. size \in Nat /\ MAX_FILE_BYTES \in Nat
    BY <1>4, SpansAssumption
  <2>4. View!Extent(dir_obj) =
          IF call.op = "read" THEN [off |-> 0, n |-> size]
          ELSE [off |-> call.off, n |-> IF call.off >= size THEN 0 ELSE want(size)]
    BY DEF View!Extent, View!WholeFile, View!Window, want
  <2>5. want(size) \in Int
    BY <1>0, <2>3 DEF want
  <2> HIDE DEF size
  <2>6. CASE call.op = "read" /\ size > MAX_FILE_BYTES
    <3>1. View!Extent(dir_obj) = [off |-> 0, n |-> size]
      BY <2>4, <2>6
    <3>2. View!Extent(dir_obj).n > MAX_FILE_BYTES
      BY <2>6, <3>1
    <3>3. Return(FileTooLarge)
      BY <2>2, <2>6
    <3> QED
      BY <1>0, <2>1, <3>2, <3>3, TooLarge
  <2>7. CASE call.op = "read" /\ ~(size > MAX_FILE_BYTES)
    <3>1. size <= MAX_FILE_BYTES
      BY <2>3, <2>7
    <3> QED
      BY <1>0, <2>1, <2>2, <2>4, <2>7, <3>1, RangeRead
  <2>8. CASE call.op = "read_at" /\ call.off >= size
    <3>1. Return(Ok(<<>>))
      BY <2>2, <2>8
    <3>2. result' = Ok(<<>>)
      BY <2>8, <3>1 DEF Return
    <3>3. View!Extent(dir_obj) = [off |-> call.off, n |-> 0]
      BY <2>4, <2>8
    <3>4. View!Bytes(dir_obj, View!Extent(dir_obj)) = <<>>
      BY <3>3 DEF View!Bytes
    <3>5. View!Extent(dir_obj).n <= MAX_FILE_BYTES
      BY <2>3, <3>3
    <3>6. result' # Pending
      BY <3>2 DEF Ok, Pending
    <3>7. View!Promised(result')
      BY <2>1, <2>8, <3>2, <3>4, <3>5 DEF View!Promised, Ok
    <3> QED
      BY <1>0, <3>1, <3>6, <3>7, Returns DEF Implements
  <2>9. CASE call.op = "read_at" /\ ~(call.off >= size) /\ want(size) > MAX_FILE_BYTES
    <3>0. call.op # "read"
      BY <2>9
    <3>1. View!Extent(dir_obj) = [off |-> call.off, n |-> want(size)]
      BY <2>4, <2>9, <3>0
    <3>2. View!Extent(dir_obj).n > MAX_FILE_BYTES
      BY <2>9, <3>1
    <3>3. Return(FileTooLarge)
      BY <2>2, <2>9, <3>0
    <3> QED
      BY <1>0, <2>1, <3>2, <3>3, TooLarge
  <2>10. CASE call.op = "read_at" /\ ~(call.off >= size) /\ ~(want(size) > MAX_FILE_BYTES)
    <3>1. want(size) <= MAX_FILE_BYTES
      BY <2>3, <2>5, <2>10
    <3> QED
      BY <1>0, <2>1, <2>2, <2>4, <2>10, <3>1, RangeRead
  <2> QED
    BY <1>0, <2>6, <2>7, <2>8, <2>9, <2>10
<1> QED
  BY <1>0, <1>2, <1>3, <1>4, SizeRead
-----------------------------------------------------------------------------
\* lib.rs read_dir, stat, exists, read and read_at: for every pool and every
\* call, the lookup takes one step of FileView, its answer, and stutters
\* before and after it.
THEOREM PathLookupImplementsFileView == PathSpec => KeepsPromise
<1>1. PathInit => PathInv /\ View!Init
  BY DEF PathInit, PathInv, View!Init, View!Pending, Pending
<1>2. PathInv /\ [PathNext]_pathVars => PathInv' /\ [View!Answer]_<<world, call, result>>
  <2> SUFFICES ASSUME PathInv, [PathNext]_pathVars
               PROVE  PathInv' /\ [View!Answer]_<<world, call, result>>
    OBVIOUS
  <2>1. CASE PathNext
    BY <2>1, ObjectDirectoryStep, DslChildStep, OpenHeadStep, RootDirectoryStep, ComponentStep,
       DirectoryTargetStep, ListDirectoryStep, StatTargetStep, ReadTargetStep
       DEF PathNext, Implements
  <2>2. CASE UNCHANGED pathVars
    <3>1. /\ world' = world /\ call' = call /\ pc' = pc /\ names' = names /\ dir_obj' = dir_obj
          /\ value' = value /\ result' = result
      BY <2>2 DEF pathVars
    <3>2. UNCHANGED <<world, call>>
      BY <3>1
    <3>3. dirent_kind(value)' = dirent_kind(value) /\ \A t : View!KindOf(t)' = View!KindOf(t)
      BY <3>1 DEF dirent_kind, View!KindOf
    <3>4. \A k : Suffix(names, call.dataset, k)' = Suffix(names, call.dataset, k)
      BY <3>1 DEF Suffix
    <3>5. \A k : Suffix(names, call.path, k)' = Suffix(names, call.path, k)
      BY <3>1 DEF Suffix
    <3>6. /\ (\A k : View!DslEnds(k)' = View!DslEnds(k)) /\ View!Datasets' = View!Datasets
          /\ (\A set, k : View!FileEnds(set, k)' = View!FileEnds(set, k))
          /\ View!Targets' = View!Targets /\ View!Listed' = View!Listed
      BY <3>2, SameView
    <3>7. PathInv'
      BY <3>1, <3>3, <3>4, <3>5, <3>6 DEF PathInv
    <3> QED
      BY <3>1, <3>7
  <2> QED
    BY <2>1, <2>2
<1> QED
  BY <1>1, <1>2, PTL DEF PathSpec, KeepsPromise, View!Spec
=============================================================================
