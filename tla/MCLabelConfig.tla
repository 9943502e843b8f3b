--------------------------- MODULE MCLabelConfig ----------------------------
(***************************************************************************)
(* The labels of disks, files, mirrors, RAID-Z groups, spares and cache    *)
(* devices, in several orders, and lists that are nearly such a label.     *)
(***************************************************************************)
EXTENDS MCNvLists, LabelConfig

Field(key, type, val) == [name |-> Spelled(key), type |-> Types[type], val |-> val]
Number(key, n) == Field(key, "Uint64", <<0, n>>)
Words(key, k) == Field(key, "String", <<4, k>>)
Typed(type) == Field("type", "String", Spelled(type))
Flag(f) == Field(f, "Boolean", <<>>)

Child(i) == <<Typed("disk"), Number("id", i), Number("guid", 20 + i), Words("path", 70 + i)>>
            \o (IF i = 0 THEN <<Number("create_txg", 4)>> ELSE <<>>)
Kids(cs) == Field("children", "NvListArray", cs)
Special(type, cs) ==
  CASE type = "disk" -> <<Words("path", 70), Words("devid", 71), Words("phys_path", 72), Number("whole_disk", 1)>>
    [] type = "file" -> <<Words("path", 70)>>
    [] type = "mirror" -> <<Kids(cs)>>
    [] OTHER -> <<Number("nparity", 1), Kids(cs)>>
VdevTree(type, cs) ==
  <<Typed(type), Number("id", 0), Number("guid", 3), Number("metaslab_array", 4), Number("metaslab_shift", 29),
    Number("ashift", 12), Number("asize", 6), Number("is_log", 0)>> \o Special(type, cs)
Storage(type, state, cs) ==
  <<Number("version", 5000), Words("name", 80), Number("state", state), Number("txg", 9), Number("pool_guid", 1),
    Number("errata", 0), Number("is_spare", 1), Words("hostname", 81), Number("guid", 20),
    Number("top_guid", 3), Field("vdev_tree", "NvList", VdevTree(type, cs)),
    Field("features_for_read", "NvList", <<Flag("blake3"), Flag("lz4_compress")>>)>>
SpareLabel == <<Number("version", 28), Number("state", 3), Number("guid", 7)>>
CacheLabel == <<Number("version", 5000), Number("state", 4), Number("guid", 7), Number("ashift", 9)>>
Two == <<Child(0), Child(1)>>
VdevKinds == {"disk", "file", "mirror", "raidz"}

Rotations(l) == {SubSeq(l, k + 1, Len(l)) \o SubSeq(l, 1, k) : k \in 0..(Len(l) - 1)}
Without(l, i) == SubSeq(l, 1, i - 1) \o SubSeq(l, i + 1, Len(l))
\* A field lost, of another type of the same layout, or added.
Retyped(p) == CASE p.type = Types.Uint64 -> [p EXCEPT !.type = Types.Int64]
                [] p.type = Types.NvList -> [p EXCEPT !.type = Types.Uint64, !.val = <<0, 1>>]
                [] p.type = Types.NvListArray -> [p EXCEPT !.type = Types.NvList, !.val = <<>>]
                [] OTHER -> [p EXCEPT !.type = Types.Boolean, !.val = <<>>]
Spoilt(l, required, foreign) ==
  {Without(l, i) : i \in {j \in DOMAIN l : TextOf(l[j].name) \in required}}
  \cup {[l EXCEPT ![i] = Retyped(@)] : i \in DOMAIN l}
  \cup {Append(l, Number(f, 1)) : f \in foreign} \cup {<<U64(800, 1)>> \o l}
\* A field with a value that is not one of its enumeration.
With(l, p) == [i \in DOMAIN l |-> IF l[i].name = p.name THEN p ELSE l[i]]
WithTree(t) == With(Storage("disk", 0, <<>>), Field("vdev_tree", "NvList", t))
BadTrees ==
  UNION {Spoilt(VdevTree(type, Two), DOMAIN TreeRequired \cup DOMAIN TreeOf[type][1], {"txg"}) : type \in VdevKinds}
  \cup {Append(VdevTree("mirror", Two), Number("nparity", 1)), With(VdevTree("disk", <<>>), Typed("spare"))}
BadLists ==
  Spoilt(Storage("mirror", 0, Two), DOMAIN StorageRequired, {"asize"})
  \cup Spoilt(SpareLabel, DOMAIN SpareRequired, {"ashift", "txg"})
  \cup {With(Storage("file", 1, <<>>), p) :
          p \in {Number("state", 5), Number("version", 29), Number("errata", 5),
                 Field("features_for_read", "NvList", <<Flag("txg")>>),
                 Field("features_for_read", "NvList", <<Number("blake3", 1)>>)}}
  \cup {WithTree(t) : t \in BadTrees}
BadKids == {<<Child(0), c>> : c \in Spoilt(Child(1), DOMAIN ChildRequired, {"asize", "txg"})}

Kind(ts, kind) == {[Doc(t, Xdr) EXCEPT !.kind = kind] : t \in ts}
Labels ==
  Kind({Storage(type, state, Two) : type \in VdevKinds, state \in 0..2}, "storage")
  \cup Kind(Rotations(Storage("mirror", 0, Two)), "storage")
  \cup Kind({Append(Storage("disk", 0, <<>>), Number("txg", 8))}, "storage")
  \cup Kind({WithTree(t) : t \in Rotations(VdevTree("raidz", Two))}, "storage")
  \cup Kind(Rotations(SpareLabel), "spare")
  \cup Kind(BadLists, "bad")
  \cup Kind({WithTree(VdevTree("mirror", cs)) : cs \in BadKids}, "bad child")
CacheLabels == Kind(Rotations(CacheLabel), "cache")
MCLabelDocs == MCDocs \cup Labels \cup CacheLabels

LabelInit == NvInit /\ ConfigInit
LabelNext == (NvNext /\ UNCHANGED configVars) \/ ConfigNext
LabelSpec == LabelInit /\ [][LabelNext]_<<nvVars, configVars>>

=============================================================================
