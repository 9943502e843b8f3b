---------------------------- MODULE LabelConfig -----------------------------
(***************************************************************************)
(* phys/label.rs, with the keys of phys/pool.rs, phys/vdev.rs and          *)
(* phys/feature.rs: the configuration of a label, decoded from its nv      *)
(* list, and the children of its vdev tree, decoded one by one.  All       *)
(* errors are one.  A text is four bytes, one word that stands for it.     *)
(***************************************************************************)
EXTENDS NvLists, FiniteSetsExt

VARIABLES config,   \* what LabelConfig::from_list returned
          kids,     \* the children decoded so far
          kidOff    \* the offset of the iterator over the children

configVars == <<config, kids, kidOff>>

\* VdevType::try_from, and the types that LabelVdevTree supports.
VdevTypes == {"root", "mirror", "replacing", "raidz", "disk", "file", "missing", "spare", "log",
              "l2cache", "hole", "indirect", "draid", "dspare"}
\* PoolConfigKey::try_from: the key of a cache device's ashift is not known.
PoolKeys == {"comment", "compatibility", "errata", "features_for_read", "guid", "hostid", "hostname",
  "is_log", "is_spare", "name", "pool_guid", "split_guid", "state", "top_guid", "txg",
  "vdev_children", "vdev_tree", "version"}
\* VdevTreeKey::try_from.
VdevTreeKeys == {"ashift", "asize", "create_txg", "children", "devid", "guid", "id", "is_log",
  "metaslab_array", "metaslab_shift", "nparity", "path", "phys_path", "type", "whole_disk"}
\* Feature::try_from: three of the forty-one.
Features == {"blake3", "lz4_compress", "zstd_compress"}

TextList == <<"root", "mirror", "replacing", "raidz", "disk", "file", "missing", "spare", "log", "l2cache",
  "hole", "indirect", "draid", "dspare", "comment", "compatibility", "errata", "features_for_read", "guid",
  "hostid", "hostname", "is_log", "is_spare", "name", "pool_guid", "split_guid", "state", "top_guid", "txg",
  "vdev_children", "vdev_tree", "version", "ashift", "asize", "create_txg", "children", "devid", "id",
  "metaslab_array", "metaslab_shift", "nparity", "path", "phys_path", "type", "whole_disk", "blake3",
  "lz4_compress", "zstd_compress">>
\* The words of a text, and the text of the words of a name or string.
Spelled(s) == <<4, 100 + (CHOOSE i \in DOMAIN TextList : TextList[i] = s)>>
TextOf(ws) == IF Len(ws) = 2 /\ ws[1] = 4 /\ ws[2] - 100 \in DOMAIN TextList THEN TextList[ws[2] - 100] ELSE "other"
-----------------------------------------------------------------------------
\* The first pair of a name, which is what find returns (a mutant: the last).
Named(ps, key) == {i \in DOMAIN ps : TextOf(ps[i].name) = key}
find_Last(ps, key) == ps[Max(Named(ps, key))]
find(ps, key) == ps[Min(Named(ps, key))]
Value(p) == WordsOf(p.at.lo, p.at.hi - p.at.lo)

\* Required keys are there, and keys that are there have their type.
Has(ps, types) == \A k \in DOMAIN types : Named(ps, k) # {} /\ find(ps, k).type = types[k]
May(ps, types) == \A k \in DOMAIN types : Named(ps, k) # {} => find(ps, k).type = types[k]
\* The loops that look for unknown and for unexpected fields (a mutant: for
\* unknown ones only).
Expects_Known(ps, known, expected) == \A i \in DOMAIN ps : TextOf(ps[i].name) \in known
Expects(ps, known, expected) == \A i \in DOMAIN ps : TextOf(ps[i].name) \in known \cap expected
\* A u64 that is one of an enumeration.
OneOf(ps, key, numbers) == Named(ps, key) # {} => \E n \in numbers : Value(find(ps, key)) = <<0, n>>

\* FeatureSet::from_nv_list: flags with known names.
FeatureSet_from_nv_list(l) ==
  LET w == Walk(l)
  IN IF w.ok /\ \A i \in DOMAIN w.pairs : w.pairs[i].type = Types.Boolean /\ TextOf(w.pairs[i].name) \in Features
     THEN [ok |-> TRUE, val |-> {TextOf(w.pairs[i].name) : i \in DOMAIN w.pairs}]
     ELSE [ok |-> FALSE, val |-> {}]

Num == Types.Uint64
Txt == Types.String
All64(keys) == [k \in keys |-> Num]
Both(f, g) == [k \in DOMAIN f \cup DOMAIN g |-> IF k \in DOMAIN f THEN f[k] ELSE g[k]]

\* What a field becomes: flags are compared with 0, lists decoded.
Flags64 == {"is_log", "is_spare", "whole_disk"}
Decoded(p, key, nested) ==
  CASE key \in Flags64 -> Value(p) # <<0, 0>>
    [] key \in DOMAIN nested -> nested[key]
    [] p.type = Types.NvListArray -> [at |-> p.at, count |-> p.count]
    [] OTHER -> Value(p)
Refused == [ok |-> FALSE, fields |-> <<>>]
Fields(ps, nested) == LET keys == {TextOf(ps[i].name) : i \in DOMAIN ps}
                      IN [ok |-> TRUE, fields |-> [k \in keys |-> Decoded(find(ps, k), k, nested)]]

\* LabelVdevTreeDisk, File, Mirror and RaidZ: required and optional fields.
TreeOf == [
  disk   |-> <<[path |-> Txt], Both([k \in {"devid", "phys_path"} |-> Txt], All64({"whole_disk"}))>>,
  file   |-> <<[path |-> Txt], <<>>>>,
  mirror |-> <<[children |-> Types.NvListArray], <<>>>>,
  raidz  |-> <<[children |-> Types.NvListArray], All64({"nparity"})>>]
TreeRequired == Both(All64({"ashift", "asize", "guid", "id", "metaslab_array", "metaslab_shift"}), [type |-> Txt])
TreeOptional == All64({"create_txg", "is_log"})
VdevTree_from_list(l) ==
  LET w == Walk(l)
      ps == w.pairs
      type == TextOf(Value(find(ps, "type")))
      accepted == /\ w.ok /\ Has(ps, TreeRequired) /\ May(ps, TreeOptional)
                  /\ type \in DOMAIN TreeOf
                  /\ Has(ps, TreeOf[type][1]) /\ May(ps, TreeOf[type][2])
                  /\ Expects(ps, VdevTreeKeys, DOMAIN TreeRequired \cup DOMAIN TreeOptional
                                               \cup DOMAIN TreeOf[type][1] \cup DOMAIN TreeOf[type][2])
  IN IF accepted THEN Fields(ps, <<>>) ELSE Refused

\* LabelVdevChild::from_list.
ChildRequired == Both(All64({"id", "guid"}), [k \in {"path", "type"} |-> Txt])
ChildOptional == All64({"create_txg"})
Child_from_list(l) ==
  LET w == Walk(l)
      accepted == /\ w.ok /\ Has(w.pairs, ChildRequired) /\ May(w.pairs, ChildOptional)
                  /\ TextOf(Value(find(w.pairs, "type"))) \in VdevTypes
                  /\ Expects(w.pairs, VdevTreeKeys, DOMAIN ChildRequired \cup DOMAIN ChildOptional)
  IN IF accepted THEN Fields(w.pairs, <<>>) ELSE Refused

\* PoolState, SpaVersion and PoolErrata::try_from.
PoolStates == 0..4
SpaVersions == (1..28) \cup {5000}
PoolErratas == 0..4

\* LabelConfigSpare and LabelConfigL2Cache::from_list.
SpareRequired == All64({"guid", "state", "version"})
L2CacheRequired == All64({"ashift", "guid", "state", "version"})
Small_from_list(ps, required) ==
  IF Has(ps, required) /\ OneOf(ps, "version", SpaVersions) /\ Expects(ps, PoolKeys, DOMAIN required)
  THEN Fields(ps, <<>>) ELSE Refused

\* LabelConfigStorage::from_list.
StorageRequired == Both(All64({"guid", "pool_guid", "state", "top_guid", "txg", "version"}),
                        [name |-> Txt, vdev_tree |-> Types.NvList])
StorageOptional == Both(All64({"errata", "hostid", "is_log", "is_spare", "split_guid", "vdev_children"}),
  Both([k \in {"comment", "compatibility", "hostname"} |-> Txt], [features_for_read |-> Types.NvList]))
ListOf(ps, key) == from_partial(find(ps, key).at).list
Storage_from_list(ps) ==
  LET tree == VdevTree_from_list(ListOf(ps, "vdev_tree"))
      features == IF Named(ps, "features_for_read") = {} THEN [ok |-> TRUE, val |-> {}]
                  ELSE FeatureSet_from_nv_list(ListOf(ps, "features_for_read"))
      accepted == /\ Has(ps, StorageRequired) /\ May(ps, StorageOptional)
                  /\ OneOf(ps, "version", SpaVersions) /\ OneOf(ps, "errata", PoolErratas)
                  /\ tree.ok /\ features.ok
                  /\ Expects(ps, PoolKeys, DOMAIN StorageRequired \cup DOMAIN StorageOptional)
  IN IF accepted THEN Fields(ps, [vdev_tree |-> tree.fields, features_for_read |-> features.val]) ELSE Refused

\* LabelConfig::from_list: the state decides which of them.
LabelConfig_from_list(l) ==
  LET w == Walk(l)
      ps == w.pairs
      state == Value(find(ps, "state"))[2]
  IN IF ~w.ok \/ ~Has(ps, All64({"state"})) \/ ~OneOf(ps, "state", PoolStates) THEN Refused
     ELSE CASE state = 3 -> Small_from_list(ps, SpareRequired)
            [] state = 4 -> Small_from_list(ps, L2CacheRequired)
            [] OTHER -> Storage_from_list(ps)
-----------------------------------------------------------------------------
NoConfig == [ok |-> FALSE, fields |-> <<>>, none |-> TRUE]
ConfigInit == config = NoConfig /\ kids = <<>> /\ kidOff = 0

\* children of LabelVdevTreeType: none for a leaf.
Children == IF config.ok /\ "vdev_tree" \in DOMAIN config.fields /\ "children" \in DOMAIN config.fields.vdev_tree
            THEN config.fields.vdev_tree.children ELSE [at |-> Window(0, 0), count |-> 0]

read_config ==
  /\ nvPc = "iter" /\ parent = All /\ got = <<>> /\ resets = 0
  /\ config' = LabelConfig_from_list(list)
  /\ nvPc' = "config" /\ kids' = <<>>
  /\ kidOff' = Children'.at.lo
  /\ UNCHANGED <<doc, parent, list, off, got, node, arr, resets>>
\* The program decodes the next child; it stops at an error.
next_child ==
  /\ nvPc = "config" /\ Len(kids) < Children.count
  /\ kids # <<>> => kids[Len(kids)].ok
  /\ LET e == ListElement(Window(kidOff, Children.at.hi))
     IN /\ kids' = Append(kids, IF e.ok THEN Child_from_list(from_partial(e.at).list) ELSE Refused)
        /\ kidOff' = IF e.ok THEN e.at.hi ELSE kidOff
  /\ UNCHANGED <<nvVars, config>>

ConfigNext == read_config \/ next_child
-----------------------------------------------------------------------------
\* The pairs of an encoded list by key; a name used twice stands for its first.
Keys(t) == {TextOf(t[i].name) : i \in DOMAIN t}
TreeValue(t, key) == t[Min({i \in DOMAIN t : TextOf(t[i].name) = key})].val
\* A decoded field says what was encoded.
Says(field, key, val) ==
  CASE key \in Flags64 -> field = (val # <<0, 0>>)
    [] key = "features_for_read" -> field = Keys(val)
    [] OTHER -> field = val
AllSaid(answer, t, apart) ==
  DOMAIN answer.fields = Keys(t)
  /\ \A k \in Keys(t) \ apart : Says(answer.fields[k], k, TreeValue(t, k))

\* label.rs LabelConfig, LabelVdevTree and LabelVdevChild::from_list: a
\* configuration that is accepted has exactly the fields of the list that was
\* encoded, each with its value, whatever their order: no field is dropped,
\* invented or taken from another list, in the configuration, its vdev tree
\* and each of its children.
ConfigIsTree ==
  nvPc = "config" /\ doc.hurt = NoWord /\ config.ok =>
    /\ AllSaid(config, doc.tree, {"vdev_tree"})
    /\ "vdev_tree" \in Keys(doc.tree) =>
         LET t == TreeValue(doc.tree, "vdev_tree")
         IN /\ AllSaid([fields |-> config.fields.vdev_tree], t, {"children"})
            /\ \A i \in DOMAIN kids : kids[i].ok => AllSaid(kids[i], TreeValue(t, "children")[i], {})

\* label.rs from_list: labels of storage and of spare devices are accepted
\* with all their children; lists that lack a required field, have one of
\* another type or an unknown or misplaced field, at any depth, are not.  The
\* label of a cache device is not either: PoolConfigKey::try_from does not know
\* the ashift that LabelConfigL2Cache requires (pool.rs:458).
LabelsDecode ==
  nvPc = "config" /\ doc.hurt = NoWord =>
    /\ doc.kind \in {"storage", "spare"} => config.ok /\ \A i \in DOMAIN kids : kids[i].ok
    /\ doc.kind \in {"bad", "cache"} => ~config.ok
    /\ doc.kind = "bad child" => \A i \in DOMAIN kids : kids[i].ok <=> i # Len(TreeValue(TreeValue(doc.tree, "vdev_tree"), "children"))
=============================================================================
