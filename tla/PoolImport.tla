----------------------------- MODULE PoolImport -----------------------------
(***************************************************************************)
(* pool.rs import: member 0's label gives the configuration, its vdev_tree *)
(* the topology, all labels of the topology's members the active           *)
(* uberblock, and the Meta Object Set (MOS) rooted there the features and  *)
(* the checksum salt.  Every check that fails ends the import with its     *)
(* typed error.                                                            *)
(*                                                                         *)
(* A member is a record of what its labels hold: config (the nvlist of L0) *)
(* and slots (the uberblocks by label offset and slot address).  A place   *)
(* in `bad` cannot be read: <<member, label offset>>.                      *)
(***************************************************************************)
EXTENDS Integers, Sequences, FiniteSets, Outcome

CONSTANTS LABEL_SIZE,      \* size of a label, in device units
          ARRAY_SHIFT,     \* log2 of the size of a label's uberblock array
          READ_FEATURES_UNDERSTOOD,
          REFUSED_FEATURE_TOKENS,
          NoUb,            \* no uberblock (None)
          Pools            \* the pools to import: members, bad places, MOS

\* Members and children are lists.
IsList(s) == Len(s) \in Nat /\ DOMAIN s = 1 .. Len(s)
ASSUME PoolsAssumption ==
  \A p \in Pools : /\ IsList(p.members)
                   /\ \A i \in DOMAIN p.members : IsList(p.members[i].config.children)

VARIABLES members,   \* the devices handed to import, in the host's order
          bad,       \* the places that cannot be read
          mos,       \* the MOS each uberblock's txg roots
          pc,        \* next step of import
          topo,      \* the layout, with member indices
          at,        \* the slot to read next: child, label and slot numbers
          best,      \* the newest uberblock so far
          result,    \* what import returned
          seen       \* history: the valid uberblocks that were read

media == <<members, bad, mos>>
reader == <<pc, topo, at, best, result, seen>>
vars == <<media, reader>>

FirstSlot == [child |-> 1, label |-> 1, slot |-> 1]
Absent == 0   \* a RAID-Z child that was not found (None); members count from 1
Start == /\ pc = "config"
         /\ topo = <<>>
         /\ at = FirstSlot
         /\ best = NoUb
         /\ result = <<>>
         /\ seen = {}

Fail(e) == /\ pc' = "done"
           /\ result' = e
           /\ UNCHANGED <<topo, at, best, seen>>
-----------------------------------------------------------------------------
(* Labels.                                                                 *)

\* Slip: the two labels at the end are forgotten.
label_offsets_FrontOnly(device_size) == <<0, LABEL_SIZE>>
\* label_offsets: two labels in front, two at the end if the size is known
\* and leaves room for them.
label_offsets(device_size) ==
  LET end == device_size - (device_size % LABEL_SIZE)
  IN  <<0, LABEL_SIZE>> \o
      (IF end >= 4 * LABEL_SIZE
       THEN <<end - 2 * LABEL_SIZE, end - LABEL_SIZE>> ELSE <<>>)

\* read_nvpairs and the decoding after it: member i's configuration.
read_config(i) ==
  IF <<i, 0>> \in bad THEN Err("Io", "io_nvpairs")
  ELSE CASE members[i].config.state = "badsum" ->
              Err("BadLabel", "label_bad_checksum")
         [] members[i].config.state = "badnv" ->
              Err("BadLabel", "label_bad_magic")
         [] members[i].config.state = "badpair" ->
              Err("Inconsistent", "nv_decode")
         [] OTHER -> Ok(members[i].config)

\* nv_find, nv_u64, nv_str, nv_nvlist: a key may be missing or mistyped.
\* Absent features_for_read are no features, absent vdev_children Absent.
NvToken(key) ==
  CASE key \in {"pool_guid", "vdev_children", "ashift", "child guid"} -> "nv_u64"
    [] key \in {"name", "type"} -> "nv_str"
    [] key \in {"features_for_read", "vdev_tree"} -> "nv_nvlist"
    [] key = "children" -> "nv_children"
    [] key = "child" -> "nv_child"
Faulty(c, key) == key \in c.missing \cup c.mistyped
KeyError(c, key) ==
  IF key \in c.missing THEN NotFound ELSE Err("Inconsistent", NvToken(key))

\* The keys import looks up, in its order.
Keys == <<"pool_guid", "name", "features_for_read", "vdev_children",
          "vdev_tree", "ashift", "type">>
SoundUpTo(c, n) == \A k \in 1 .. n : ~Faulty(c, Keys[k])

\* check_read_feature.
FeatureToken(f) ==
  IF f \in REFUSED_FEATURE_TOKENS THEN f ELSE "feat_unknown_read_incompat"
check_read_features(fs) ==
  {Err("UnsupportedFeature", FeatureToken(f)) : f \in fs \ READ_FEATURES_UNDERSTOOD}

\* nv_child_guids.
nv_child_guids(c) ==
  LET keys == <<"children", "child", "child guid">>
      faulty == {k \in 1 .. 3 : Faulty(c, keys[k])}
  IN  IF faulty = {} THEN Ok(c.children)
      ELSE KeyError(c, keys[CHOOSE k \in faulty : \A j \in faulty : k <= j])

\* Slip: the guids are not compared.
find_member_by_guid_AnyGuid(guid) ==
  LET Decodes == {i \in DOMAIN members : read_config(i).ok}
  IN  IF Decodes = {} THEN Err("BadLabel", "label_pool_guid_mismatch")
      ELSE Ok(CHOOSE i \in Decodes : \A j \in Decodes : i <= j)
\* Slip: a label that does not decode ends the search.
find_member_by_guid_Strict(guid) ==
  LET Stops == {i \in DOMAIN members :
                  ~read_config(i).ok \/ members[i].config.guid = guid}
      first == CHOOSE i \in Stops : \A j \in Stops : i <= j
  IN  IF Stops = {} THEN Err("BadLabel", "label_pool_guid_mismatch")
      ELSE IF read_config(first).ok THEN Ok(first) ELSE read_config(first)
\* find_member_by_guid: the first member whose label carries guid.  A member
\* whose label does not decode is passed over; one that cannot be read ends
\* the search.
find_member_by_guid(guid) ==
  LET Matches(i) == /\ read_config(i).ok
                    /\ ~Faulty(members[i].config, "guid")
                    /\ members[i].config.guid = guid
      Stops == {i \in DOMAIN members : Matches(i) \/ <<i, 0>> \in bad}
      first == CHOOSE i \in Stops : \A j \in Stops : i <= j
  IN  IF Stops = {} THEN Err("BadLabel", "label_pool_guid_mismatch")
      ELSE IF Matches(first) THEN Ok(first) ELSE Err("Io", "io_nvpairs")

\* build_topology.
build_topology(c) ==
  LET found == [k \in DOMAIN c.children |-> find_member_by_guid(c.children[k])]
      lost  == {k \in DOMAIN found : ~found[k].ok}
  IN  CASE c.type \in {"disk", "file"} ->
             Ok([kind |-> "Single", children |-> <<1>>])
        [] c.type = "mirror" ->
             IF ~nv_child_guids(c).ok THEN nv_child_guids(c)
             ELSE IF lost = {}
             THEN Ok([kind |-> "Mirror",
                      children |-> [k \in DOMAIN found |-> found[k].val]])
             ELSE found[CHOOSE k \in lost : \A j \in lost : k <= j]
        [] c.type = "raidz" ->
             IF c.nparity # 1
             THEN Err("UnsupportedTopology", "topo_raidz_multiparity")
             ELSE IF c.expand
             THEN Err("UnsupportedFeature", "raidz_expansion")
             ELSE IF ~nv_child_guids(c).ok THEN nv_child_guids(c)
             ELSE IF Len(found) - Cardinality(lost) + 1 < Len(found)
             THEN Err("UnsupportedTopology", "topo_raidz_degraded")
             ELSE Ok([kind |-> "RaidZ1",
                      ashift |-> IF c.ashift > 255 THEN 9 ELSE c.ashift,
                      children |-> [k \in DOMAIN found |->
                                      IF k \in lost THEN Absent ELSE found[k].val]])
        [] c.type = "draid" -> Err("UnsupportedTopology", "topo_draid")
        [] OTHER -> Err("UnsupportedTopology", "topo_unknown")
-----------------------------------------------------------------------------
(* The uberblock scan.                                                     *)

\* UBERBLOCK_SHIFT_MIN and _MAX bound the slot size; log2 of bytes.
UberblockShift(ashift) == IF ashift < 10 THEN 10 ELSE IF ashift > 13 THEN 13 ELSE ashift
SlotCount(ashift) == 2 ^ (ARRAY_SHIFT - UberblockShift(ashift))
SlotAddress(ashift, i) == i * 2 ^ UberblockShift(ashift)

\* Slip: the timestamp is not looked at.
is_newer_than_Txg(u, v) == u.txg > v.txg
is_newer_than(u, v) == u.txg > v.txg \/ (u.txg = v.txg /\ u.timestamp > v.timestamp)

\* Topology::members: the members that are there, in child order.
TopologyMembers(layout) == SelectSeq(layout.children, LAMBDA i : i # Absent)

\* The loops of select_uberblock: over the topology's members, the labels of
\* each and the slots of each label.
ScanMember == TopologyMembers(topo)[at.child]
ScanLabels == label_offsets(members[ScanMember].device_size)
NextSlot(ashift) ==
  IF at.slot < SlotCount(ashift) THEN [at EXCEPT !.slot = @ + 1]
  ELSE IF at.label < Len(ScanLabels) THEN [at EXCEPT !.label = @ + 1, !.slot = 1]
  ELSE [FirstSlot EXCEPT !.child = at.child + 1]
ScanOver == at.child > Len(TopologyMembers(topo))

\* What reading a slot gives: UberBlock::from_bytes, or nothing when the read
\* fails, the checksum does not verify (torn) or the slot is empty.
ReadSlot(m, label, slot) ==
  IF <<m, label>> \in bad \/ <<label, slot>> \notin DOMAIN members[m].slots
  THEN NoUb ELSE members[m].slots[<<label, slot>>]
-----------------------------------------------------------------------------
(* The steps of import.                                                    *)

NoMembers ==
  /\ pc = "config"
  /\ members = <<>>
  /\ Fail(Err("BadLabel", "label_none"))
  /\ UNCHANGED media

BadConfig ==
  /\ pc = "config"
  /\ members # <<>>
  /\ ~read_config(1).ok
  /\ Fail(read_config(1))
  /\ UNCHANGED media

\* Member 0's configuration decoded.
Config == members[1].config
HaveConfig == pc = "config" /\ members # <<>> /\ read_config(1).ok

\* The label lists the features the MOS itself depends on; they are looked at
\* after the third key, the number of top-level vdevs after the fourth.
FeaturesOk == Config.features \subseteq READ_FEATURES_UNDERSTOOD
OneTopLevel == Config.vdev_children \in {Absent, 1}

BadKey ==
  /\ HaveConfig
  /\ \E k \in DOMAIN Keys :
       /\ Faulty(Config, Keys[k])
       /\ SoundUpTo(Config, k - 1)
       /\ k > 3 => FeaturesOk
       /\ k > 4 => OneTopLevel
       /\ Fail(KeyError(Config, Keys[k]))
  /\ UNCHANGED media

RefuseLabelFeature ==
  /\ HaveConfig
  /\ SoundUpTo(Config, 3)
  /\ \E e \in check_read_features(Config.features) : Fail(e)
  /\ UNCHANGED media

RefuseTopLevels ==
  /\ HaveConfig
  /\ SoundUpTo(Config, 4)
  /\ FeaturesOk
  /\ ~OneTopLevel
  /\ Fail(Err("UnsupportedTopology", "topo_multi_toplevel"))
  /\ UNCHANGED media

\* u8::try_from(ashift).unwrap_or(UBERBLOCK_SHIFT_MIN).
ScanAshift == IF Config.ashift > 255 THEN 10 ELSE Config.ashift

BuildTopology ==
  /\ HaveConfig
  /\ SoundUpTo(Config, Len(Keys))
  /\ FeaturesOk
  /\ OneTopLevel
  /\ LET layout == build_topology(Config)
     IN  \/ ~layout.ok /\ Fail(layout)
         \/ /\ layout.ok
            /\ topo' = layout.val
            /\ pc' = "scan"
            /\ UNCHANGED <<at, best, result, seen>>
  /\ UNCHANGED media

\* Slip: a slot that cannot be used is tried again.
ScanSlot_Again ==
  /\ pc = "scan"
  /\ ~ScanOver
  /\ LET ub == ReadSlot(ScanMember, ScanLabels[at.label],
                        SlotAddress(ScanAshift, at.slot - 1))
     IN  \/ /\ ub = NoUb
            /\ UNCHANGED <<at, best, seen>>
         \/ /\ ub # NoUb
            /\ at' = NextSlot(ScanAshift)
            /\ best' = IF best # NoUb /\ ~is_newer_than(ub, best) THEN best ELSE ub
            /\ seen' = seen \cup {ub}
  /\ UNCHANGED <<pc, topo, result, media>>
\* Slip: a slot that cannot be used ends the scan.
ScanSlot_Strict ==
  /\ pc = "scan"
  /\ ~ScanOver
  /\ LET ub == ReadSlot(ScanMember, ScanLabels[at.label],
                        SlotAddress(ScanAshift, at.slot - 1))
     IN  \/ ub = NoUb /\ Fail(Err("NoValidUberblock", "no_valid_uberblock"))
         \/ /\ ub # NoUb
            /\ at' = NextSlot(ScanAshift)
            /\ best' = IF best # NoUb /\ ~is_newer_than(ub, best) THEN best ELSE ub
            /\ seen' = seen \cup {ub}
            /\ UNCHANGED <<pc, topo, result>>
  /\ UNCHANGED media
ScanSlot ==
  /\ pc = "scan"
  /\ ~ScanOver
  /\ at' = NextSlot(ScanAshift)
  /\ LET ub == ReadSlot(ScanMember, ScanLabels[at.label],
                        SlotAddress(ScanAshift, at.slot - 1))
     IN  \/ /\ ub = NoUb
            /\ UNCHANGED <<best, seen>>
         \/ /\ ub # NoUb
            /\ best' = IF best # NoUb /\ ~is_newer_than(ub, best) THEN best ELSE ub
            /\ seen' = seen \cup {ub}
  /\ UNCHANGED <<pc, topo, result, media>>

\* Slip: an expansion under way is not noticed.
FinishScan_NoReflow ==
  /\ pc = "scan"
  /\ ScanOver
  /\ \/ best = NoUb /\ Fail(Err("NoValidUberblock", "no_valid_uberblock"))
     \/ /\ best # NoUb
        /\ pc' = "mos"
        /\ UNCHANGED <<topo, at, best, result, seen>>
  /\ UNCHANGED media
FinishScan ==
  /\ pc = "scan"
  /\ ScanOver
  /\ \/ best = NoUb /\ Fail(Err("NoValidUberblock", "no_valid_uberblock"))
     \/ /\ best # NoUb
        /\ best.raidz_reflow_info # 0
        /\ Fail(Err("UnsupportedFeature", "raidz_expansion"))
     \/ /\ best # NoUb
        /\ best.raidz_reflow_info = 0
        /\ pc' = "mos"
        /\ UNCHANGED <<topo, at, best, result, seen>>
  /\ UNCHANGED media

\* read_objset, read_object_dnode, check_mos_features and checksum_salt: the
\* blocks of the MOS may be unreadable at any of them, an active feature may
\* be one this reader does not have, and the salt may have the wrong length.
Mos == mos[best.txg]
ActiveFeatures == {f \in DOMAIN Mos.refcount : Mos.refcount[f] # 0}

MosUnreadable ==
  /\ pc = "mos"
  /\ ~Mos.readable
  /\ Fail(Err("Io", "io_block"))
  /\ UNCHANGED media

RefuseMosFeature ==
  /\ pc = "mos"
  /\ Mos.readable
  /\ \E e \in check_read_features(ActiveFeatures) : Fail(e)
  /\ UNCHANGED media

Opened ==
  /\ pc = "mos"
  /\ Mos.readable
  /\ ActiveFeatures \subseteq READ_FEATURES_UNDERSTOOD
  /\ IF Mos.salt \in {"none", "32 bytes"}
     THEN /\ result' = Ok([uberblock |-> best, topology |-> topo, salt |-> Mos.salt])
          /\ pc' = "done"
          /\ UNCHANGED <<topo, at, best, seen>>
     ELSE Fail(IF Mos.salt = "unreadable" THEN Err("Io", "io_block")
               ELSE Err("Inconsistent", "checksum_salt"))
  /\ UNCHANGED media

ImportStep ==
  \/ NoMembers \/ BadConfig \/ BadKey \/ RefuseLabelFeature
  \/ RefuseTopLevels \/ BuildTopology \/ ScanSlot \/ FinishScan
  \/ MosUnreadable \/ RefuseMosFeature \/ Opened

Init == /\ \E p \in Pools : members = p.members /\ bad = p.bad /\ mos = p.mos
        /\ Start

Spec == Init /\ [][ImportStep]_vars
FairSpec == Spec /\ WF_vars(ImportStep)
-----------------------------------------------------------------------------
TypeOK ==
  /\ pc \in {"config", "scan", "mos", "done"}
  /\ pc \in {"config", "scan"} => result = <<>>
  /\ pc = "done" => result.ok \in BOOLEAN
  /\ best \in seen \cup {NoUb}
  /\ NoUb \notin seen

Imported == pc = "done" /\ result.ok

\* pool.rs select_uberblock ("the highest valid (txg, timestamp) ... across all
\* four labels of every member in the topology"): no slot of a member in the
\* topology that can be read holds a newer uberblock than the one returned; the
\* two labels at the end count when the host knows the device's size.
NewestWins ==
  Imported =>
    \A k \in {n \in DOMAIN topo.children : topo.children[n] # Absent} :
      LET dev == members[topo.children[k]]
      IN  \A x \in DOMAIN dev.slots :
            /\ <<topo.children[k], x[1]>> \notin bad
            /\ dev.device_size = 0 => x[1] \in {0, LABEL_SIZE}
            /\ dev.slots[x] # NoUb
            => ~is_newer_than(dev.slots[x], result.val.uberblock)

\* pool.rs build_topology, find_member_by_guid: every child of an imported
\* mirror or RAID-Z1 is the member whose own label carries the child's guid,
\* and at most one child of a RAID-Z1 is absent.
ChildrenAreTheirMembers ==
  Imported /\ topo.kind # "Single" =>
    /\ Len(topo.children) = Len(Config.children)
    /\ \A k \in DOMAIN topo.children :
         topo.children[k] # Absent =>
           members[topo.children[k]].config.guid = Config.children[k]
    /\ \A j, k \in DOMAIN topo.children :
         topo.children[j] = Absent /\ topo.children[k] = Absent => j = k
    /\ topo.kind = "Mirror" => \A k \in DOMAIN topo.children : topo.children[k] # Absent

\* README.md "What it refuses", pool.rs check_read_feature: a pool that opened
\* has no active read feature, in its label or in the MOS of the selected
\* uberblock, that this reader does not have, one top-level vdev, and no
\* RAID-Z expansion.
OpenedMeansUnderstood ==
  Imported =>
    /\ Config.features \cup ActiveFeatures \subseteq READ_FEATURES_UNDERSTOOD
    /\ OneTopLevel
    /\ topo.kind \in {"Single", "Mirror", "RaidZ1"}
    /\ topo.kind = "RaidZ1" => Config.nparity = 1 /\ ~Config.expand
    /\ result.val.uberblock.raidz_reflow_info = 0

\* fuzz/README.md ("never a panic, an unbounded loop"): every import ends, opened
\* or refused.
ImportEnds == <>(pc = "done")

\* pool.rs build_topology ("raidz1 needs all but at most one column present to
\* read (parity reconstructs the missing one)"): an import is refused as
\* degraded only when two children's labels cannot be had.
DegradedMeansTwoLost ==
  pc = "done" /\ ~result.ok /\ result.token = "topo_raidz_degraded" =>
    \E j, k \in DOMAIN Config.children :
      /\ j # k
      /\ \A g \in {j, k} : \A i \in DOMAIN members :
           ~(read_config(i).ok /\ members[i].config.guid = Config.children[g])

\* README.md ("The active uberblock is chosen from all four labels of every
\* member, so a mirror member that missed the last writes can't win"): when
\* everything can be read, no member at all holds a newer uberblock.
NoStaleMemberWins ==
  Imported /\ bad = {} =>
    \A m \in DOMAIN members : \A x \in DOMAIN members[m].slots :
      \/ members[m].slots[x] = NoUb
      \/ ~is_newer_than(members[m].slots[x], result.val.uberblock)
=============================================================================
