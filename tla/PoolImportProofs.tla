-------------------------- MODULE PoolImportProofs --------------------------
(***************************************************************************)
(* What import promises of a pool that it opened, for every pool: of its   *)
(* features, its layout and its members.                                   *)
(***************************************************************************)
EXTENDS PoolImport, FiniteSetTheorems, WellFoundedInduction, TLAPS

\* t is a layout of the children of configuration c.
Shape(t, c) ==
  /\ t.kind \in {"Single", "Mirror", "RaidZ1"}
  /\ t.kind = "RaidZ1" => c.nparity = 1 /\ ~c.expand
  /\ t.kind # "Single" =>
       /\ Len(t.children) = Len(c.children) /\ DOMAIN t.children = DOMAIN c.children
       /\ \A k \in DOMAIN c.children : t.children[k] # Absent =>
            members[t.children[k]].config.guid = c.children[k]
       /\ \A j, k \in DOMAIN c.children :
            t.children[j] = Absent /\ t.children[k] = Absent => j = k
  /\ t.kind = "Mirror" => \A k \in DOMAIN c.children : t.children[k] # Absent

\* The gates between a label and a layout.
PassedGates == FeaturesOk /\ OneTopLevel /\ Shape(topo, Config)

ImportInv ==
  /\ \E p \in Pools : members = p.members
  /\ TypeOK
  /\ pc \in {"scan", "mos"} \/ Imported => PassedGates
  /\ pc = "mos" => best # NoUb /\ best.raidz_reflow_info = 0
  /\ Imported => /\ result.val.uberblock = best /\ best.raidz_reflow_info = 0
                 /\ ActiveFeatures \subseteq READ_FEATURES_UNDERSTOOD
-----------------------------------------------------------------------------
\* The first of some positions in a list.
LEMMA First ==
  ASSUME NEW T \in SUBSET Nat, T # {}
  PROVE  LET f == CHOOSE i \in T : \A j \in T : i <= j IN f \in T
<1> DEFINE R == {p \in Nat \X Nat : p[1] < p[2]}
<1>1. IsWellFoundedOn(R, Nat)
  BY NatLessThanWellFounded DEF OpToRel
<1>2. \A x, y \in Nat : <<y, x>> \in R <=> y < x
  OBVIOUS
<1> HIDE DEF R
<1>3. PICK x \in T : \A y \in T : ~(<<y, x>> \in R)
  BY <1>1, WFMin
<1>4. ASSUME NEW y \in T
      PROVE  x <= y
  <2>1. x \in Nat /\ y \in Nat
    OBVIOUS
  <2>2. ~(y < x)
    BY <1>2, <1>3, <2>1
  <2> QED
    BY <2>1, <2>2
<1> QED
  BY <1>4

\* find_member_by_guid finds a member whose label carries the guid.
LEMMA Found ==
  ASSUME IsList(members), NEW guid, find_member_by_guid(guid).ok
  PROVE  LET i == find_member_by_guid(guid).val
         IN  i \in DOMAIN members /\ i # Absent /\ members[i].config.guid = guid
<1> DEFINE Matches(i) == /\ read_config(i).ok
                         /\ ~Faulty(members[i].config, "guid")
                         /\ members[i].config.guid = guid
           Stops == {i \in DOMAIN members : Matches(i) \/ <<i, 0>> \in bad}
           first == CHOOSE i \in Stops : \A j \in Stops : i <= j
<1>1. find_member_by_guid(guid) =
        IF Stops = {} THEN Err("BadLabel", "label_pool_guid_mismatch")
        ELSE IF Matches(first) THEN Ok(first) ELSE Err("Io", "io_nvpairs")
  BY DEF find_member_by_guid
<1>2. Stops # {} /\ Matches(first) /\ find_member_by_guid(guid).val = first
  <2> HIDE DEF Matches, Stops, first
  <2> QED
    BY <1>1 DEF Ok, Err
<1>3. Stops \in SUBSET Nat /\ Stops \subseteq DOMAIN members
  BY DEF IsList
<1>4. first \in Stops
  <2> HIDE DEF Stops
  <2> QED
    BY <1>2, <1>3, First
<1>5. members[first].config.guid = guid
  BY <1>2
<1> HIDE DEF first, Stops
<1>6. first \in DOMAIN members /\ first # Absent
  BY <1>3, <1>4 DEF IsList, Absent
<1> QED
  BY <1>2, <1>5, <1>6

\* Two children are lost, or at most one.
LEMMA OneLost ==
  ASSUME NEW n \in Nat, NEW lost \in SUBSET (1 .. n), ~(n - Cardinality(lost) + 1 < n)
  PROVE  \A j, k \in lost : j = k
<1>1. IsFiniteSet(1 .. n)
  BY FS_Interval
<1>2. IsFiniteSet(lost) /\ Cardinality(lost) \in Nat
  BY <1>1, FS_Subset, FS_CardinalityType
<1>3. SUFFICES ASSUME NEW j \in lost, NEW k \in lost, j # k PROVE FALSE
  OBVIOUS
<1>4. IsFiniteSet(lost \ {j}) /\ Cardinality(lost \ {j}) = Cardinality(lost) - 1
  BY <1>2, FS_RemoveElement
<1>5. Cardinality((lost \ {j}) \ {k}) = Cardinality(lost \ {j}) - 1 /\ IsFiniteSet((lost \ {j}) \ {k})
  BY <1>3, <1>4, FS_RemoveElement
<1>6. Cardinality((lost \ {j}) \ {k}) \in Nat
  BY <1>5, FS_CardinalityType
<1> QED
  BY <1>2, <1>4, <1>5, <1>6
-----------------------------------------------------------------------------
\* A layout that build_topology returns.
LEMMA LayoutShape ==
  ASSUME IsList(members), NEW c, IsList(c.children), build_topology(c).ok
  PROVE  Shape(build_topology(c).val, c)
<1> DEFINE t == build_topology(c).val
           D == DOMAIN c.children
           found == [k \in D |-> find_member_by_guid(c.children[k])]
           lost == {k \in DOMAIN found : ~found[k].ok}
           mirror == [k \in DOMAIN found |-> found[k].val]
           raidz == [k \in DOMAIN found |-> IF k \in lost THEN Absent ELSE found[k].val]
<1>1. D = 1 .. Len(c.children) /\ Len(c.children) \in Nat /\ DOMAIN found = D
  BY DEF IsList
<1>2. \A k \in D \ lost : /\ found[k].val # Absent
                          /\ members[found[k].val].config.guid = c.children[k]
  BY Found
<1>3. Len(mirror) = Len(c.children) /\ Len(raidz) = Len(c.children) /\ Len(found) = Len(c.children)
  BY <1>1
<1>4. CASE c.type \in {"disk", "file"}
  <2>1. t.kind = "Single"
    BY <1>4 DEF build_topology, Ok
  <2> QED
    BY <2>1 DEF Shape
<1>5. CASE c.type = "mirror"
  <2>1. build_topology(c) = IF ~nv_child_guids(c).ok THEN nv_child_guids(c)
                            ELSE IF lost = {} THEN Ok([kind |-> "Mirror", children |-> mirror])
                            ELSE found[CHOOSE k \in lost : \A j \in lost : k <= j]
    BY <1>5 DEF build_topology
  <2>2. lost # {} => ~found[CHOOSE k \in lost : \A j \in lost : k <= j].ok
    <3>1. lost \in SUBSET Nat /\ \A k \in lost : ~found[k].ok
      BY <1>1
    <3> HIDE DEF lost, found
    <3> QED
      BY <3>1, First
  <2>3. lost = {} /\ t = [kind |-> "Mirror", children |-> mirror]
    <3> HIDE DEF lost, found, mirror
    <3> QED
      BY <2>1, <2>2 DEF Ok
  <2>4. \A k \in D : mirror[k] = found[k].val /\ DOMAIN mirror = D
    BY <1>1
  <2>5. t.kind = "Mirror" /\ t.children = mirror
    BY <2>3
  <2> HIDE DEF mirror, found, lost
  <2> QED
    BY <1>1, <1>2, <1>3, <2>3, <2>4, <2>5 DEF Shape
<1>6. CASE c.type = "raidz"
  <2> DEFINE n == Len(c.children)
  <2>1. build_topology(c) =
          IF c.nparity # 1 THEN Err("UnsupportedTopology", "topo_raidz_multiparity")
          ELSE IF c.expand THEN Err("UnsupportedFeature", "raidz_expansion")
          ELSE IF ~nv_child_guids(c).ok THEN nv_child_guids(c)
          ELSE IF n - Cardinality(lost) + 1 < n
          THEN Err("UnsupportedTopology", "topo_raidz_degraded")
          ELSE Ok([kind |-> "RaidZ1", ashift |-> IF c.ashift > 255 THEN 9 ELSE c.ashift,
                   children |-> raidz])
    BY <1>3, <1>6 DEF build_topology
  <2>2. /\ c.nparity = 1 /\ ~c.expand /\ ~(n - Cardinality(lost) + 1 < n)
        /\ t.kind = "RaidZ1" /\ t.children = raidz
    <3> HIDE DEF lost, raidz
    <3> QED
      BY <2>1 DEF Ok, Err
  <2>3. lost \in SUBSET (1 .. n)
    BY <1>1
  <2>4. \A k \in D : raidz[k] = (IF k \in lost THEN Absent ELSE found[k].val) /\ DOMAIN raidz = D
    BY <1>1
  <2> HIDE DEF raidz, found, lost
  <2>5. \A j, k \in lost : j = k
    BY <1>1, <2>2, <2>3, OneLost
  <2>6. ASSUME NEW k \in D, raidz[k] # Absent
        PROVE  members[raidz[k]].config.guid = c.children[k]
    BY <1>2, <2>4, <2>6
  <2>7. ASSUME NEW j \in D, NEW k \in D, raidz[j] = Absent, raidz[k] = Absent
        PROVE  j = k
    <3>1. j \in lost /\ k \in lost
      BY <1>2, <2>4, <2>7
    <3> QED
      BY <2>5, <3>1
  <2>8. Len(raidz) = Len(c.children) /\ DOMAIN raidz = D
    BY <1>1, <1>3 DEF raidz
  <2> QED
    BY <2>2, <2>6, <2>7, <2>8 DEF Shape
<1>7. CASE c.type \notin {"disk", "file", "mirror", "raidz"}
  BY <1>7 DEF build_topology, Err
<1> QED
  BY <1>4, <1>5, <1>6, <1>7
-----------------------------------------------------------------------------
\* A refusal keeps the invariant.
LEMMA Refused ==
  ASSUME ImportInv, NEW e, e.ok = FALSE, Fail(e), UNCHANGED media
  PROVE  ImportInv'
BY DEF ImportInv, TypeOK, Fail, Imported, media

LEMMA NotOk ==
  /\ \A kind, token : Err(kind, token).ok = FALSE
  /\ \A i : read_config(i).ok \in BOOLEAN
  /\ \A c, key : KeyError(c, key).ok = FALSE
  /\ \A fs : \A e \in check_read_features(fs) : e.ok = FALSE
  /\ \A c : nv_child_guids(c).ok \in BOOLEAN
  /\ \A guid : find_member_by_guid(guid).ok \in BOOLEAN
<1>1. \A kind, token : Err(kind, token).ok = FALSE
  BY DEF Err
<1>2. \A i : read_config(i).ok \in BOOLEAN
  BY DEF read_config, Err, Ok
<1>3. \A c, key : KeyError(c, key).ok = FALSE
  BY DEF KeyError, NotFound, Err
<1>4. \A fs : \A e \in check_read_features(fs) : e.ok = FALSE
  BY DEF check_read_features, Err
<1>5. ASSUME NEW c PROVE nv_child_guids(c).ok \in BOOLEAN
  BY <1>3 DEF nv_child_guids, Ok
<1>6. \A guid : find_member_by_guid(guid).ok \in BOOLEAN
  BY DEF find_member_by_guid, Ok, Err
<1> QED
  BY <1>1, <1>2, <1>3, <1>4, <1>5, <1>6

LEMMA LayoutResult ==
  ASSUME NEW c, IsList(c.children)
  PROVE  build_topology(c).ok \in BOOLEAN
<1> DEFINE found == [k \in DOMAIN c.children |-> find_member_by_guid(c.children[k])]
           lost == {k \in DOMAIN found : ~found[k].ok}
           least == CHOOSE k \in lost : \A j \in lost : k <= j
<1>1. lost # {} => found[least].ok \in BOOLEAN
  <2>1. lost \in SUBSET Nat /\ \A k \in lost : found[k].ok \in BOOLEAN
    BY NotOk DEF IsList
  <2> HIDE DEF lost, found
  <2> QED
    BY <2>1, First
<1>2. CASE c.type = "mirror"
  <2> DEFINE mirror == [k \in DOMAIN found |-> found[k].val]
  <2>1. build_topology(c) = IF ~nv_child_guids(c).ok THEN nv_child_guids(c)
                            ELSE IF lost = {} THEN Ok([kind |-> "Mirror", children |-> mirror])
                            ELSE found[least]
    BY <1>2 DEF build_topology
  <2>2. nv_child_guids(c).ok \in BOOLEAN /\ \A v : Ok(v).ok \in BOOLEAN
    BY NotOk DEF Ok
  <2> HIDE DEF lost, found, least, mirror
  <2> QED
    BY <1>1, <2>1, <2>2, Zenon
<1>3. CASE c.type = "raidz"
  <2> DEFINE raidz == [k \in DOMAIN found |-> IF k \in lost THEN Absent ELSE found[k].val]
             few == Len(found) - Cardinality(lost) + 1 < Len(found)
             ashift == IF c.ashift > 255 THEN 9 ELSE c.ashift
  <2>1. build_topology(c) =
          IF c.nparity # 1 THEN Err("UnsupportedTopology", "topo_raidz_multiparity")
          ELSE IF c.expand THEN Err("UnsupportedFeature", "raidz_expansion")
          ELSE IF ~nv_child_guids(c).ok THEN nv_child_guids(c)
          ELSE IF few THEN Err("UnsupportedTopology", "topo_raidz_degraded")
          ELSE Ok([kind |-> "RaidZ1", ashift |-> ashift, children |-> raidz])
    BY <1>3 DEF build_topology
  <2>2. /\ nv_child_guids(c).ok \in BOOLEAN /\ \A v : Ok(v).ok \in BOOLEAN
        /\ \A kind, token : Err(kind, token).ok \in BOOLEAN
    BY NotOk DEF Ok
  <2> HIDE DEF raidz, few, ashift
  <2> QED
    BY <2>1, <2>2, Zenon
<1>4. CASE c.type \notin {"mirror", "raidz"}
  BY <1>4 DEF build_topology, Ok, Err
<1> QED
  BY <1>2, <1>3, <1>4

\* The gates look at the labels and the layout alone.
LEMMA GatesKept ==
  ASSUME members' = members, FeaturesOk, OneTopLevel, Shape(topo', Config)
  PROVE  PassedGates'
<1>1. Config' = Config
  BY DEF Config
<1>2. FeaturesOk' /\ OneTopLevel'
  BY <1>1 DEF FeaturesOk, OneTopLevel
<1>3. Shape(topo, Config)'
  BY <1>1 DEF Shape
<1> QED
  BY <1>2, <1>3 DEF PassedGates

\* Every step keeps the invariant.
LEMMA ImportInvStep ==
  ASSUME ImportInv, ImportStep
  PROVE  ImportInv'
<1>1. CASE NoMembers
  BY <1>1, NotOk, Refused DEF NoMembers
<1>2. CASE BadConfig
  <2>1. read_config(1).ok = FALSE /\ Fail(read_config(1)) /\ UNCHANGED media
    BY <1>2, NotOk DEF BadConfig
  <2> QED
    BY <2>1, Refused
<1>3. CASE BadKey
  <2>1. PICK k : Fail(KeyError(Config, Keys[k])) /\ UNCHANGED media
    BY <1>3 DEF BadKey
  <2> QED
    BY <2>1, NotOk, Refused
<1>4. CASE RefuseLabelFeature
  <2>1. PICK e \in check_read_features(Config.features) : Fail(e) /\ UNCHANGED media
    BY <1>4 DEF RefuseLabelFeature
  <2> QED
    BY <2>1, NotOk, Refused
<1>5. CASE RefuseTopLevels
  BY <1>5, NotOk, Refused DEF RefuseTopLevels
<1>6. CASE BuildTopology
  <2> DEFINE layout == build_topology(Config)
  <2>1. /\ pc = "config" /\ members # <<>> /\ FeaturesOk /\ OneTopLevel /\ UNCHANGED media
        /\ \/ ~layout.ok /\ Fail(layout)
           \/ /\ layout.ok /\ topo' = layout.val /\ pc' = "scan"
              /\ UNCHANGED <<at, best, result, seen>>
    BY <1>6 DEF BuildTopology, HaveConfig
  <2>2. IsList(members) /\ IsList(Config.children)
    <3>1. IsList(members) /\ \A i \in DOMAIN members : IsList(members[i].config.children)
      BY PoolsAssumption DEF ImportInv
    <3>2. 1 \in DOMAIN members
      BY <2>1, <3>1 DEF IsList
    <3> QED
      BY <3>1, <3>2 DEF Config
  <2>3. CASE ~layout.ok /\ Fail(layout)
    <3>1. layout.ok \in BOOLEAN
      BY <2>2, LayoutResult
    <3> HIDE DEF layout
    <3> QED
      BY <2>1, <2>3, <3>1, Refused
  <2>4. CASE /\ layout.ok /\ topo' = layout.val /\ pc' = "scan"
             /\ UNCHANGED <<at, best, result, seen>>
    <3>1. Shape(layout.val, Config)
      BY <2>2, <2>4, LayoutShape
    <3> HIDE DEF layout
    <3>2. members' = members
      BY <2>1 DEF media
    <3>3. PassedGates'
      BY <2>1, <2>4, <3>1, <3>2, GatesKept
    <3> QED
      BY <2>1, <2>4, <3>2, <3>3 DEF ImportInv, TypeOK, Imported
  <2> QED
    BY <2>1, <2>3, <2>4
<1>7. CASE ScanSlot
  <2> DEFINE ub == ReadSlot(ScanMember, ScanLabels[at.label], SlotAddress(ScanAshift, at.slot - 1))
  <2>1. /\ pc = "scan" /\ pc' = pc /\ topo' = topo /\ result' = result /\ members' = members
        /\ \/ ub = NoUb /\ best' = best /\ seen' = seen
           \/ /\ ub # NoUb /\ best' \in {best, ub} /\ seen' = seen \cup {ub}
              /\ best = NoUb => best' = ub
    BY <1>7 DEF ScanSlot, media
  <2> HIDE DEF ub
  <2>2. TypeOK'
    BY <2>1 DEF ImportInv, TypeOK
  <2>3. PassedGates'
    BY <2>1, GatesKept DEF ImportInv, PassedGates
  <2> QED
    BY <2>1, <2>2, <2>3 DEF ImportInv, Imported
<1>8. CASE FinishScan
  <2>1. /\ pc = "scan" /\ UNCHANGED media
        /\ \/ Fail(Err("NoValidUberblock", "no_valid_uberblock"))
           \/ Fail(Err("UnsupportedFeature", "raidz_expansion"))
           \/ /\ best # NoUb /\ best.raidz_reflow_info = 0 /\ pc' = "mos"
              /\ UNCHANGED <<topo, at, best, result, seen>>
    BY <1>8 DEF FinishScan
  <2>2. CASE /\ best # NoUb /\ best.raidz_reflow_info = 0 /\ pc' = "mos"
             /\ UNCHANGED <<topo, at, best, result, seen>>
    <3>1. members' = members
      BY <2>1 DEF media
    <3>2. PassedGates'
      BY <2>1, <2>2, <3>1, GatesKept DEF ImportInv, PassedGates
    <3> QED
      BY <2>1, <2>2, <3>1, <3>2 DEF ImportInv, TypeOK, Imported
  <2> QED
    BY <2>1, <2>2, NotOk, Refused
<1>9. CASE MosUnreadable
  BY <1>9, NotOk, Refused DEF MosUnreadable
<1>10. CASE RefuseMosFeature
  <2>1. PICK e \in check_read_features(ActiveFeatures) : Fail(e) /\ UNCHANGED media
    BY <1>10 DEF RefuseMosFeature
  <2> QED
    BY <2>1, NotOk, Refused
<1>11. CASE Opened
  <2>1. /\ pc = "mos" /\ ActiveFeatures \subseteq READ_FEATURES_UNDERSTOOD /\ UNCHANGED media
        /\ \/ /\ result' = Ok([uberblock |-> best, topology |-> topo, salt |-> Mos.salt])
              /\ pc' = "done" /\ UNCHANGED <<topo, at, best, seen>>
           \/ Fail(Err("Io", "io_block"))
           \/ Fail(Err("Inconsistent", "checksum_salt"))
    BY <1>11 DEF Opened
  <2>2. CASE /\ result' = Ok([uberblock |-> best, topology |-> topo, salt |-> Mos.salt])
             /\ pc' = "done" /\ UNCHANGED <<topo, at, best, seen>>
    <3>1. members' = members /\ mos' = mos /\ best' = best
      BY <2>1, <2>2 DEF media
    <3>2. PassedGates'
      BY <2>1, <2>2, <3>1, GatesKept DEF ImportInv, PassedGates
    <3>3. ActiveFeatures' = ActiveFeatures
      BY <3>1 DEF ActiveFeatures, Mos
    <3>4. result'.ok = TRUE /\ result'.val.uberblock = best
      BY <2>2 DEF Ok
    <3>5. TypeOK'
      BY <2>1, <2>2, <3>4 DEF ImportInv, TypeOK
    <3> QED
      BY <2>1, <2>2, <3>1, <3>2, <3>3, <3>4, <3>5 DEF ImportInv, Imported
  <2> QED
    BY <2>1, <2>2, NotOk, Refused
<1> QED
  BY <1>1, <1>2, <1>3, <1>4, <1>5, <1>6, <1>7, <1>8, <1>9, <1>10, <1>11 DEF ImportStep

\* So does a step that changes nothing of the import.
LEMMA ImportInvKept ==
  ASSUME ImportInv, UNCHANGED vars
  PROVE  ImportInv'
<1>1. /\ members' = members /\ mos' = mos /\ pc' = pc /\ topo' = topo /\ best' = best
      /\ result' = result /\ seen' = seen
  BY DEF vars, media, reader
<1>2. PassedGates => PassedGates'
  BY <1>1, GatesKept DEF PassedGates
<1>3. ActiveFeatures' = ActiveFeatures
  BY <1>1 DEF ActiveFeatures, Mos
<1> QED
  BY <1>1, <1>2, <1>3 DEF ImportInv, TypeOK, Imported
-----------------------------------------------------------------------------
\* pool.rs import: the reader's state is well formed, for every pool.
THEOREM ImportTypes == Spec => []TypeOK
<1>1. Init => ImportInv
  BY DEF Init, Start, ImportInv, TypeOK, Imported
<1>2. ImportInv /\ [ImportStep]_vars => ImportInv'
  BY ImportInvStep, ImportInvKept
<1>3. ImportInv => TypeOK
  BY DEF ImportInv
<1> QED
  BY <1>1, <1>2, <1>3, PTL DEF Spec

\* pool.rs check_read_feature, build_topology: a pool that opened has features
\* this reader understands, one top-level vdev of a supported layout and no
\* RAID-Z expansion, whatever its labels and its MOS hold.
THEOREM OpenedPoolIsUnderstood == Spec => []OpenedMeansUnderstood
<1>1. Init => ImportInv
  BY DEF Init, Start, ImportInv, TypeOK, Imported
<1>2. ImportInv /\ [ImportStep]_vars => ImportInv'
  BY ImportInvStep, ImportInvKept
<1>3. ImportInv => OpenedMeansUnderstood
  BY DEF ImportInv, OpenedMeansUnderstood, PassedGates, FeaturesOk, Shape
<1> QED
  BY <1>1, <1>2, <1>3, PTL DEF Spec

\* pool.rs find_member_by_guid, build_topology: each child of an imported mirror
\* or RAID-Z1 is the member whose label carries its guid, in whatever order the
\* host hands over the members, and at most one child of a RAID-Z1 is absent.
THEOREM ChildrenFound == Spec => []ChildrenAreTheirMembers
<1>1. Init => ImportInv
  BY DEF Init, Start, ImportInv, TypeOK, Imported
<1>2. ImportInv /\ [ImportStep]_vars => ImportInv'
  BY ImportInvStep, ImportInvKept
<1>3. ImportInv => ChildrenAreTheirMembers
  BY DEF ImportInv, ChildrenAreTheirMembers, PassedGates, Shape
<1> QED
  BY <1>1, <1>2, <1>3, PTL DEF Spec
=============================================================================
