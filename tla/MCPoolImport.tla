---------------------------- MODULE MCPoolImport ----------------------------
(* PoolImport for TLC: pools whose labels and MOS vary in what each check    *)
(* of import looks at, on one to four devices.  A label is 2 units, a device *)
(* 9, so its end labels are at 4 and 6; the uberblock array has 2 slots of   *)
(* 8 KiB (4 of 4 KiB), shifts being counted from 2^14 bytes.                 *)
EXTENDS PoolImport, TLC

MCUnderstood == {"encryption", "hole_birth"}
MCRefused == {"raidz_expansion", "device_removal"}

Ub(txg, ts) == [txg |-> txg, timestamp |-> ts, raidz_reflow_info |-> 0]
DiskConfig == [state |-> "ok", missing |-> {}, mistyped |-> {}, guid |-> "A",
               features |-> {}, vdev_children |-> 1, type |-> "disk", nparity |-> 1,
               expand |-> FALSE, ashift |-> 12, children |-> <<>>]
\* The last label got one more uberblock than the first.
Slots(ub) == (<<0, 0>> :> ub) @@ (<<2, 0>> :> NoUb) @@
             (<<6, 8192>> :> [ub EXCEPT !.timestamp = @ + 1])
Device(config, ub) ==
  [config |-> config, device_size |-> 9, slots |-> Slots(ub)]
GoodMos == [readable |-> TRUE, refcount |-> [f \in {} |-> 0], salt |-> "none"]

Pool(ms, places, m) == [members |-> ms, bad |-> places, mos |-> [t \in 0 .. 3 |-> m]]
Single(c) == Pool(<<Device(c, Ub(1, 1))>>, {}, GoodMos)

\* One disk: every key missing or mistyped, alone and with a refused feature.
KeyNames == {"pool_guid", "name", "features_for_read", "vdev_children",
             "vdev_tree", "ashift", "type"}
Optional == {"features_for_read", "vdev_children"}
LabelPools ==
  {Single([DiskConfig EXCEPT !.missing = m, !.mistyped = t, !.features = f,
                             !.vdev_children = v, !.type = ty]) :
     m \in {{}} \cup {{k} : k \in KeyNames \ Optional},
     t \in {{}} \cup {{k} : k \in KeyNames},
     f \in SUBSET {"hole_birth", "device_removal", "future"},
     v \in {Absent, 1, 2}, ty \in {"disk", "draid", "root"}}
  \cup {Single([DiskConfig EXCEPT !.state = s]) : s \in {"badsum", "badnv", "badpair"}}
  \cup {Pool(<<>>, {}, GoodMos)}

\* One disk: the MOS, the uberblock and the ashift.
MosPools ==
  {Pool(<<Device([DiskConfig EXCEPT !.ashift = a],
                 [Ub(1, 1) EXCEPT !.raidz_reflow_info = r])>>, {},
        [readable |-> ok, refcount |-> counts, salt |-> s]) :
     a \in {9, 12, 13, 16, 300}, r \in {0, 7}, ok \in BOOLEAN,
     counts \in [{"hole_birth", "raidz_expansion", "future"} -> {0, 1}],
     s \in {"none", "32 bytes", "short", "unreadable"}}

\* Mirrors and RAID-Z1: members in any order, some absent, some unreadable,
\* one carrying another guid.
TreeConfig(type, g, n) ==
  [DiskConfig EXCEPT !.type = type, !.guid = g, !.vdev_children = Absent,
                     !.children = SubSeq(<<"A", "B", "C">>, 1, n)]
Orders == {<<"A", "B", "C">>, <<"B", "A", "C">>, <<"C", "A">>, <<"A", "X", "C">>,
           <<"B", "A", "C", "B">>, <<"A">>}
BadPlaces == {{}, {<<1, 0>>}, {<<2, 0>>}, {<<2, 2>>, <<2, 6>>},
              {<<2, 0>>, <<3, 0>>}, {<<1, 6>>, <<2, 0>>}}
TreePools ==
  {Pool([i \in DOMAIN o |->
           Device([TreeConfig(ty, o[i], n) EXCEPT !.nparity = p, !.expand = x,
                                                  !.missing = mi, !.mistyped = t],
                  Ub(1 + (i % 2), i))], places, GoodMos) :
     o \in Orders, ty \in {"mirror", "raidz"}, n \in {2, 3}, places \in BadPlaces,
     p \in {1, 2}, x \in BOOLEAN, mi \in {{}, {"children"}},
     t \in {{}, {"child"}, {"guid"}}}

\* Only the last label has an uberblock, and the host may not know the size.
EndPools == {Pool(<<[config |-> DiskConfig, device_size |-> d,
                     slots |-> (<<6, 8192>> :> Ub(1, 1))]>>, {}, GoodMos) : d \in {0, 9}}

MCPools == LabelPools \cup MosPools \cup TreePools \cup EndPools

\* A RAID-Z1 that lost one member and nothing else.
DegradedPools ==
  {Pool([i \in DOMAIN o |-> Device(TreeConfig("raidz", o[i], 3), Ub(1, 1))],
        places, GoodMos) :
     o \in {<<"A", "B", "C">>, <<"A", "C">>}, places \in {{}, {<<2, 0>>}, {<<3, 0>>}}}
=============================================================================
