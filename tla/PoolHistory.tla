---------------------------- MODULE PoolHistory -----------------------------
(***************************************************************************)
(* A mirror's life before it is imported.  The writer (OpenZFS, which is   *)
(* external: it is not part of lamzfs) commits transaction groups to the   *)
(* labels of the members that are online, may crash between the writes of  *)
(* a commit, loses members, gets them back and attaches new ones.  At any  *)
(* time lamzfs may be handed the devices, in any order.                    *)
(*                                                                         *)
(* A commit first writes the configuration to the labels, then the         *)
(* uberblock, to the slot its txg selects, in every label.                 *)
(***************************************************************************)
EXTENDS PoolImport, FiniteSetsExt

CONSTANTS Devices,     \* guids of the devices, in some order
          InitialTree, \* children of the mirror when it is created
          ASHIFT, LABELS, DEVICE_SIZE,
          BlankConfig, \* what a label that was never written decodes to
          MaxClock, MaxCrashes

VARIABLES clock,      \* timestamp of the last commit begun
          crashes,    \* commits that were cut short
          online,     \* positions in Devices of the members in use
          tree,       \* the mirror's children
          committed,  \* the uberblock of the last commit that completed
          holders     \* guids of the members it was written to

writer == <<clock, crashes, online, tree, committed, holders>>
allvars == <<writer, vars>>

Positions == DOMAIN Devices
Addresses == LABELS \X {SlotAddress(ASHIFT, n) : n \in 0 .. SlotCount(ASHIFT) - 1}
Blank(i) == [config |-> [BlankConfig EXCEPT !.guid = Devices[i]],
             device_size |-> DEVICE_SIZE,
             slots |-> [x \in Addresses |-> NoUb]]

HistoryInit ==
  /\ members = [i \in Positions |-> Blank(i)]
  /\ bad = {}
  /\ mos = [t \in 0 .. MaxClock |->
              [readable |-> TRUE, refcount |-> [f \in {} |-> 0], salt |-> "none"]]
  /\ pc = "host"
  /\ topo = <<>> /\ at = FirstSlot /\ best = NoUb /\ result = <<>> /\ seen = {}
  /\ clock = 0 /\ crashes = 0
  /\ online = {i \in Positions : \E k \in DOMAIN InitialTree : InitialTree[k] = Devices[i]}
  /\ tree = InitialTree
  /\ committed = NoUb
  /\ holders = {}

\* The writer continues after the highest txg its members hold.
Txgs(i) == {members[i].slots[x].txg : x \in {y \in Addresses : members[i].slots[y] # NoUb}}
NewUb == [txg |-> 1 + Max({0} \cup UNION {Txgs(i) : i \in online}),
          timestamp |-> clock + 1, raidz_reflow_info |-> 0]
NewSlot == SlotAddress(ASHIFT, NewUb.txg % SlotCount(ASHIFT))
NewConfig(i) == [members[i].config EXCEPT !.state = "ok", !.children = tree]

\* The members after configs reached the members in cs, the new uberblock the
\* labels full[i] of member i, and the members in torn lost the slot it goes to.
Written(cs, full, torn) ==
  [i \in Positions |->
     [members[i] EXCEPT
        !.config = IF i \in cs THEN NewConfig(i) ELSE @,
        !.slots = [x \in Addresses |->
                     IF x[2] = NewSlot /\ x[1] \in full[i] THEN NewUb
                     ELSE IF x[2] = NewSlot /\ i \in torn THEN NoUb ELSE @[x]]]]

\* Bound: a history has crashes or attached devices, not both.
MayCrash == crashes < MaxCrashes /\ tree = InitialTree
MayAttach == crashes = 0

Commit ==
  /\ pc = "host" /\ clock < MaxClock
  /\ members' = Written(online, [i \in Positions |-> IF i \in online THEN LABELS ELSE {}], {})
  /\ clock' = clock + 1
  /\ committed' = NewUb
  /\ holders' = {Devices[i] : i \in online}
  /\ UNCHANGED <<crashes, online, tree, bad, mos, reader>>

\* A crash before the last label write: some configurations, or all of them
\* and some uberblocks, front or end labels first, one slot torn.
Crash ==
  /\ pc = "host" /\ clock < MaxClock /\ MayCrash
  /\ \/ \E cs \in SUBSET online :
          members' = Written(cs, [i \in Positions |-> {}], {})
     \/ \E full \in [online -> {{}, {Min(LABELS)}, LABELS \ {Min(LABELS)}, LABELS}],
           torn \in SUBSET online :
          /\ \E i \in online : full[i] # LABELS
          /\ Cardinality(torn) <= 1
          /\ members' = Written(online,
                                [i \in Positions |-> IF i \in online THEN full[i] ELSE {}],
                                torn)
  /\ clock' = clock + 1
  /\ crashes' = crashes + 1
  /\ UNCHANGED <<online, tree, committed, holders, bad, mos, reader>>

\* A member may go when another one has the last commit.
Offline ==
  /\ pc = "host"
  /\ \E i \in online :
       /\ \E j \in online \ {i} : Devices[j] \in holders
       /\ online' = online \ {i}
  /\ UNCHANGED <<clock, crashes, tree, committed, holders, vars>>

Online ==
  /\ pc = "host"
  /\ \E i \in Positions \ online :
       /\ \E k \in DOMAIN tree : tree[k] = Devices[i]
       /\ online' = online \cup {i}
  /\ UNCHANGED <<clock, crashes, tree, committed, holders, vars>>

Attach ==
  /\ pc = "host" /\ MayAttach
  /\ \E i \in Positions :
       /\ \A k \in DOMAIN tree : tree[k] # Devices[i]
       /\ tree' = Append(tree, Devices[i])
       /\ online' = online \cup {i}
  /\ UNCHANGED <<clock, crashes, committed, holders, vars>>

\* The host hands the devices to import, in any order; it may not know their
\* sizes, or all labels but the first of one of them may be unreadable.
Hosted(order, size) ==
  [k \in DOMAIN order |-> [members[order[k]] EXCEPT !.device_size = size]]
Orders == {o \in [1 .. Len(Devices) -> Positions] : \A j, k \in DOMAIN o : o[j] = o[k] => j = k}
Import ==
  /\ pc = "host" /\ clock > 0
  /\ \E order \in Orders :
       \/ \E size \in {0, DEVICE_SIZE} : members' = Hosted(order, size) /\ bad' = {}
       \/ \E k \in DOMAIN order : /\ members' = Hosted(order, DEVICE_SIZE)
                                 /\ bad' = {k} \X (LABELS \ {0})
  /\ pc' = "config"
  /\ UNCHANGED <<mos, topo, at, best, result, seen, writer>>

Reader == ImportStep /\ UNCHANGED writer

HistoryNext ==
  \/ Commit \/ Crash \/ Offline \/ Online \/ Attach \/ Import
  \/ Reader

HistorySpec == HistoryInit /\ [][HistoryNext]_allvars
-----------------------------------------------------------------------------
\* pool.rs select_uberblock ("reading only one member's labels can pick a stale
\* tree"): whatever was lost, torn or left behind, an import that has in its
\* topology a member the last completed commit was written to returns that
\* commit's uberblock or a newer one.
NeverStale ==
  Imported /\ committed # NoUb
  /\ (\E k \in DOMAIN topo.children : members[topo.children[k]].config.guid \in holders)
  => LET u == result.val.uberblock
     IN  \/ u.txg > committed.txg
         \/ u.txg = committed.txg /\ u.timestamp >= committed.timestamp

\* pool.rs find_member_by_guid, select_uberblock: as long as every child named by
\* the first device's label is among the devices and has a label of its own, the
\* mirror opens, however the last commit was cut short.
CompleteMirrorOpens ==
  pc = "done" /\ committed # NoUb /\ Config.state = "ok"
  /\ (\A k \in DOMAIN Config.children : \E m \in DOMAIN members :
        members[m].config.guid = Config.children[k] /\ members[m].config.state = "ok")
  /\ (\E k \in DOMAIN Config.children : Config.children[k] \in holders)
  => result.ok
=============================================================================
