-------------------------- MODULE DatasetListProofs --------------------------
(***************************************************************************)
(* Zfs::datasets keeps its bounds and lists no path twice, for every graph *)
(* of DSL directories, every limit and every set of names.                 *)
(***************************************************************************)
EXTENDS DatasetList, TLAPS

Path == Seq(Names)
Entry == [name : Names, obj : Objects]
IsIn(p, s) == \E k \in DOMAIN s : s[k] = p

ListType ==
  /\ dsl \in Pools
  /\ out \in Seq(Path) /\ queue \in Seq(Path)
  /\ parent \in Path /\ children \in Seq(Entry)
  /\ listPc \in {"pop", "add", "done"}
  /\ \A j, k \in DOMAIN children : children[j].name = children[k].name => j = k

\* Paths come into the list under a parent that is in it, and a dataset in the
\* queue has none of its children in the list.
Fresh(q) == \A n \in Names : ~IsIn(Append(q, n), out)
ListInv ==
  /\ ListType
  /\ Bounded
  /\ ListedOnce
  /\ \A p \in Path, n \in Names : IsIn(Append(p, n), out) => IsIn(p, out)
  /\ \A j, k \in DOMAIN queue : queue[j] = queue[k] => j = k
  /\ \A k \in DOMAIN queue : Fresh(queue[k])
  /\ listPc = "add" =>
       /\ Len(parent) < MAX_DATASET_DEPTH
       /\ IsIn(parent, out) /\ ~IsIn(parent, queue)
       /\ \A k \in DOMAIN children : ~IsIn(Append(parent, children[k].name), out)
-----------------------------------------------------------------------------
\* A path is the parent of its children only, and of none of itself.
LEMMA AppendFacts ==
  ASSUME NEW p \in Path, NEW q \in Path, NEW m \in Names, NEW n \in Names
  PROVE  /\ Append(p, m) \in Path
         /\ Len(Append(p, m)) = Len(p) + 1
         /\ Append(p, m) = Append(q, n) => p = q /\ m = n
         /\ Append(p, m) # p
  <1>1. Append(p, m) \in Path /\ Len(Append(p, m)) = Len(p) + 1 /\ Len(p) \in Nat
    BY DEF Path
  <1>2. ASSUME Append(p, m) = Append(q, n) PROVE p = q /\ m = n
    <2>1. Len(p) = Len(q)  BY <1>2 DEF Path
    <2>2. \A i \in 1 .. Len(p) : p[i] = q[i]  BY <1>2, <2>1 DEF Path
    <2>3. m = n  BY <1>2, <2>1 DEF Path
    <2> QED  BY <2>1, <2>2, <2>3 DEF Path
  <1> QED  BY <1>1, <1>2

LEMMA FrontFacts ==
  ASSUME NEW s \in Seq(Path), s # <<>>
  PROVE  /\ Front(s) \in Seq(Path) /\ Last(s) \in Path
         /\ Len(s) \in DOMAIN s /\ s[Len(s)] = Last(s)
         /\ DOMAIN Front(s) = 1 .. Len(s) - 1
         /\ \A k \in DOMAIN Front(s) : k \in DOMAIN s /\ Front(s)[k] = s[k]
  BY DEF Front, Last

LEMMA PushFacts ==
  ASSUME NEW s \in Seq(Path), NEW p \in Path
  PROVE  /\ Append(s, p) \in Seq(Path) /\ Len(Append(s, p)) = Len(s) + 1
         /\ DOMAIN Append(s, p) = DOMAIN s \cup {Len(s) + 1}
         /\ Append(s, p)[Len(s) + 1] = p
         /\ \A k \in DOMAIN s : k # Len(s) + 1 /\ Append(s, p)[k] = s[k]
  OBVIOUS

LEMMA TailFacts ==
  ASSUME NEW s \in Seq(Entry), s # <<>>
  PROVE  /\ Head(s) = s[1] /\ 1 \in DOMAIN s /\ s[1].name \in Names
         /\ Tail(s) \in Seq(Entry)
         /\ \A k \in DOMAIN Tail(s) : k + 1 \in DOMAIN s /\ k + 1 # 1 /\ Tail(s)[k] = s[k + 1]
  <1>1. Head(s) = s[1] /\ 1 \in DOMAIN s /\ s[1] \in Entry  OBVIOUS
  <1>2. s[1].name \in Names  BY <1>1 DEF Entry
  <1>3. Tail(s) \in Seq(Entry) /\ DOMAIN Tail(s) = 1 .. Len(s) - 1  OBVIOUS
  <1>4. \A k \in DOMAIN Tail(s) : k + 1 \in DOMAIN s /\ k + 1 # 1 /\ Tail(s)[k] = s[k + 1]
    OBVIOUS
  <1> QED  BY <1>1, <1>2, <1>3, <1>4

\* A path that leaves the queue leaves its properties to the rest.
LEMMA PopKeeps ==
  ASSUME ListInv, queue # <<>>, queue' = Front(queue), UNCHANGED <<dsl, out>>
  PROVE  /\ queue' \in Seq(Path)
         /\ Bounded' /\ ListedOnce'
         /\ \A p \in Path, n \in Names : IsIn(Append(p, n), out') => IsIn(p, out')
         /\ \A j, k \in DOMAIN queue' : queue'[j] = queue'[k] => j = k
         /\ \A k \in DOMAIN queue' : Fresh(queue[k])' /\ queue'[k] = queue[k]
         /\ ~IsIn(Popped, queue') /\ IsIn(Popped, out) /\ Fresh(Popped)
  <1> USE DEF ListInv, ListType
  <1>1. /\ queue' \in Seq(Path) /\ Len(queue) \in DOMAIN queue /\ queue[Len(queue)] = Popped
        /\ DOMAIN queue' = 1 .. Len(queue) - 1
        /\ \A k \in DOMAIN queue' : k \in DOMAIN queue /\ queue'[k] = queue[k]
    BY FrontFacts DEF Popped
  <1>2. Bounded' /\ ListedOnce'  BY <1>1 DEF Bounded, ListedOnce
  <1>3. \A p : IsIn(p, out') <=> IsIn(p, out)  BY DEF IsIn
  <1>4. ~IsIn(Popped, queue')  BY <1>1 DEF IsIn
  <1>5. IsIn(Popped, out) /\ Fresh(Popped)  BY <1>1 DEF Bounded, IsIn
  <1>6. \A k \in DOMAIN queue' : Fresh(queue[k])'
    BY <1>1, <1>3 DEF Fresh
  <1> QED  BY <1>1, <1>2, <1>3, <1>4, <1>5, <1>6

\* The child that is added is new, and so are its own children.
LEMMA AddKeeps ==
  ASSUME ListInv, AddChild
  PROVE  ListInv'
  <1> DEFINE n == Head(children).name
             path == Append(parent, n)
  <1>a. /\ out \in Seq(Path) /\ queue \in Seq(Path) /\ parent \in Path /\ children \in Seq(Entry)
        /\ dsl \in Pools /\ listPc = "add" /\ children # <<>> /\ Len(out) < MAX_DATASETS
        /\ children' = Tail(children) /\ parent' = parent /\ dsl' = dsl /\ listPc' = "add"
    BY DEF ListInv, ListType, AddChild
  <1>b. \A j, k \in DOMAIN children : children[j].name = children[k].name => j = k
    BY DEF ListInv, ListType
  <1>c. Bounded /\ ListedOnce /\ \A j, k \in DOMAIN queue : queue[j] = queue[k] => j = k
    BY DEF ListInv
  <1>d. \A p \in Path, m \in Names : IsIn(Append(p, m), out) => IsIn(p, out)
    BY DEF ListInv
  <1>e. \A k \in DOMAIN queue : Fresh(queue[k])
    BY DEF ListInv
  <1>f. /\ Len(parent) < MAX_DATASET_DEPTH /\ IsIn(parent, out) /\ ~IsIn(parent, queue)
        /\ \A k \in DOMAIN children : ~IsIn(Append(parent, children[k].name), out)
    BY <1>a DEF ListInv
  <1>1. /\ n \in Names /\ children' \in Seq(Entry) /\ 1 \in DOMAIN children /\ children[1].name = n
        /\ \A k \in DOMAIN children' : k + 1 \in DOMAIN children /\ k + 1 # 1
                                       /\ children'[k] = children[k + 1]
    BY <1>a, TailFacts
  <1>2. \A j, k \in DOMAIN children' : children'[j].name = children'[k].name => j = k
    <2> SUFFICES ASSUME NEW j \in DOMAIN children', NEW k \in DOMAIN children',
                        children'[j].name = children'[k].name
                 PROVE  j = k
      OBVIOUS
    <2>1. j + 1 = k + 1  BY <1>1, <1>b
    <2>2. j \in Nat /\ k \in Nat  BY <1>1
    <2> QED  BY <2>1, <2>2
  <1>3. \A k \in DOMAIN children' : children'[k].name \in Names /\ children'[k].name # n
    <2> SUFFICES ASSUME NEW k \in DOMAIN children'
                 PROVE  children'[k].name \in Names /\ children'[k].name # n
      OBVIOUS
    <2>1. children'[k] \in Entry  BY <1>1
    <2>2. children'[k].name \in Names  BY <2>1 DEF Entry
    <2> QED  BY <2>2, <1>1, <1>b
  <1>4. CASE n \in Internal
    <2>1. out' = out /\ queue' = queue  BY <1>4 DEF AddChild
    <2>2. Bounded' /\ ListedOnce'  BY <1>c, <2>1 DEF Bounded, ListedOnce
    <2>3. \A k \in DOMAIN children' : ~IsIn(Append(parent, children'[k].name), out)
      BY <1>1, <1>f
    <2>4. \A k \in DOMAIN queue' : Fresh(queue[k])'  BY <1>e, <2>1 DEF Fresh, IsIn
    <2>5. ListType'  BY <1>a, <1>1, <1>2, <2>1 DEF ListType
    <2> QED  BY <1>a, <1>c, <1>d, <1>f, <2>1, <2>2, <2>3, <2>4, <2>5 DEF ListInv, IsIn
  <1>5. CASE n \notin Internal
    <2>1. out' = Append(out, path) /\ queue' = Append(queue, path)
      BY <1>5 DEF AddChild
    <2>a. path \in Path /\ Len(path) <= MAX_DATASET_DEPTH /\ parent # path
      <3>1. path \in Path /\ Len(path) = Len(parent) + 1 /\ parent # path  BY <1>a, <1>1, AppendFacts
      <3>2. Len(parent) \in Nat  BY <1>a DEF Path
      <3> QED  BY <3>1, <3>2, <1>f, BoundsAssumption
    <2>2. out' \in Seq(Path) /\ queue' \in Seq(Path) /\ Len(out') <= MAX_DATASETS
      <3>1. Len(out') = Len(out) + 1 /\ Len(out) \in Nat  BY <1>a, <2>1, <2>a, PushFacts
      <3> QED  BY <1>a, <2>1, <2>a, <3>1, PushFacts, BoundsAssumption
    <2>b. /\ DOMAIN out' = DOMAIN out \cup {Len(out) + 1} /\ out'[Len(out) + 1] = path
          /\ \A k \in DOMAIN out : k # Len(out) + 1 /\ out'[k] = out[k]
      BY <1>a, <2>1, <2>a, PushFacts
    <2>c. /\ DOMAIN queue' = DOMAIN queue \cup {Len(queue) + 1} /\ queue'[Len(queue) + 1] = path
          /\ \A k \in DOMAIN queue : k # Len(queue) + 1 /\ queue'[k] = queue[k]
      BY <1>a, <2>1, <2>a, PushFacts
    <2> HIDE DEF path
    <2>3. /\ \A p : IsIn(p, out') <=> IsIn(p, out) \/ p = path
          /\ \A p : IsIn(p, queue') <=> IsIn(p, queue) \/ p = path
      <3>1. \A p : IsIn(p, out') <=> IsIn(p, out) \/ p = path  BY <2>b DEF IsIn
      <3>2. \A p : IsIn(p, queue') <=> IsIn(p, queue) \/ p = path  BY <2>c DEF IsIn
      <3> QED  BY <3>1, <3>2
    <2>4. ~IsIn(path, out) /\ ~IsIn(path, queue)
      <3>1. ~IsIn(path, out)  BY <1>1, <1>f DEF path
      <3> QED  BY <3>1, <1>c DEF IsIn, Bounded
    <2>5. Bounded'
      <3>1. \A k \in DOMAIN out' : Len(out'[k]) <= MAX_DATASET_DEPTH
        BY <1>c, <2>a, <2>b DEF Bounded
      <3>2. \A k \in DOMAIN queue : IsIn(queue[k], out)  BY <1>c DEF Bounded, IsIn
      <3>3. \A k \in DOMAIN queue' : IsIn(queue'[k], out')
        BY <2>c, <2>3, <3>2
      <3> QED  BY <2>2, <3>1, <3>3 DEF Bounded, IsIn
    <2>6. ListedOnce' /\ \A j, k \in DOMAIN queue' : queue'[j] = queue'[k] => j = k
      <3>1. ListedOnce'  BY <1>c, <2>b, <2>4 DEF ListedOnce, IsIn
      <3> QED  BY <3>1, <1>c, <2>c, <2>4 DEF IsIn
    <2>7. \A p \in Path, m \in Names : IsIn(Append(p, m), out') => IsIn(p, out')
      <3> SUFFICES ASSUME NEW p \in Path, NEW m \in Names, IsIn(Append(p, m), out')
                   PROVE  IsIn(p, out')
        OBVIOUS
      <3>1. CASE Append(p, m) = path
        <4>1. p = parent  BY <1>1, <1>a, <3>1, AppendFacts DEF path
        <4> QED  BY <4>1, <1>f, <2>3
      <3>2. CASE IsIn(Append(p, m), out)  BY <1>d, <3>2, <2>3
      <3> QED  BY <3>1, <3>2, <2>3
    <2>8. \A k \in DOMAIN queue' : Fresh(queue[k])'
      <3> SUFFICES ASSUME NEW k \in DOMAIN queue', NEW m \in Names,
                          IsIn(Append(queue'[k], m), out')
                   PROVE  FALSE
        BY DEF Fresh
      <3>1. queue'[k] \in Path /\ IsIn(queue'[k], queue')  BY <2>2 DEF IsIn
      <3>2. CASE Append(queue'[k], m) = path
        <4>1. queue'[k] = parent  BY <1>a, <1>1, <3>1, <3>2, AppendFacts DEF path
        <4> QED  BY <4>1, <2>a, <3>1, <2>3, <1>f
      <3>3. CASE IsIn(Append(queue'[k], m), out)
        <4>1. IsIn(queue'[k], out)  BY <1>d, <3>1, <3>3
        <4>2. queue'[k] # path  BY <4>1, <2>4
        <4>3. IsIn(queue'[k], queue)  BY <4>2, <3>1, <2>3
        <4> QED  BY <1>e, <4>3, <3>3 DEF IsIn, Fresh
      <3> QED  BY <3>2, <3>3, <2>3
    <2>9. \A k \in DOMAIN children' : ~IsIn(Append(parent, children'[k].name), out')
      <3> SUFFICES ASSUME NEW k \in DOMAIN children'
                   PROVE  ~IsIn(Append(parent, children'[k].name), out')
        OBVIOUS
      <3>1. ~IsIn(Append(parent, children'[k].name), out)  BY <1>1, <1>f
      <3>2. Append(parent, children'[k].name) # path  BY <1>a, <1>1, <1>3, AppendFacts DEF path
      <3> QED  BY <3>1, <3>2, <2>3
    <2>10. IsIn(parent, out') /\ ~IsIn(parent, queue')
      BY <1>f, <2>3, <2>a
    <2>11. ListType'  BY <1>a, <1>1, <1>2, <2>2 DEF ListType
    <2> QED  BY <1>a, <1>f, <2>5, <2>6, <2>7, <2>8, <2>9, <2>10, <2>11 DEF ListInv
  <1> QED  BY <1>4, <1>5
-----------------------------------------------------------------------------
LEMMA InitListInv == ListInit => ListInv
  <1> SUFFICES ASSUME ListInit PROVE ListInv  OBVIOUS
  <1>1. <<>> \in Path /\ <<>> \in Seq(Entry)  BY DEF Path
  <1>2. out \in Seq(Path) /\ queue \in Seq(Path) /\ DOMAIN out = {1} /\ DOMAIN queue = {1}
        /\ out[1] = <<>> /\ queue[1] = <<>> /\ Len(out) = 1
    BY <1>1 DEF ListInit
  <1>3. ListType  BY <1>1, <1>2 DEF ListInit, ListType
  <1>4. Bounded /\ ListedOnce
    <2>1. Len(<<>>) = 0  OBVIOUS
    <2> QED  BY <1>2, <2>1, BoundsAssumption DEF Bounded, ListedOnce
  <1>5. \A p \in Path, n \in Names : ~IsIn(Append(p, n), out)
    BY <1>2, AppendFacts DEF IsIn, Path
  <1> QED  BY <1>2, <1>3, <1>4, <1>5 DEF ListInit, ListInv, Fresh

LEMMA NextListInv == ListInv /\ [ListNext]_listVars => ListInv'
  <1> SUFFICES ASSUME ListInv, [ListNext]_listVars PROVE ListInv'  OBVIOUS
  <1>1. CASE PassOver \/ SkipSubtree
    <2>1. /\ queue # <<>> /\ queue' = Front(queue) /\ listPc = "pop"
          /\ UNCHANGED <<dsl, out, parent, children, listPc>>
      BY <1>1 DEF PassOver, SkipSubtree
    <2>2. ListType'  BY <2>1, PopKeeps DEF ListInv, ListType
    <2> QED  BY <2>1, <2>2, PopKeeps DEF ListInv
  <1>2. CASE ListChildren
    <2>1. /\ queue # <<>> /\ queue' = Front(queue) /\ listPc' = "add"
          /\ parent' = Popped /\ children' = dsl[Directory(Popped)].entries
          /\ UNCHANGED <<dsl, out>> /\ Directory(Popped) \in DOMAIN dsl
          /\ Len(Popped) < MAX_DATASET_DEPTH
      BY <1>2 DEF ListChildren, WithinBounds, Listable
    <2>2. Popped \in Path  BY <2>1, FrontFacts DEF ListInv, ListType, Popped
    <2>3. /\ children' \in Seq(Entry)
          /\ \A j, k \in DOMAIN children' : children'[j].name = children'[k].name => j = k
      <3> DEFINE e == dsl[Directory(Popped)].entries
      <3>1. dsl \in Pools  BY DEF ListInv, ListType
      <3>2. e \in Seq(Entry) /\ \A j, k \in DOMAIN e : e[j].name = e[k].name => j = k
        BY <2>1, <3>1, PoolsAssumption, Zenon DEF Entry
      <3> QED  BY <2>1, <3>2
    <2>4. \A k \in DOMAIN children' : ~IsIn(Append(Popped, children'[k].name), out)
      <3> SUFFICES ASSUME NEW k \in DOMAIN children'
                   PROVE  ~IsIn(Append(Popped, children'[k].name), out)
        OBVIOUS
      <3>1. children'[k] \in Entry  BY <2>3
      <3>2. children'[k].name \in Names  BY <3>1 DEF Entry
      <3>3. Fresh(Popped)  BY <2>1, PopKeeps
      <3> QED  BY <3>2, <3>3 DEF Fresh
    <2>5. ListType'  BY <2>1, <2>2, <2>3, PopKeeps DEF ListInv, ListType
    <2>6. IsIn(Popped, out') /\ ~IsIn(Popped, queue')  BY <2>1, PopKeeps
    <2>7. \A k \in DOMAIN children' : ~IsIn(Append(parent', children'[k].name), out')
      BY <2>1, <2>4
    <2> QED  BY <2>1, <2>5, <2>6, <2>7, PopKeeps DEF ListInv
  <1>3. CASE AddChild  BY <1>3, AddKeeps
  <1>4. CASE ChildrenAdded
    <2>1. /\ UNCHANGED <<dsl, out, queue>> /\ listPc' = "pop" /\ children' = <<>> /\ parent' = <<>>
      BY <1>4 DEF ChildrenAdded
    <2>2. <<>> \in Path /\ <<>> \in Seq(Entry) /\ DOMAIN <<>> = {}  BY DEF Path
    <2>3. ListType'  BY <2>1, <2>2 DEF ListInv, ListType
    <2>4. Bounded' /\ ListedOnce'  BY <2>1 DEF ListInv, Bounded, ListedOnce
    <2> QED  BY <2>1, <2>3, <2>4 DEF ListInv, Fresh, IsIn
  <1>5. CASE Finish
    <2>1. UNCHANGED <<dsl, out, queue, parent, children>> /\ listPc' = "done"
      BY <1>5 DEF Finish
    <2>2. ListType'  BY <2>1 DEF ListInv, ListType
    <2>3. Bounded' /\ ListedOnce'  BY <2>1 DEF ListInv, Bounded, ListedOnce
    <2> QED  BY <2>1, <2>2, <2>3 DEF ListInv, Fresh, IsIn
  <1>6. CASE UNCHANGED listVars
    <2>1. UNCHANGED <<dsl, out, queue, parent, children, listPc>>  BY <1>6 DEF listVars
    <2>2. ListType'  BY <2>1 DEF ListInv, ListType
    <2>3. Bounded' /\ ListedOnce'  BY <2>1 DEF ListInv, Bounded, ListedOnce
    <2> QED  BY <2>1, <2>2, <2>3 DEF ListInv, Fresh, IsIn
  <1> QED  BY <1>1, <1>2, <1>3, <1>4, <1>5, <1>6 DEF ListNext

\* lib.rs datasets: whatever the DSL directories look like, and however they
\* fail, the list stays within MAX_DATASETS and MAX_DATASET_DEPTH.
THEOREM ListBounded == ListSpec => []Bounded
  <1>1. ListInv => Bounded  BY DEF ListInv
  <1> QED  BY <1>1, InitListInv, NextListInv, PTL DEF ListSpec

\* lib.rs datasets: no path is listed twice, also where DSL directories share
\* children or form cycles.
THEOREM NothingTwice == ListSpec => []ListedOnce
  <1>1. ListInv => ListedOnce  BY DEF ListInv
  <1> QED  BY <1>1, InitListInv, NextListInv, PTL DEF ListSpec
=============================================================================
