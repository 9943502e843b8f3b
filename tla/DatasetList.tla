---------------------------- MODULE DatasetList -----------------------------
(***************************************************************************)
(* lib.rs Zfs::datasets: the paths of a pool's datasets, found by listing  *)
(* the children of one dataset after another.  Each listing walks the DSL  *)
(* directories from the root again (dataset.rs child_dataset_names).       *)
(*                                                                         *)
(* dsl maps a DSL directory object to whether its blocks can be read and   *)
(* to the entries of its child-directory ZAP, in ZAP order.  Nothing says  *)
(* that the objects form a tree: a directory may be reached twice, or      *)
(* from below itself.                                                      *)
(***************************************************************************)
EXTENDS Integers, Sequences, SequencesExt

CONSTANTS MAX_DATASETS, MAX_DATASET_DEPTH,
          Names,
          Internal,   \* the names that begin with '$'
          Objects,    \* numbers of MOS objects
          Root,       \* the DSL directory root_dataset names
          Nothing,    \* no directory: a name or a block is missing
          Pools       \* the dsl functions

ASSUME BoundsAssumption == MAX_DATASETS \in Nat \ {0} /\ MAX_DATASET_DEPTH \in Nat
\* A ZAP holds a name once.
ASSUME PoolsAssumption ==
  \A d \in Pools : \A o \in DOMAIN d :
    LET e == d[o].entries
    IN  /\ e \in Seq([name : Names, obj : Objects])
        /\ \A j, k \in DOMAIN e : e[j].name = e[k].name => j = k

VARIABLES dsl, out, queue,
          parent,     \* the dataset whose children are added
          children,   \* those still to be looked at
          listPc
listVars == <<dsl, out, queue, parent, children, listPc>>

\* One component of a path: the directory's ZAP is read and searched.
Lookup(d, name) ==
  LET found == {k \in DOMAIN dsl[d].entries : dsl[d].entries[k].name = name}
  IN  IF d \notin DOMAIN dsl \/ ~dsl[d].readable \/ found = {} THEN Nothing
      ELSE dsl[d].entries[CHOOSE k \in found : \A j \in found : k <= j].obj
Directory(path) == FoldLeft(Lookup, Root, path)

\* child_dataset_names: whether path can be listed, and what it lists.
Listable(path) == Directory(path) \in DOMAIN dsl /\ dsl[Directory(path)].readable
child_dataset_names(path) ==
  {dsl[Directory(path)].entries[k].name : k \in DOMAIN dsl[Directory(path)].entries} \ Internal

Popped == Last(queue)                    \* queue.pop() takes the last one
\* Slip: the last level is left out.
WithinBounds_Shallow == Len(out) < MAX_DATASETS /\ Len(Popped) + 1 < MAX_DATASET_DEPTH
WithinBounds == Len(out) < MAX_DATASETS /\ Len(Popped) < MAX_DATASET_DEPTH
-----------------------------------------------------------------------------
ListInit ==
  /\ dsl \in Pools
  /\ out = <<<<>>>>
  /\ queue = <<<<>>>>
  /\ parent = <<>> /\ children = <<>>
  /\ listPc = "pop"

\* A parent at a limit.
PassOver ==
  /\ listPc = "pop" /\ queue # <<>>
  /\ ~WithinBounds
  /\ queue' = Front(queue)
  /\ UNCHANGED <<dsl, out, parent, children, listPc>>

\* Slip: a listing that fails is tried again.
SkipSubtree_Retry ==
  /\ listPc = "pop" /\ queue # <<>>
  /\ WithinBounds
  /\ ~Listable(Popped)
  /\ UNCHANGED listVars
\* A listing that fails.
SkipSubtree ==
  /\ listPc = "pop" /\ queue # <<>>
  /\ WithinBounds
  /\ ~Listable(Popped)
  /\ queue' = Front(queue)
  /\ UNCHANGED <<dsl, out, parent, children, listPc>>

\* Slip: the parent stays in the queue.
ListChildren_Keep ==
  /\ listPc = "pop" /\ queue # <<>>
  /\ WithinBounds
  /\ Listable(Popped)
  /\ parent' = Popped /\ children' = dsl[Directory(Popped)].entries
  /\ listPc' = "add"
  /\ UNCHANGED <<dsl, out, queue>>
ListChildren ==
  /\ listPc = "pop" /\ queue # <<>>
  /\ WithinBounds
  /\ Listable(Popped)
  /\ queue' = Front(queue)
  /\ parent' = Popped /\ children' = dsl[Directory(Popped)].entries
  /\ listPc' = "add"
  /\ UNCHANGED <<dsl, out>>

\* Slip: the limit is not looked at inside the loop over the children.
AddChild_NoBreak ==
  /\ listPc = "add" /\ children # <<>>
  /\ IF Head(children).name \in Internal THEN UNCHANGED <<out, queue>>
     ELSE LET path == Append(parent, Head(children).name)
          IN  out' = Append(out, path) /\ queue' = Append(queue, path)
  /\ children' = Tail(children)
  /\ UNCHANGED <<dsl, parent, listPc>>
\* The next child; child_dataset_names has left out the internal ones.
AddChild ==
  /\ listPc = "add" /\ children # <<>> /\ Len(out) < MAX_DATASETS
  /\ IF Head(children).name \in Internal THEN UNCHANGED <<out, queue>>
     ELSE LET path == Append(parent, Head(children).name)
          IN  out' = Append(out, path) /\ queue' = Append(queue, path)
  /\ children' = Tail(children)
  /\ UNCHANGED <<dsl, parent, listPc>>
ChildrenAdded ==
  /\ listPc = "add" /\ (children = <<>> \/ Len(out) >= MAX_DATASETS)
  /\ children' = <<>> /\ parent' = <<>> /\ listPc' = "pop"
  /\ UNCHANGED <<dsl, out, queue>>

Finish ==
  /\ listPc = "pop" /\ queue = <<>>
  /\ listPc' = "done"
  /\ UNCHANGED <<dsl, out, queue, parent, children>>

ListNext == PassOver \/ SkipSubtree \/ ListChildren \/ AddChild \/ ChildrenAdded \/ Finish

ListSpec == ListInit /\ [][ListNext]_listVars
-----------------------------------------------------------------------------
\* lib.rs datasets ("bounded by MAX_DATASETS and MAX_DATASET_DEPTH"): the list
\* never outgrows the bounds, and what is queued has been listed.
Bounded ==
  /\ Len(out) <= MAX_DATASETS
  /\ \A k \in DOMAIN out : Len(out[k]) <= MAX_DATASET_DEPTH
  /\ \A k \in DOMAIN queue : \E j \in DOMAIN out : out[j] = queue[k]

\* lib.rs datasets: no dataset is listed twice under one path, even if the DSL
\* directories form a cycle.
ListedOnce == \A j, k \in DOMAIN out : out[j] = out[k] => j = k

\* lib.rs datasets ("A subtree whose enumeration errors is skipped rather than
\* aborting the whole listing"): a list that did not reach its limit has every
\* child, down to the depth limit, of every listed dataset that can be listed,
\* whatever failed elsewhere, and nothing else.
Complete ==
  listPc = "done" /\ Len(out) < MAX_DATASETS =>
    LET Listed == {out[k] : k \in DOMAIN out}
        Expected == {<<>>} \cup
          UNION {{Append(p, n) : n \in child_dataset_names(p)} :
                   p \in {q \in Listed : Listable(q) /\ Len(q) < MAX_DATASET_DEPTH}}
    IN  Listed = Expected
=============================================================================
