----------------------------- MODULE PathLookup -----------------------------
(***************************************************************************)
(* lib.rs read_dir, stat, exists, read and read_at, with the lookups of    *)
(* dataset.rs under them: open_dataset goes from the object directory down *)
(* the DSL directories to the dataset's object set, resolve_path from the  *)
(* master node down the directories of the file system.  A step reads the  *)
(* objects of one lookup (walk.rs; DirectoryRead has the details).         *)
(***************************************************************************)
EXTENDS Integers, Sequences, Outcome

CONSTANTS MAX_FILE_BYTES,
          ObjSpan, MidSpan,     \* 2^48 object numbers; 2^12 values of the bits between
          Sets, NoZap, Absent,
          Components,           \* names in datasets and paths
          Worlds, PathCalls

ASSUME SpansAssumption ==
  ObjSpan \in Nat \ {0} /\ MidSpan \in Nat \ {0} /\ MAX_FILE_BYTES \in Nat
  /\ Absent \notin Sets
ASSUME CallsAssumption ==
  \A c \in PathCalls :
    /\ c.op \in {"read_dir", "stat", "exists", "read", "read_at"}
    /\ c.dataset \in Seq(Components) /\ c.path \in Seq(Components)
    /\ c.off \in Nat /\ c.len \in Nat
\* As ZFS writes it: directory entries are 64 bits, object numbers 48.
ASSUME WorldsAssumption ==
  \A w \in Worlds : \A o \in DOMAIN w.objects :
    /\ w.objects[o].zap # NoZap => \A n \in DOMAIN w.objects[o].zap :
         /\ w.objects[o].zap[n] \in 0 .. (16 * (ObjSpan * MidSpan) - 1)
         /\ o[1] = "mos" \/ (o[2] = 1 /\ n = "ROOT") => w.objects[o].zap[n] \in 0 .. (ObjSpan - 1)
    /\ w.objects[o].bonus.type = "sa" =>
         w.objects[o].bonus.header \in Nat /\ w.objects[o].bonus.words \in Seq(Nat)

VARIABLES world, call,
          pc,
          names,      \* components still to follow
          dir_obj,    \* <<object set, number>> of the directory so far
          value,      \* the last directory entry found
          result
pathVars == <<world, call, pc, names, dir_obj, value, result>>

MOS_OBJECT_DIRECTORY == <<"mos", 1>>
ZPL_MASTER_NODE(set) == <<set, 1>>

\* read_object and read_object_dnode.
ReadObject(o) ==
  IF o \notin DOMAIN world.objects THEN Err("Inconsistent", "dnode_empty")
  ELSE IF ~world.objects[o].readable THEN Err("Io", "io_block")
  ELSE Ok(world.objects[o])
\* read_object_dnode and zap_entries; the object may be no ZAP at all.
ZapOf(o) ==
  LET r == ReadObject(o)
  IN  IF r.ok THEN IF r.val.zap = NoZap THEN Err("Inconsistent", "zap_bad_type") ELSE Ok(r.val.zap)
      ELSE r
\* read_object_dnode and zap_lookup.
zap_lookup(o, name) ==
  LET r == ZapOf(o)
  IN  IF ~r.ok THEN r ELSE IF name \notin DOMAIN r.val THEN NotFound ELSE Ok(r.val[name])

\* read_object and the decoder of the bonus.
Bonus(o, type, token) ==
  LET r == ReadObject(o)
  IN  IF ~r.ok THEN r
      ELSE IF r.val.bonus.type # type THEN Err("Inconsistent", token) ELSE Ok(r.val.bonus)
dsl_dir(o) == Bonus(o, "dsl_dir", "dsl_dir")

dirent_kind(v) ==
  LET t == v \div (ObjSpan * MidSpan)
  IN  CASE t = 4 -> "Directory" [] t = 8 -> "Regular" [] t = 10 -> "Symlink" [] OTHER -> "Other"
ObjOf_Unmasked(v) == v   \* slip
ObjOf(v) == v % ObjSpan

\* Slip: the header's length is taken for fixed.
sa_file_size_Fixed(bonus) ==
  IF bonus.type # "sa" \/ 3 > Len(bonus.words) THEN Err("UnsupportedFeature", "sa_layout")
  ELSE Ok(bonus.words[3])
\* The bonus in words of 8 bytes: the SA header, then mode and size.
sa_file_size(bonus) ==
  IF bonus.type # "sa" \/ bonus.header + 2 > Len(bonus.words)
  THEN Err("UnsupportedFeature", "sa_layout")
  ELSE Ok(bonus.words[bonus.header + 2])

\* read_dnode_range of a file's object, holes and all.
ReadRange(o, off, n) ==
  IF world.objects[o].data THEN Ok([k \in 1 .. n |-> <<o, off + k - 1>>])
  ELSE Err("Io", "io_block")
-----------------------------------------------------------------------------
\* exists() turns an error of stat() into an answer.
Return_Any(r) ==   \* slip: any error means that there is no such path
  /\ pc' = "done"
  /\ result' = IF call.op = "exists" THEN Ok(r.ok) ELSE r
  /\ UNCHANGED <<world, call, names, dir_obj, value>>
Return(r) ==
  /\ pc' = "done"
  /\ result' = IF call.op # "exists" THEN r
               ELSE IF r.ok THEN Ok(TRUE) ELSE IF r.kind = "NotFound" THEN Ok(FALSE) ELSE r
  /\ UNCHANGED <<world, call, names, dir_obj, value>>

PathInit ==
  /\ world \in Worlds /\ call \in PathCalls
  /\ pc = "objdir" /\ names = call.dataset
  /\ dir_obj = MOS_OBJECT_DIRECTORY /\ value = 0 /\ result = Pending

\* open_dataset.
ObjectDirectory ==
  /\ pc = "objdir"
  /\ LET r == zap_lookup(MOS_OBJECT_DIRECTORY, "root_dataset")
     IN  IF ~r.ok THEN Return(r)
         ELSE pc' = "dsl" /\ dir_obj' = <<"mos", r.val>> /\ UNCHANGED <<world, call, names, value, result>>

DslChild ==
  /\ pc = "dsl" /\ names # <<>>
  /\ LET d == dsl_dir(dir_obj)
         r == IF d.ok THEN zap_lookup(<<"mos", d.val.child_zap>>, names[1]) ELSE d
     IN  IF ~r.ok THEN Return(r)
         ELSE /\ dir_obj' = <<"mos", r.val>> /\ names' = Tail(names)
              /\ UNCHANGED <<world, call, pc, value, result>>

\* The head dataset's object set, or why there is none.
HeadSet ==
  LET d == dsl_dir(dir_obj)
      b == Bonus(<<"mos", d.val.head>>, "dsl_dataset", "dsl_dataset")
  IN  IF ~d.ok THEN d
      ELSE IF d.val.head = Absent THEN NotFound
      ELSE IF ~b.ok THEN b
      ELSE IF b.val.objset = Absent THEN Err("Inconsistent", "dataset_no_bp")
      ELSE IF b.val.objset \notin Sets THEN Err("Inconsistent", "objset_decode")
      ELSE Ok(b.val.objset)
\* stat of the dataset's root needs no more.
OpenHead ==
  /\ pc = "dsl" /\ names = <<>>
  /\ IF ~HeadSet.ok THEN Return(HeadSet)
     ELSE IF call.op \in {"stat", "exists"} /\ call.path = <<>>
     THEN Return(Ok([kind |-> "Directory", size |-> 0]))
     ELSE /\ pc' = "master" /\ dir_obj' = ZPL_MASTER_NODE(HeadSet.val)
          /\ names' = call.path /\ UNCHANGED <<world, call, value, result>>

\* root_dir_obj; a path without components names no file.
RootDirectory ==
  /\ pc = "master"
  /\ LET r == zap_lookup(dir_obj, "ROOT")
     IN  IF ~r.ok THEN Return(r)
         ELSE IF call.path = <<>> /\ call.op # "read_dir" THEN Return(NotFound)
         ELSE /\ pc' = IF call.path = <<>> THEN "list" ELSE "path"
              /\ dir_obj' = <<dir_obj[1], r.val>>
              /\ UNCHANGED <<world, call, names, value, result>>

\* resolve_path, one component.  Nothing asks whether the object entered is a
\* directory.
Component ==
  /\ pc = "path"
  /\ LET r == zap_lookup(dir_obj, names[1])
     IN  IF ~r.ok THEN Return(r)
         ELSE /\ value' = r.val /\ dir_obj' = <<dir_obj[1], ObjOf(r.val)>> /\ names' = Tail(names)
              /\ pc' = IF Len(names) = 1 THEN "target" ELSE "path"
              /\ UNCHANGED <<world, call, result>>

DirectoryTarget ==
  /\ pc = "target" /\ call.op = "read_dir"
  /\ IF dirent_kind(value) # "Directory" THEN Return(NotADirectory)
     ELSE pc' = "list" /\ UNCHANGED <<world, call, names, dir_obj, value, result>>

\* list_dir.
ListDirectory ==
  /\ pc = "list"
  /\ LET r == ZapOf(dir_obj)
     IN  Return(IF ~r.ok THEN r
                ELSE Ok([n \in DOMAIN r.val |-> [kind |-> dirent_kind(r.val[n]),
                                                 object_id |-> ObjOf(r.val[n])]]))

\* The size of the regular file at dir_obj.
FileSize == LET r == ReadObject(dir_obj) IN IF r.ok THEN sa_file_size(r.val.bonus) ELSE r

StatTarget ==
  /\ pc = "target" /\ call.op \in {"stat", "exists"}
  /\ LET kind == dirent_kind(value)
         size == IF kind = "Regular" THEN FileSize ELSE Ok(0)
     IN  Return(IF size.ok THEN Ok([kind |-> kind, size |-> size.val]) ELSE size)

\* Slip: the window is not cut at the end of the file.
want_Whole(size) == call.len
want(size) == IF call.len < size - call.off THEN call.len ELSE size - call.off
ReadTarget ==
  /\ pc = "target" /\ call.op \in {"read", "read_at"}
  /\ IF dirent_kind(value) # "Regular" THEN Return(NotARegularFile)
     ELSE IF ~FileSize.ok THEN Return(FileSize)
     ELSE LET size == FileSize.val
          IN  IF call.op = "read"
              THEN Return(IF size > MAX_FILE_BYTES THEN FileTooLarge ELSE ReadRange(dir_obj, 0, size))
              ELSE Return(IF call.off >= size THEN Ok(<<>>)
                          ELSE IF want(size) > MAX_FILE_BYTES THEN FileTooLarge
                          ELSE ReadRange(dir_obj, call.off, want(size)))

PathNext == \/ ObjectDirectory \/ DslChild \/ OpenHead \/ RootDirectory \/ Component
        \/ DirectoryTarget \/ ListDirectory \/ StatTarget \/ ReadTarget
PathSpec == PathInit /\ [][PathNext]_pathVars
-----------------------------------------------------------------------------
View == INSTANCE FileView WITH answer <- result

\* lib.rs read_dir, stat, exists, read, read_at: every answer is what FileView
\* promises.  Ok answers tell what was written under the path: the directory's
\* entries, the kind and size, the bytes of the window cut at the file's end.
\* NotFound, and exists() = false, mean that a name is missing where the path
\* leads; every other error has its cause on the way to the target.
KeepsPromise == View!Spec
=============================================================================
