-------------------------- MODULE MCDirectoryRead ---------------------------
(* DirectoryRead for TLC: dnode headers of all shapes over one sound ZAP,    *)
(* and one sound dnode over micro and fat ZAPs, whole and damaged.           *)
EXTENDS DirectoryRead

Header(num, block_slots, extra, nblkptr, spill, len, form) ==
  [num |-> num, block_slots |-> block_slots, extra_slots |-> extra,
   nblkptr |-> nblkptr, spill |-> spill, bonus_len |-> len, form |-> form]
Plain == Header(1, 4, 0, 1, FALSE, 2, "dnode")
MCDnodes ==
  {Header(n, b, x, p, s, l, f) :
     n \in {0, 2, 3, 6, 13}, b \in {0, 1, 4}, x \in 0 .. 3, p \in 0 .. 4,
     s \in BOOLEAN, l \in {0, 3, 4, 5, 7, 15, 23}, f \in {"dnode", "garbled"}}
  \cup {Header(n, 4, 0, 0, FALSE, 0, "empty") : n \in {1, 13}} \cup {Plain}

\* Leaf blocks of 32 bytes: header and hash table take 8, four chunks of 6.
Array(data, next) == [kind |-> "array", data |-> data, next |-> next]
EntryChunk(nc, nl, vc, vi, vl) ==
  [kind |-> "entry", name_chunk |-> nc, name_length |-> nl,
   value_chunk |-> vc, value_int_size |-> vi, value_length |-> vl]
EOL == 99
LeafBlock(len, chunks) == [kind |-> "leaf", len |-> len, chunks |-> chunks]
Other == [kind |-> "other"]
Lost == [kind |-> "lost"]

\* One entry: its chunk, and chains through the other three that meet, cross,
\* go round, end early or leave the leaf.
Data == <<<<1, 0, 3>>, <<2, 1, 0>>, <<9, 4, 5>>>>
Links == {0, 1, 2, 3, 4, EOL}
OneEntry ==
  {LeafBlock(len, 0 :> EntryChunk(nc, nl, vc, 1, vl) @@ 1 :> Array(Data[1], l1)
                    @@ 2 :> Array(Data[2], l2) @@ 3 :> Array(Data[3], EOL)) :
     nc \in {1, 2}, nl \in {2, 6}, vc \in {1, 3, 4}, vl \in {2, 3, 20},
     l1 \in Links, l2 \in {1, 3, EOL}, len \in {32, 20}}
\* Sound leaves: names <<1>> and <<2, 1>>, values of one and of two chunks.
LeafA == LeafBlock(32, 0 :> EntryChunk(2, 2, 3, 1, 2) @@ 2 :> Array(<<1, 0, 7>>, EOL)
                       @@ 3 :> Array(<<4, 5, 0>>, EOL))
LeafB == LeafBlock(32, 3 :> EntryChunk(0, 3, 1, 2, 2) @@ 0 :> Array(<<2, 1, 0>>, EOL)
                       @@ 1 :> Array(<<6, 7, 8>>, 2) @@ 2 :> Array(<<9, 0, 0>>, EOL))
Fat == [kind |-> "fat"]
Zap(dbsz, blocks) == [dbsz |-> dbsz, blocks |-> blocks]
FatZaps ==
  {Zap(32, 0 :> Fat @@ 1 :> b) : b \in OneEntry}
  \cup {Zap(32, 0 :> Fat @@ 1 :> a @@ 2 :> b @@ 3 :> c) :
          a, b, c \in {LeafA, LeafB, Other, Lost, Hole}}
  \cup {Zap(96, 0 :> Fat @@ 1 :> [LeafA EXCEPT !.len = 96])}

Slot(nm, v) == [kind |-> "entry", name |-> nm, value |-> v]
Slots == {[kind |-> "empty"], [kind |-> "garbled"], Slot(<<1>>, <<0, 4>>),
          Slot(<<2, 1>>, <<0, 5>>), Slot(<<9>>, <<0, 6>>)}
MicroZaps ==
  {Zap(32, 0 :> [kind |-> "micro", whole |-> w, slots |-> <<a, b>>]) :
     w \in BOOLEAN, a, b \in Slots}
OddZaps == {Zap(d, 0 :> b) : d \in {0, 32},
              b \in {Lost, Hole, Other, LeafA, Fat, [kind |-> "stub"]}}
MCZaps == FatZaps \cup MicroZaps \cup OddZaps
SoundZap == Zap(32, 0 :> Fat @@ 1 :> LeafA)
MCCalls == {[op |-> "zap_entries", name |-> <<1>>]} \cup
           {[op |-> o, name |-> <<2, 1>>] : o \in {"zap_lookup", "zap_lookup_bytes"}}
MCZapObjects == (MCDnodes \X {SoundZap}) \cup ({Plain} \X MCZaps)
\* Sound leaves, blocks of other kinds and freed blocks.
HoleZaps == {Zap(32, 0 :> Fat @@ 1 :> a @@ 2 :> b @@ 3 :> c) :
               a, b, c \in {LeafA, LeafB, Other, Hole}}
HoleObjects == {Plain} \X HoleZaps
=============================================================================
