---------------------------- MODULE MCDnodeRange ----------------------------
(* DnodeRange for TLC: trees of up to 3 levels (4 is one too many) with 1, 2 *)
(* or 4 entries to a block, 6-bit offsets, data blocks of 3 bytes.           *)
EXTENDS DnodeRange, TLC

Dnode(levels, shift, nptrs, dbsz) ==
  [levels |-> levels, indirect_block_shift |-> shift, nptrs |-> nptrs, dbsz |-> dbsz,
   data |-> {}, freed |-> {}, lost |-> {}, garbled |-> {}, cut |-> {}]
Headers ==
  {Dnode(l, s, n, d) : l \in 0 .. 4, s \in {6, 8, 9, 13}, n \in {1, 3}, d \in {0, 3}}
\* A tree that its shift leaves in the word holds this many blocks.
Capacity(d) ==
  LET s == IF d.indirect_block_shift > 7 THEN d.indirect_block_shift - 7 ELSE 0
  IN  IF d.levels = 0 THEN 0
      ELSE IF s * (d.levels - 1) >= WordBits \/ s > 2 THEN d.nptrs
      ELSE d.nptrs * 2 ^ (s * (d.levels - 1))
Filled(d) ==
  {[d EXCEPT !.data = b] :
     b \in {{}, 0 .. Capacity(d) - 1,
            {i \in 0 .. Capacity(d) - 1 : i % 3 = 1}, {Capacity(d) - 1} \cap Nat}}
Whole == UNION {Filled(d) : d \in Headers}

\* One damaged block.
Small == UNION {Filled(Dnode(l, s, 3, 3)) : l \in 1 .. 3, s \in {6, 8, 9}}
Blocks == (0 .. 2) \X (0 .. 4)
Damaged ==
  UNION {{[o EXCEPT !.lost = {x}], [o EXCEPT !.garbled = {x}], [o EXCEPT !.cut = {x}]} :
           o \in Small, x \in Blocks}

\* A hole with a birth txg, where nothing is written.
Freed ==
  UNION {{[o EXCEPT !.freed = {x}] :
            x \in {y \in Blocks : o.data = {} \/ (y[1] = 0 /\ y[2] \notin o.data)}} :
           o \in Small}

MCObjects == Whole \cup Damaged \cup Freed
FreedObjects == Freed
MCRequests ==
  {[off |-> a, len |-> n] : a \in {0, 1, 3, 5, 11, 35, 60, 63}, n \in {0, 1, 4, 8}}
=============================================================================
