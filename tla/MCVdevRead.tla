----------------------------- MODULE MCVdevRead -----------------------------
(* VdevRead for TLC.  A unit of block data is one bit; 3 units stand for    *)
(* MAX_BLOCK_LSIZE and a 4-unit block is over it.  The pointers are grouped *)
(* in families, each varying what one part of the code looks at.            *)
EXTENDS VdevRead

MCFeatures == {"lz4", "gzip", "lzjb", "mirror", "sha512", "blake3"}

Dva(offset) == [gang |-> FALSE, vdev |-> 0, offset |-> offset]
Gang == [Dva(0) EXCEPT !.gang = TRUE]
Foreign == [Dva(0) EXCEPT !.vdev = 1]
\* The last sector that fits behind the reserve, the first that does not, and
\* one whose byte offset alone overflows.
DvaSet == {Dva(0), Dva(4), Dva(59), Dva(60), Dva(64), Gang, Foreign}
DvaLists == UNION {[1 .. n -> DvaSet] : n \in 0 .. 2}
            \cup {<<Dva(0), Dva(4), Dva(9)>>}

Base == [kind |-> "Regular", orig |-> <<1, 0, 1>>, lsize |-> 3, comp |-> "Off",
         valid |-> TRUE, cksum |-> "Fletcher4", dvas |-> <<Dva(0), Dva(4)>>]

Kinds == {"Inherit", "On", "Off", "Label", "GangHeader", "Zilog", "Fletcher2",
          "Fletcher4", "Sha256", "Zilog2", "NoParity", "Sha512_256", "Skein",
          "Edonr", "Blake3"}
Comps == {"Off", "Lzjb", "Empty", "Gzip", "Zle", "Lz4", "Zstd"}

VaryDvas == {[Base EXCEPT !.dvas = d] : d \in DvaLists}
VaryChecksum == {[Base EXCEPT !.cksum = k] : k \in Kinds}
VaryCodec == {[Base EXCEPT !.comp = c, !.lsize = l, !.valid = v, !.cksum = k] :
                c \in Comps, l \in {2, 3, 4}, v \in BOOLEAN,
                k \in {"Off", "Fletcher4"}}
VaryBlock == {[Base EXCEPT !.orig = o, !.lsize = 1] :
                o \in {<<1>>, <<0>>, <<0, 1>>, <<1, 1>>, <<0, 1, 1>>, <<1, 1, 1, 0>>}}
Inline == {[Base EXCEPT !.kind = k, !.comp = c, !.valid = v] :
             k \in {"Embedded", "Encrypted"}, c \in {"Off", "Lz4"}, v \in BOOLEAN}

MCCopyPointers == VaryDvas \cup VaryChecksum \cup VaryCodec \cup VaryBlock \cup Inline

Copies(kind, n) == [kind |-> kind, width |-> n, ashift |-> 9, absent |-> {}]
MCCopyLayouts == {Copies("Single", 1), Copies("Mirror", 2), Copies("Mirror", 3)}

Raidz(n, ashift, absent) ==
  [kind |-> "RaidZ1", width |-> n, ashift |-> ashift, absent |-> absent]
MCRaidzLayouts ==
  {Raidz(3, 9, {}), Raidz(3, 9, {1}), Raidz(3, 10, {}), Raidz(2, 9, {}),
   Raidz(4, 9, {0}), Raidz(3, 8, {}), Raidz(1, 9, {})}

\* For the column path: the pointers that differ there (each has 75 ways to be
\* damaged per DVA on three children).
MCRaidzPointers ==
  {[Base EXCEPT !.dvas = d] :
     d \in {<<>>, <<Dva(0)>>, <<Dva(4), Dva(2)>>, <<Dva(180), Dva(1)>>, <<Dva(0), Gang>>}}
  \cup {[Base EXCEPT !.cksum = k] : k \in {"Off", "Blake3", "Skein"}}
  \cup {[Base EXCEPT !.comp = "Lz4", !.valid = v, !.dvas = <<Dva(0)>>] : v \in BOOLEAN}
  \cup {[Base EXCEPT !.orig = o, !.lsize = 1] : o \in {<<1>>, <<0, 1>>, <<0, 1, 1>>}}

MCLayouts == MCCopyLayouts \cup MCRaidzLayouts
MCPointers(l) == IF l.kind = "RaidZ1" THEN MCRaidzPointers ELSE MCCopyPointers
=============================================================================
