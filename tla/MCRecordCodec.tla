--------------------------- MODULE MCRecordCodec ----------------------------
(***************************************************************************)
(* One or more records of each kind in both byte orders; each of them      *)
(* whole, with one bit flipped (the first and last bit of every field and  *)
(* all bits of the words of flags), with two bits of its flags flipped, or *)
(* cut short at, after and before the end of a field.                      *)
(***************************************************************************)
EXTENDS RecordCodec, FiniteSets

\* A record with the given fields; the others are 2.
Fill(lay, given) ==
  [x \in DOMAIN lay |-> IF x \in DOMAIN given THEN given[x]
                        ELSE IF lay[x].kind = "zero" THEN {} ELSE {1}]
Sample(kind, order, lay, given, words) ==
  [kind |-> kind, order |-> order, lay |-> lay, words |-> words,
   data |-> Data(Emit(order, lay, Fill(lay, given)), SizeOf(lay))]
Bits(s) == s.data.bits

DvaBits(o) == Emit(o, DvaPuts, [a |-> {0, 33}, b |-> {4, 63}])
\* lzjb, fletcher4, plain file contents; 3 and 1 sectors; level 1.
PtrFlags == {1} \cup At({0, 1}, 32) \cup At({0, 1, 2}, 40) \cup At({0, 1, 4}, 48) \cup {56, 63}
Regular(o) ==
  Sample("BlockPointer", o, RegularGets,
         [dva1 |-> DvaBits(o), dva2 |-> DvaBits(o), dva3 |-> {}, flags |-> PtrFlags], {"flags"})
Encrypted(o) ==
  Sample("BlockPointer", o, EncryptedGets,
         [dva1 |-> DvaBits(o), dva2 |-> {}, flags |-> PtrFlags \cup {61}], {"flags"})
Embedded(o) ==
  Sample("BlockPointer", o, EmbeddedGets,
         [flags |-> (PtrFlags \ At({0, 1, 2}, 40)) \cup {39} \cup At(BitsOf(100), 25)], {"flags"})
AclSample(o, version) ==
  IF version = 0
  THEN Sample("Acl", o, AclV0Gets,
         [x \in SixAces \cup {"version"} |->
            IF x = "version" THEN {} ELSE Emit(o, AceV0Gets, Fill(AceV0Gets, <<>>))], {"version"})
  ELSE Sample("Acl", o, AclV1Gets, [version |-> {0}], {"version"})
DnodeSample(o, n, spill) ==
  Sample("Dnode", o, DnodeGets,
    [dmu |-> BitsOf(19), bonus_type |-> BitsOf(44), checksum |-> BitsOf(7), compression |-> BitsOf(3),
     nblkptr |-> BitsOf(n), flags |-> {0, 3} \cup Flag(spill, 2), bonus_len |-> BitsOf(64),
     tail |-> LET lay == DnodeTails[n][spill]
              IN Emit(o, lay, [x \in DOMAIN lay |-> IF x = "bonus" THEN {1} ELSE Bits(Regular(o))])],
    {"nblkptr", "flags", "bonus_len"})
ZilSample(o) == Sample("ZilHeader", o, ZilHeaderGets, [log |-> Bits(Regular(o))], {})
MmpSample(o) ==
  Sample("UberBlockMmp", o, MmpGets, [magic |-> MmpMagic, config |-> {0, 2, 8, 31, 48}], {"config"})

Samples(o) ==
  {Sample("Dva", o, DvaGets, [a |-> {0, 33}, b |-> {4, 63}], {"a"}),
   Regular(o), Encrypted(o), Embedded(o), ZilSample(o), MmpSample(o),
   Sample("ChecksumTail", o, ChecksumTailGets, [magic |-> ChecksumTailMagic], {"magic"}),
   Sample("UberBlock", o, UberBlockGets,
     [magic |-> UberBlockMagic, version |-> BitsOf(5000), software_version |-> BitsOf(5000),
      ptr |-> Bits(Regular(o)), mmp |-> Bits(MmpSample(o))], {"version"}),
   Sample("DslDirectory", o, DslDirectoryGets[TRUE], [flags |-> {0}], {"flags"}),
   Sample("DslDirectory", o, DslDirectoryGets[FALSE], [flags |-> {}], {"flags"}),
   Sample("DslDataSet", o, DslDataSetGets, [block_pointer |-> Bits(Regular(o))], {"flags"}),
   Sample("SpaceMapHeader", o, SpaceMapHeaderGets[TRUE], <<>>, {}),
   Sample("SpaceMapHeader", o, SpaceMapHeaderGets[FALSE], <<>>, {}),
   Sample("SpaceMapEntry", o, SpaceMapEntryGets[FALSE], <<>>, {"a"}),
   Sample("SpaceMapEntry", o, SpaceMapEntryGets[FALSE], [a |-> {63, 1}], {"a"}),
   Sample("SpaceMapEntry", o, SpaceMapEntryGets[TRUE], [a |-> {62, 63, 1}], {"a"}),
   Sample("AceV0", o, AceV0Gets, <<>>, {"permissions", "flags", "ace_type"}),
   Sample("AceV1", o, AceV1Kinds["Simple"], [ace_type |-> {0}, flags |-> {6, 13}], {}),
   Sample("AceV1", o, AceV1Kinds["Id"], <<>>, {"ace_type"}),
   Sample("AceV1", o, AceV1Kinds["Object"], [ace_type |-> BitsOf(6)], {}),
   AclSample(o, 0), AclSample(o, 1),
   Sample("Znode", o, ZnodeGets, [mode |-> {2, 15}, acl |-> Bits(AclSample(o, 0))], {"mode"}),
   Sample("ZapMicroEntry", o, ZapMicroEntryGets, [name |-> BitsOf(97) \cup At(BitsOf(98), 8)], {}),
   Sample("ZapMicroEntryRef", o, ZapMicroEntryGets,
     [name |-> BitsOf(97) \cup At(BitsOf(98), 8) \cup At(BitsOf(99), 16)], {}),
   Sample("ZapHeader", o, ZapMicroHeaderGets, [block_type |-> MicroBlockType], {"normalization"}),
   Sample("ZapHeader", o, ZapMegaHeaderGets,
     [block_type |-> MegaBlockType, magic |-> MegaMagic], {"normalization", "flags"}),
   Sample("ZapLeafHeader", o, ZapLeafHeaderGets,
     [block_type |-> LeafBlockType, magic |-> LeafMagic, flags |-> {0}], {"magic", "flags"})}
  \cup {DnodeSample(o, n, FALSE) : n \in 0..3} \cup {DnodeSample(o, 1, TRUE)}
  \cup {Sample("ZapLeafChunk", o, ZapLeafChunkGets[k], [chunk_type |-> ChunkType[k]], {"chunk_type", "next"}) :
          k \in {"Array", "Entry", "Free"}}
  \cup {Sample("ObjectSet", o, ObjectSetGets[e],
          [dnode |-> Bits(DnodeSample(o, 1, FALSE)), zil_header |-> Bits(ZilSample(o)),
           user_used |-> Bits(DnodeSample(o, 1, FALSE)), group_used |-> {},
           project_used |-> Bits(DnodeSample(o, 2, FALSE))], {"flags"}) : e \in {0, 2, 3}}
  \cup {Sample("BpObjectHeader", o, BpObjectHeaderLayout(n), <<>>, {}) : n \in {2, 4, 6, 7}}

\* Bits of a field at its ends, of a word of flags all, as bits of the data.
Ends(s) ==
  UNION {{Place(IF p.kind = "num" THEN s.order ELSE "Little", p.at, p.n, b) : b \in {0, 8 * p.n - 1}} :
           p \in {s.lay[x] : x \in DOMAIN s.lay}}
WordBits(s, bits) ==
  UNION {{Place(s.order, p.at, p.n, b) : b \in bits \cap 0..(8 * p.n - 1)} :
           p \in {s.lay[x] : x \in s.words}}
Cuts == {0, 1, 2, 3, 7, 31, 36, 39, 40, 48, 56, 60, 61, 62, 63}
Pairs(S) == {{b, c} : b \in S, c \in S}
\* Kinds whose flags decide what other bits mean.
Layered == {"Dva", "BlockPointer", "UberBlockMmp", "SpaceMapEntry", "Dnode"}
Flips(s) ==
  {{}} \cup {{b} : b \in Ends(s) \cup WordBits(s, 0..63)}
       \cup (IF s.kind \in Layered THEN Pairs(WordBits(s, Cuts)) ELSE {})
Lengths(s) ==
  UNION {{p.at, p.at + p.n - 1, p.at + p.n} : p \in {s.lay[x] : x \in DOMAIN s.lay}}
    \ {s.data.len}
SymDiff(A, B) == (A \ B) \cup (B \ A)
Cut(d, len) == Data({b \in d.bits : b < 8 * len}, len)

MCOnDisk ==
  UNION {{[kind |-> s.kind, order |-> s.order, whole |-> s.data, sealed |-> TRUE,
           data |-> Data(SymDiff(s.data.bits, f), s.data.len)] : f \in Flips(s)}
         \cup {[kind |-> s.kind, order |-> s.order, whole |-> s.data, sealed |-> TRUE,
                data |-> Cut(s.data, n)] : n \in IF s.kind = "UberBlock" THEN {} ELSE Lengths(s)} :
         s \in Samples("Big") \cup Samples("Little")}
  \* Uberblock slots whose checksum does not match: torn, empty, and reused.
  \cup {[kind |-> "UberBlock", order |-> o, whole |-> Data({1}, 1024), sealed |-> FALSE,
         data |-> Data(b, 1024)] : o \in Orders, b \in {{}, {64}, {63}, {128}, {8000}}}

Wide == 0..30
SomeDva == [vdev |-> {0}, allocated |-> {0}, offset |-> {0}, is_gang |-> FALSE]
OutOfRange(v) ==
  {[v EXCEPT !.logical_sectors = {}], [v EXCEPT !.logical_sectors = {16}],
   [v EXCEPT !.physical_sectors = {0, 16}], [v EXCEPT !.level = {5}]}
MCBuilt ==
  UNION {
    {[kind |-> "Dva", order |-> o, value |-> v] :
       v \in {[SomeDva EXCEPT !.vdev = Wide], [SomeDva EXCEPT !.allocated = Wide],
              [SomeDva EXCEPT !.allocated = {}], [SomeDva EXCEPT !.offset = {63}]}}
    \cup {[kind |-> "BlockPointer", order |-> o, value |-> v] :
       v \in OutOfRange(Decode("BlockPointer", o, Regular(o).data, TRUE).val)}
    \cup {[kind |-> "UberBlockMmp", order |-> o,
           value |-> [delay |-> {}, fail_intervals |-> None, sequence |-> None,
                      write_interval |-> [some |-> w]]] : w \in {{23}, {24}, {}}} : o \in Orders}

=============================================================================
