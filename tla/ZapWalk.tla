------------------------------ MODULE ZapWalk -------------------------------
(***************************************************************************)
(* walk.rs: the entries of a ZAP object, micro (one block of name and      *)
(* value slots) or fat (leaf blocks of chunks, whose names and values are  *)
(* chains of array chunks), and the lookups built on them.                 *)
(*                                                                         *)
(* zap.blocks maps a block number to what file.rs read_dnode_block returns *)
(* for it; a block it does not map is a hole.  Bytes are small numbers, 0  *)
(* is NUL, and a u64 is the sequence of its U64_BYTES big-endian bytes.    *)
(***************************************************************************)
EXTENDS Integers, Sequences, SequencesExt, FiniteSets, Outcome

CONSTANTS ZAP_LEAF_HEADER_SIZE, ZAP_LEAF_CHUNK_SIZE, ZAP_LEAF_DATA_SIZE,
          MAX_ZAP_LEAF_BLOCKS, U64_BYTES,
          HashEntryShift,          \* a leaf has 2^(block_shift - 5) hash entries
          NotUtf8, Replacement,    \* bytes that are no text; U+FFFD
          NoNext,                  \* ZAP_LEAF_EOL
          Zaps, Calls              \* the objects, and what is asked of them

ASSUME ZapSizesAssumption ==
  /\ {ZAP_LEAF_HEADER_SIZE, ZAP_LEAF_CHUNK_SIZE, ZAP_LEAF_DATA_SIZE} \subseteq Nat \ {0}
  /\ {MAX_ZAP_LEAF_BLOCKS, U64_BYTES, HashEntryShift} \subseteq Nat \ {0}
  /\ \A z \in Zaps : z.dbsz \in Nat

VARIABLES zap, call, zapPc,
          blkid,     \* the block read last
          ci,        \* the chunk collect_leaf looks at
          chain,     \* collect_chunks: which array, its length, next, guard, bytes
          name,      \* the name of the entry whose value is collected
          entries,   \* out: names and raw values
          zapResult
zapVars == <<zap, call, zapPc, blkid, ci, chain, name, entries, zapResult>>
walkVars == <<blkid, ci, chain, name, entries>>

Hole == [kind |-> "hole"]
Block(b) == IF b \in DOMAIN zap.blocks THEN zap.blocks[b] ELSE Hole
NoChain == [array |-> "none", length |-> 0, next |-> NoNext, guard |-> 0, bytes |-> <<>>]

\* Leaf geometry, from the dnode's block size.
block_shift == CHOOSE s \in 0 .. zap.dbsz :
                 zap.dbsz % 2 ^ s = 0 /\ zap.dbsz % 2 ^ (s + 1) # 0
chunk_base == ZAP_LEAF_HEADER_SIZE + 2 * 2 ^ (block_shift - HashEntryShift)
nchunks_All == zap.dbsz \div ZAP_LEAF_CHUNK_SIZE   \* slip: the header is forgotten
nchunks == (zap.dbsz - chunk_base) \div ZAP_LEAF_CHUNK_SIZE

\* block.get: the chunks that the block, of its own length, really has.
InBlock(b, c) == chunk_base + (c + 1) * ZAP_LEAF_CHUNK_SIZE <= b.len
Chunk(b, c) == IF c \in DOMAIN b.chunks THEN b.chunks[c] ELSE [kind |-> "free"]

\* Slip: the first bytes of a long value, not the last.
value_as_u64_Front(v) ==
  LET n == IF Len(v) < U64_BYTES THEN Len(v) ELSE U64_BYTES
  IN  [k \in 1 .. U64_BYTES - n |-> 0] \o SubSeq(v, 1, n)
value_as_u64(v) ==
  LET n == IF Len(v) < U64_BYTES THEN Len(v) ELSE U64_BYTES
  IN  [k \in 1 .. U64_BYTES - n |-> 0] \o SubSeq(v, Len(v) - n + 1, Len(v))

\* Slip: what follows the NUL stays in the name.
NameOf_Whole(bytes) == [k \in 1 .. Len(bytes) |-> IF bytes[k] \in NotUtf8 THEN Replacement ELSE bytes[k]]
\* The bytes before the first NUL, as text.
NameOf(bytes) ==
  LET nuls == {k \in 1 .. Len(bytes) : bytes[k] = 0}
      end == IF nuls = {} THEN Len(bytes) ELSE (CHOOSE k \in nuls : \A j \in nuls : k <= j) - 1
  IN  [k \in 1 .. end |-> IF bytes[k] \in NotUtf8 THEN Replacement ELSE bytes[k]]

\* zap_entries, zap_lookup, zap_lookup_bytes: what each makes of the entries.
Nothing == <<>>
Answer(list) ==
  LET found == {k \in 1 .. Len(list) : list[k].name = call.name}
      first == list[CHOOSE k \in found : \A j \in found : k <= j].value
  IN  CASE call.op = "zap_entries" ->
             [k \in 1 .. Len(list) |-> [name |-> list[k].name,
                                        value |-> value_as_u64(list[k].value)]]
        [] call.op = "zap_lookup" -> IF found = {} THEN Nothing ELSE value_as_u64(first)
        [] call.op = "zap_lookup_bytes" -> IF found = {} THEN Nothing ELSE first
-----------------------------------------------------------------------------
ZapReturn(r) == zapPc' = "done" /\ zapResult' = r /\ UNCHANGED <<zap, call, walkVars>>
Bad(token) == ZapReturn(Err("Inconsistent", token))
ZapGoto(p) == zapPc' = p /\ UNCHANGED <<zap, call, zapResult>>

ZapStart(z) ==
  /\ zap = z /\ call \in Calls
  /\ zapPc = "block0" /\ zapResult = <<>>
  /\ blkid = 0 /\ ci = 0 /\ chain = NoChain /\ name = <<>> /\ entries = <<>>

ZapInit == \E z \in Zaps : ZapStart(z)

\* zap_lookup_bytes reads block 0 before it minds the block size.
Dbsz0 ==
  /\ zapPc = "block0" /\ zap.dbsz = 0
  /\ call.op = "zap_lookup_bytes" => Block(0).kind \notin {"lost", "hole", "stub"}
  /\ Bad("zap_dbsz0")

Block0Useless ==
  /\ zapPc = "block0"
  /\ zap.dbsz # 0 \/ call.op = "zap_lookup_bytes"
  /\ CASE Block(0).kind = "lost" -> ZapReturn(Err("Io", "io_block"))
       [] Block(0).kind = "hole" -> Bad("zap_empty")
       [] Block(0).kind = "stub" -> ZapReturn([ok |-> FALSE, kind |-> "panic", token |-> "slice"])
       [] Block(0).kind \in {"leaf", "other"} /\ zap.dbsz # 0 -> Bad("zap_bad_type")
       [] OTHER -> FALSE

\* micro_entries: empty slots are skipped, a slot that does not decode fails.
MicroEntries ==
  /\ zapPc = "block0" /\ zap.dbsz # 0 /\ Block(0).kind = "micro"
  /\ LET b == Block(0)
         used == SelectSeq(b.slots, LAMBDA s : s.kind # "empty")
         text == \A k \in 1 .. Len(used) :
                   used[k].kind = "entry" /\ Range(used[k].name) \cap NotUtf8 = {}
     IN  IF ~b.whole THEN Bad("zap_micro")
         ELSE IF ~text THEN Bad("zap_entry")
         ELSE ZapReturn(Ok(Answer([k \in 1 .. Len(used) |->
                                     [name |-> used[k].name, value |-> used[k].value]])))

FatHeader ==
  /\ zapPc = "block0" /\ zap.dbsz # 0 /\ Block(0).kind = "fat"
  /\ IF chunk_base >= zap.dbsz THEN Bad("zap_leaf_geom")
     ELSE ZapGoto("block") /\ blkid' = 1 /\ UNCHANGED <<ci, chain, name, entries>>

\* fat_entries_raw: a hole, or the limit, ends the scan.
ScanEnds ==
  /\ zapPc = "block"
  /\ blkid >= MAX_ZAP_LEAF_BLOCKS \/ Block(blkid).kind = "hole"
  /\ ZapReturn(Ok(Answer(entries)))

NextBlock_Stay ==   \* slip: a block that is no leaf is read again
  /\ zapPc = "block" /\ blkid < MAX_ZAP_LEAF_BLOCKS
  /\ CASE Block(blkid).kind = "lost" -> ZapReturn(Err("Io", "io_block"))
       [] Block(blkid).kind = "hole" -> FALSE
       [] Block(blkid).kind = "leaf" ->
            ZapGoto("chunk") /\ ci' = 0 /\ UNCHANGED <<blkid, chain, name, entries>>
       [] OTHER -> ZapGoto("block") /\ UNCHANGED walkVars
NextBlock ==
  /\ zapPc = "block" /\ blkid < MAX_ZAP_LEAF_BLOCKS
  /\ CASE Block(blkid).kind = "lost" -> ZapReturn(Err("Io", "io_block"))
       [] Block(blkid).kind = "hole" -> FALSE
       [] Block(blkid).kind = "leaf" ->
            ZapGoto("chunk") /\ ci' = 0 /\ UNCHANGED <<blkid, chain, name, entries>>
       [] OTHER -> ZapGoto("block") /\ blkid' = blkid + 1 /\ UNCHANGED <<ci, chain, name, entries>>

\* collect_leaf, one chunk.
Leaf == Block(blkid)
Start(array, first, length) ==
  [array |-> array, length |-> length, next |-> first, guard |-> 0, bytes |-> <<>>]
NextChunk ==
  /\ zapPc = "chunk"
  /\ IF ci >= nchunks
     THEN ZapGoto("block") /\ blkid' = blkid + 1 /\ UNCHANGED <<ci, chain, name, entries>>
     ELSE IF ~InBlock(Leaf, ci) THEN Bad("zap_leaf_chunk")
     ELSE IF Chunk(Leaf, ci).kind # "entry"
     THEN ZapGoto("chunk") /\ ci' = ci + 1 /\ UNCHANGED <<blkid, chain, name, entries>>
     ELSE /\ ZapGoto("chain")
          /\ chain' = Start("name", Chunk(Leaf, ci).name_chunk, Chunk(Leaf, ci).name_length)
          /\ UNCHANGED <<blkid, ci, name, entries>>

\* collect_chunks: its loop goes on.
Collecting == zapPc = "chain" /\ Len(chain.bytes) < chain.length /\ chain.next # NoNext
\* Slip: a chain may go round for ever.
ChainOk_NoGuard == chain.next < nchunks /\ InBlock(Leaf, chain.next)
ChainOk ==
  /\ chain.next < nchunks /\ chain.guard <= nchunks
  /\ InBlock(Leaf, chain.next)
FollowChain ==
  /\ Collecting
  /\ IF ~ChainOk \/ Chunk(Leaf, chain.next).kind # "array"
     THEN Bad("zap_array_chunk")
     ELSE LET c == Chunk(Leaf, chain.next)
              left == chain.length - Len(chain.bytes)
              take == IF left < ZAP_LEAF_DATA_SIZE THEN left ELSE ZAP_LEAF_DATA_SIZE
          IN  /\ ZapGoto("chain")
              /\ chain' = [chain EXCEPT !.next = c.next, !.guard = @ + 1,
                                        !.bytes = @ \o SubSeq(c.data, 1, take)]
              /\ UNCHANGED <<blkid, ci, name, entries>>

\* An array is collected, or its chain ended early: on to the value, or to the
\* next chunk.
ArrayDone ==
  /\ zapPc = "chain" /\ ~Collecting
  /\ \/ /\ chain.array = "name"
        /\ ZapGoto("chain")
        /\ name' = NameOf(chain.bytes)
        /\ chain' = LET e == Chunk(Leaf, ci)
                    IN  Start("value", e.value_chunk, e.value_int_size * e.value_length)
        /\ UNCHANGED <<blkid, ci, entries>>
     \/ /\ chain.array = "value"
        /\ ZapGoto("chunk")
        /\ entries' = Append(entries, [name |-> name, value |-> chain.bytes])
        /\ ci' = ci + 1 /\ chain' = NoChain /\ name' = <<>>
        /\ UNCHANGED blkid

ZapNext == \/ Dbsz0 \/ Block0Useless \/ MicroEntries \/ FatHeader \/ ScanEnds
           \/ NextBlock \/ NextChunk \/ FollowChain \/ ArrayDone
-----------------------------------------------------------------------------
\* The chunk that k links lead to from chunk first of leaf b, NoNext beyond
\* the end of the chain.
IsArray(b, c) == c < nchunks /\ InBlock(b, c) /\ Chunk(b, c).kind = "array"
Reached(b, first, k) ==
  LET r[j \in 0 .. k] == IF j = 0 THEN first
                         ELSE IF IsArray(b, r[j - 1]) THEN Chunk(b, r[j - 1]).next ELSE NoNext
  IN  r[k]
\* Byte i of the array that starts at chunk first.
ArrayByte(b, first, i) ==
  Chunk(b, Reached(b, first, (i - 1) \div ZAP_LEAF_DATA_SIZE)).data[((i - 1) % ZAP_LEAF_DATA_SIZE) + 1]
ArrayBytes(b, first, length) == [i \in 1 .. length |-> ArrayByte(b, first, i)]

\* What a writer stores (distinct names, Map below): chains of distinct array chunks long enough for their
\* arrays, names that end in their only NUL, and blocks of the right size.
SoundArray(b, first, length) ==
  LET links == 0 .. (length - 1) \div ZAP_LEAF_DATA_SIZE
  IN  /\ \A k \in links : IsArray(b, Reached(b, first, k))
      /\ \A j, k \in links : Reached(b, first, j) = Reached(b, first, k) => j = k
SoundName(s) == /\ s # <<>> /\ s[Len(s)] = 0
                /\ \A k \in 1 .. Len(s) - 1 : s[k] # 0 /\ s[k] \notin NotUtf8
EntriesOf(b) == {c \in 0 .. nchunks - 1 : Chunk(b, c).kind = "entry"}
ValueLength(e) == e.value_int_size * e.value_length
SoundLeaf(b) ==
  /\ b.len = zap.dbsz
  /\ \A c \in EntriesOf(b) :
       LET e == Chunk(b, c)
       IN  /\ SoundArray(b, e.name_chunk, e.name_length)
           /\ SoundArray(b, e.value_chunk, ValueLength(e))
           /\ SoundName(ArrayBytes(b, e.name_chunk, e.name_length))
Leaves == {n \in DOMAIN zap.blocks : n > 0 /\ zap.blocks[n].kind = "leaf"}
Sound ==
  /\ zap.dbsz # 0
  /\ \A n \in DOMAIN zap.blocks : zap.blocks[n].kind # "lost" /\ n < MAX_ZAP_LEAF_BLOCKS
  /\ \/ /\ Block(0).kind = "micro" /\ Block(0).whole
        /\ \A k \in DOMAIN Block(0).slots :
             LET s == Block(0).slots[k]
             IN  s.kind = "entry" => SoundName(Append(s.name, 0))
        /\ \A k \in DOMAIN Block(0).slots : Block(0).slots[k].kind # "garbled"
     \/ Block(0).kind = "fat" /\ \A n \in Leaves : SoundLeaf(zap.blocks[n])
Gapless == \A n \in Leaves : \A g \in 1 .. n : Block(g).kind # "hole"

\* The names and raw values the object holds.
Places ==
  IF Block(0).kind = "micro"
  THEN {0} \X {k \in DOMAIN Block(0).slots : Block(0).slots[k].kind = "entry"}
  ELSE UNION {{n} \X EntriesOf(Block(n)) : n \in Leaves}
StoredAt(p) ==
  LET b == Block(p[1])
      e == IF p[1] = 0 THEN b.slots[p[2]] ELSE Chunk(b, p[2])
  IN  IF p[1] = 0 THEN [name |-> e.name, value |-> e.value]
      ELSE [name |-> Front(ArrayBytes(b, e.name_chunk, e.name_length)),
            value |-> ArrayBytes(b, e.value_chunk, ValueLength(e))]
Stored == {StoredAt(p) : p \in Places}
Map == Sound /\ \A p, q \in Places : StoredAt(p).name = StoredAt(q).name => p = q

\* Base-10 bytes, for the small numbers of the model.
BigEndian(s) == FoldLeft(LAMBDA a, d : 10 * a + d, 0, s)
SameNumber(u, v) == Len(u) = U64_BYTES /\ BigEndian(u) = BigEndian(v) % 10 ^ U64_BYTES
AnswersFrom(map) ==
  LET mine == {e \in map : e.name = call.name}
      v == zapResult.val
  IN  CASE call.op = "zap_entries" ->
             /\ Len(v) = Cardinality(map)
             /\ \A e \in map : \E k \in 1 .. Len(v) :
                  v[k].name = e.name /\ SameNumber(v[k].value, e.value)
        [] call.op = "zap_lookup" ->
             IF mine = {} THEN v = Nothing ELSE \E e \in mine : SameNumber(v, e.value)
        [] call.op = "zap_lookup_bytes" ->
             IF mine = {} THEN v = Nothing ELSE \E e \in mine : v = e.value

\* walk.rs zap_entries, zap_lookup, zap_lookup_bytes: from a ZAP that is stored
\* as ZFS stores it, with no hole among its blocks, each call answers from
\* exactly the names and values in it, whatever the chunks the names and values
\* are spread over and whatever blocks lie between the leaves.
ReadsTheMap == zapPc = "done" /\ Map /\ Gapless => zapResult.ok /\ AnswersFrom(Stored)

\* walk.rs collect_chunks: in any leaf, damaged or cyclic, the bytes collected
\* so far are those of the chain in its order, never more than were declared,
\* and the chain is left after at most one chunk more than the leaf has.
ChainFaithful ==
  zapPc = "chain" =>
    LET e == Chunk(Leaf, ci)
        first == IF chain.array = "name" THEN e.name_chunk ELSE e.value_chunk
    IN  /\ Len(chain.bytes) <= chain.length
        /\ chain.guard <= nchunks + 1
        /\ \A i \in 1 .. Len(chain.bytes) : chain.bytes[i] = ArrayByte(Leaf, first, i)

\* walk.rs fat_entries ("Decode every entry of a fat ZAP by scanning its leaf
\* blocks"): the same where blocks of the object have been freed, as ZFS frees
\* a pointer table that it has outgrown.
EveryLeafIsRead == zapPc = "done" /\ Map => zapResult.ok /\ AnswersFrom(Stored)
=============================================================================
