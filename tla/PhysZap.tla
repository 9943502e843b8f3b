------------------------------- MODULE PhysZap -------------------------------
(***************************************************************************)
(* phys/zap.rs: the headers, entries and chunks of ZAP blocks.             *)
(***************************************************************************)
EXTENDS PhysDatasets

CaseNormalizations == {{}, {1}, {2}}
UnicodeNormalizations == {{}, {4}, {5}, {4, 6}, {5, 6}}
CaseMask == {1, 2}
UnicodeMask == {4, 5, 6}
NormalizationChecks(n) ==
  <<Check("normalization", "Normalization", ~(n \subseteq CaseMask \cup UnicodeMask)),
    Check("normalization", "CaseNormalization", n \cap CaseMask \notin CaseNormalizations),
    Check("normalization", "UnicodeNormalization", n \cap UnicodeMask \notin UnicodeNormalizations)>>

MicroBlockType == {0, 1, 63}
MegaBlockType == {0, 63}
LeafBlockType == {63}
MegaMagic == {0, 1, 3, 5, 7, 9, 12, 13, 15, 17, 19, 21, 24, 26, 28, 29, 30, 31, 33}
LeafMagic == {0, 1, 2, 3, 5, 7, 9, 10, 11, 12, 16, 17, 19, 21, 23, 25}
-----------------------------------------------------------------------------
ZapMicroHeaderGets == Layout(U64(<<"block_type", "salt", "normalization">>) \o Zeros("pad", 40))
ZapMicroHeader_from_decoder(order, d) ==
  Decoded(order, d, ZapMicroHeaderGets, NoRecords,
    LAMBDA r : <<Check("block_type", "BlockType", r.block_type # MicroBlockType)>>
                 \o NormalizationChecks(r.normalization),
    LAMBDA r : [type |-> "Micro", salt |-> r.salt,
                case_normalization |-> r.normalization \cap CaseMask,
                unicode_normalization |-> r.normalization \cap UnicodeMask])
ZapMicroHeaderPuts == Layout(U64(<<"block_type", "salt", "normalization">>) \o Zeros("pad", 40))
ZapMicroHeader_to_encoder(order, v) ==
  Encoded(order, <<>>, ZapMicroHeaderPuts,
    [block_type |-> MicroBlockType, salt |-> v.salt,
     normalization |-> v.case_normalization \cup v.unicode_normalization])
-----------------------------------------------------------------------------
\* Fifty bytes of name with a zero byte among them.
NameBytes == 50
ZapMicroEntryGets == Layout(U64(<<"value">>) \o U32("cd") \o Zeros("pad", 2) \o Raw("name", NameBytes))
Terminators(name) == {i \in 0..(NameBytes - 1) : ByteAt(name, i) = {}}
NameLength(name) == CHOOSE i \in Terminators(name) : \A j \in Terminators(name) : i <= j
NoEntry(d) == get_bytes(d.bits, 0, 64) = {}
ZapMicroEntry_from_decoder(order, d) ==
  IF d.len < 64 THEN Err("Binary")
  ELSE IF NoEntry(d) THEN Ok(None)
  ELSE Decoded(order, d, ZapMicroEntryGets, NoRecords,
         LAMBDA r : <<Check("name", "NameNotNullTerminated", Terminators(r.name) = {})>>,
         LAMBDA r : [cd |-> r.cd, name |-> Field(r.name, 0, 8 * (NameBytes - 1)), value |-> r.value])
ZapMicroEntryPuts == Layout(U64(<<"value">>) \o U32("cd") \o Zeros("pad", 2)
                       \o Raw("name", NameBytes - 1) \o U8("nul"))
ZapMicroEntry_to_encoder(order, v) ==
  IF v = None THEN Ok(Data({}, 64))
  ELSE Encoded(order, <<Refusal("Binary", put_bytes_refused)>>, ZapMicroEntryPuts,
         [value |-> v.value, cd |-> v.cd, name |-> v.name, nul |-> {}])

ZapMicroEntryRef_from_decoder(order, d) ==
  IF d.len < 64 THEN Err("Binary")
  ELSE IF NoEntry(d) THEN Ok(None)
  ELSE Decoded(order, d, ZapMicroEntryGets, NoRecords,
         LAMBDA r :
           IF Terminators(r.name) = {} THEN <<Check("name", "NameNotNullTerminated", TRUE)>>
           ELSE <<Check("name", "InvalidStr", ~Utf8(r.name, NameLength(r.name)))>>,
         LAMBDA r : [cd |-> r.cd, value |-> r.value, length |-> NameLength(r.name),
                     name |-> Field(r.name, 0, 8 * NameLength(r.name))])
\* Zeros up to NAME_MAX + 1 and then one byte more.
ZapMicroEntryRefPuts == Layout(U64(<<"value">>) \o U32("cd") \o Zeros("pad", 2)
                          \o Raw("name", NameBytes) \o U8("nul"))
ZapMicroEntryRef_to_encoder(order, v) ==
  IF v = None THEN Ok(Data({}, 64))
  ELSE Encoded(order, <<Refusal("NameTooLong", v.length > NameBytes - 1),
                        Refusal("Binary", put_bytes_refused)>>, ZapMicroEntryRefPuts,
         [value |-> v.value, cd |-> v.cd, name |-> v.name, nul |-> {}])
ZapMicroEntryDecodeError == {"Binary", "NameNotNullTerminated", "InvalidStr"}
ZapMicroEntryEncodeError == {"Binary", "NameTooLong"}
-----------------------------------------------------------------------------
ZapMegaPointerTableGets ==
  Layout(U64(<<"starting_block", "blocks", "hash_bits", "next_block", "blocks_copied">>))
ZapMegaPointerTable_from_decoder(order, d) ==
  Decoded(order, d, ZapMegaPointerTableGets, NoRecords, LAMBDA r : <<>>, LAMBDA r : r)
ZapMegaPointerTablePuts ==
  Layout(U64(<<"starting_block", "blocks", "hash_bits", "next_block", "blocks_copied">>))
ZapMegaPointerTable_to_encoder(order, v) == Encoded(order, <<>>, ZapMegaPointerTablePuts, v)

ZapMegaHeaderGets ==
  Layout(U64(<<"block_type", "magic">>) \o Rec("table", 40)
    \o U64(<<"next_free_block", "number_of_leafs", "number_of_entries", "salt", "normalization",
             "flags">>))
ZapMegaHeader_from_decoder(order, d) ==
  Decoded(order, d, ZapMegaHeaderGets,
    Nested(order, d, ZapMegaHeaderGets, {"table"}, ZapMegaPointerTable_from_decoder),
    LAMBDA r :
      <<Check("block_type", "BlockType", r.block_type # MegaBlockType),
        Check("magic", "Magic", r.magic # MegaMagic),
        Check("table", "ZapMegaPointerTable", ~r.table.ok)>>
        \o NormalizationChecks(r.normalization) \o <<Check("flags", "Flags", ~Fits(r.flags, 3))>>,
    LAMBDA r :
      [type |-> "Mega", table |-> r.table, next_free_block |-> r.next_free_block,
       number_of_leafs |-> r.number_of_leafs, number_of_entries |-> r.number_of_entries,
       salt |-> r.salt, case_normalization |-> r.normalization \cap CaseMask,
       unicode_normalization |-> r.normalization \cap UnicodeMask,
       hash_bits_48 |-> 0 \in r.flags, key_u64 |-> 1 \in r.flags, pre_hashed_key |-> 2 \in r.flags])
ZapMegaHeaderPuts ==
  Layout(U64(<<"block_type", "magic">>) \o Rec("table", 40)
    \o U64(<<"next_free_block", "number_of_leafs", "number_of_entries", "salt", "normalization",
             "flags">>))
ZapMegaHeader_to_encoder(order, v) ==
  Encoded(order, <<>>, ZapMegaHeaderPuts,
    [block_type |-> MegaBlockType, magic |-> MegaMagic,
     table |-> ZapMegaPointerTable_to_encoder(order, v.table.val).val.bits,
     next_free_block |-> v.next_free_block, number_of_leafs |-> v.number_of_leafs,
     number_of_entries |-> v.number_of_entries, salt |-> v.salt,
     normalization |-> v.case_normalization \cup v.unicode_normalization,
     flags |-> Flag(v.hash_bits_48, 0) \cup Flag(v.key_u64, 1) \cup Flag(v.pre_hashed_key, 2)])

ZapHeader_from_decoder_Unwrapped(order, d) ==
  LET block_type == get_uint(order, d.bits, 0, 8)
  IN CASE d.len < 8 -> Err("Binary")
       [] d.len >= 8 /\ block_type = MegaBlockType -> ZapMegaHeader_from_decoder(order, d)
       [] d.len >= 8 /\ block_type = MicroBlockType -> ZapMicroHeader_from_decoder(order, d)
       [] OTHER -> Err("BlockType")
\* The block type decides; an error of either kind is an error of that kind.
ZapHeader_from_decoder(order, d) ==
  LET block_type == get_uint(order, d.bits, 0, 8)
      of(e, r) == IF r.ok THEN r ELSE Err(e)
  IN CASE d.len < 8 -> Err("Binary")
       [] d.len >= 8 /\ block_type = MegaBlockType ->
            of("ZapMegaHeader", ZapMegaHeader_from_decoder(order, d))
       [] d.len >= 8 /\ block_type = MicroBlockType ->
            of("ZapMicroHeader", ZapMicroHeader_from_decoder(order, d))
       [] OTHER -> Err("BlockType")
ZapHeader_to_encoder(order, v) ==
  IF v.type = "Mega" THEN ZapMegaHeader_to_encoder(order, v) ELSE ZapMicroHeader_to_encoder(order, v)
ZapHeaderDecodeError == {"Binary", "BlockType", "ZapMegaHeader", "ZapMicroHeader"}
-----------------------------------------------------------------------------
\* The chunk number that means none.
EndOfList == 0..15
Next_get(w) == IF w = EndOfList THEN None ELSE [some |-> w]
Next_put(o) == IF o = None THEN EndOfList ELSE o.some

ZapLeafHeaderGets ==
  Layout(U64(<<"block_type">>) \o Zeros("pad_a", 8) \o U64(<<"hash_prefix">>) \o U32("magic")
    \o Nums(2, <<"number_of_free_chunks", "number_of_entries", "hash_prefix_len", "next_free_chunk">>)
    \o U8("flags") \o Zeros("pad_b", 11))
ZapLeafHeader_from_decoder(order, d) ==
  Decoded(order, d, ZapLeafHeaderGets, NoRecords,
    LAMBDA r :
      <<Check("block_type", "BlockType", r.block_type # LeafBlockType),
        Check("magic", "Magic", r.magic # LeafMagic), Check("flags", "Flags", ~Fits(r.flags, 1))>>,
    LAMBDA r :
      [hash_prefix |-> r.hash_prefix, number_of_free_chunks |-> r.number_of_free_chunks,
       number_of_entries |-> r.number_of_entries, hash_prefix_len |-> r.hash_prefix_len,
       next_free_chunk |-> Next_get(r.next_free_chunk), cd_sorted |-> 0 \in r.flags])
ZapLeafHeaderPuts ==
  Layout(U64(<<"block_type">>) \o Zeros("pad_a", 8) \o U64(<<"hash_prefix">>) \o U32("magic")
    \o Nums(2, <<"number_of_free_chunks", "number_of_entries", "hash_prefix_len", "next_free_chunk">>)
    \o U8("flags") \o Zeros("pad_b", 11))
ZapLeafHeader_to_encoder(order, v) ==
  Encoded(order, <<>>, ZapLeafHeaderPuts,
    [block_type |-> LeafBlockType, hash_prefix |-> v.hash_prefix, magic |-> LeafMagic,
     number_of_free_chunks |-> v.number_of_free_chunks, number_of_entries |-> v.number_of_entries,
     hash_prefix_len |-> v.hash_prefix_len, next_free_chunk |-> Next_put(v.next_free_chunk),
     flags |-> Flag(v.cd_sorted, 0)])
ZapLeafHeaderDecodeError == {"Binary", "BlockSize", "BlockType", "Flags", "Magic"}

-----------------------------------------------------------------------------
ArrayChunkGets == Layout(U8("chunk_type") \o Raw("data", 21) \o U16("next"))
EntryChunkGets == Layout(Nums(1, <<"chunk_type", "value_int_size">>)
  \o Nums(2, <<"next", "name_chunk", "name_length", "value_chunk", "value_length">>)
  \o U32("cd") \o U64(<<"hash">>))
FreeChunkGets == Layout(U8("chunk_type") \o Raw("data", 21) \o U16("next"))
ZapLeafChunkGets == [Array |-> ArrayChunkGets, Entry |-> EntryChunkGets, Free |-> FreeChunkGets]
ChunkType == [Array |-> BitsOf(251), Entry |-> BitsOf(252), Free |-> BitsOf(253)]
ChunkKinds(chunk_type) == {k \in DOMAIN ChunkType : ChunkType[k] = chunk_type}
ZapLeafChunk_decoded(order, d, k) ==
  Decoded(order, d, ZapLeafChunkGets[k], NoRecords, LAMBDA r : <<>>,
    LAMBDA r : [x \in DOMAIN r \ (IF k = "Free" THEN {"data"} ELSE {}) |->
                  IF x = "next" THEN Next_get(r.next) ELSE r[x]])
ZapLeafChunk_from_decoder(order, d) ==
  IF d.len < 1 THEN Err("Binary")
  ELSE IF ChunkKinds(ByteAt(d.bits, 0)) = {} THEN Err("ChunkType")
  ELSE ZapLeafChunk_decoded(order, d, CHOOSE k \in ChunkKinds(ByteAt(d.bits, 0)) : TRUE)
ArrayChunkPuts == Layout(U8("chunk_type") \o Raw("data", 21) \o U16("next"))
EntryChunkPuts == Layout(Nums(1, <<"chunk_type", "value_int_size">>)
  \o Nums(2, <<"next", "name_chunk", "name_length", "value_chunk", "value_length">>)
  \o U32("cd") \o U64(<<"hash">>))
FreeChunkPuts == Layout(U8("chunk_type") \o Zeros("data", 21) \o U16("next"))
ZapLeafChunkPuts == [Array |-> ArrayChunkPuts, Entry |-> EntryChunkPuts, Free |-> FreeChunkPuts]
ZapLeafChunk_encoded(order, v, k) ==
  Encoded(order, <<Refusal("Binary", k = "Array" /\ put_bytes_refused)>>, ZapLeafChunkPuts[k],
    [v EXCEPT !.next = Next_put(v.next)])
ZapLeafChunk_to_encoder(order, v) ==
  ZapLeafChunk_encoded(order, v, CHOOSE k \in ChunkKinds(v.chunk_type) : TRUE)
ZapLeafChunkDecodeError == {"Binary", "ChunkType"}
=============================================================================
