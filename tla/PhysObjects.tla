---------------------------- MODULE PhysObjects -----------------------------
(***************************************************************************)
(* phys/dnode.rs, object_set.rs, zil.rs, uberblock.rs, dsl.rs,             *)
(* space_map.rs and the block pointer objects of block_pointer.rs.         *)
(***************************************************************************)
EXTENDS PhysPointers

\* Sixteen bytes, and then as many extensions as there are bytes for.
BpObjectNames == <<"block_pointers_count", "physical_size", "compressed_size",
                   "uncompressed_size", "sub_objects_obj", "sub_objects_num",
                   "block_pointers_freed">>
BpObjectWords(len) == IF len <= 16 THEN 2 ELSE IF len <= 32 THEN 4 ELSE IF len <= 48 THEN 6 ELSE 7
BpObjectHeaderLayout(words) == Layout(U64(SubSeq(BpObjectNames, 1, words)))
BpObjectHeader_from_decoder(order, d) ==
  Decoded(order, d, BpObjectHeaderLayout(BpObjectWords(d.len)), NoRecords,
    LAMBDA r : <<Check("physical_size", "Size", d.len > 56)>>, LAMBDA r : r)
BpObjectHeader_to_encoder(order, v) ==
  LET n == CHOOSE n \in {2, 4, 6, 7} : DOMAIN v = {BpObjectNames[i] : i \in 1..n}
  IN Encoded(order, <<>>, BpObjectHeaderLayout(n), v)
BpObjectHeaderDecodeError == {"Binary", "Size"}
-----------------------------------------------------------------------------
ZilHeaderGets == Layout(U64(<<"claim_txg", "replay_seq">>) \o Rec("log", 128)
                   \o U64(<<"claim_blk_seq", "flags", "claim_lr_seq">>) \o Zeros("pad", 24))
ZilHeader_from_decoder(order, d) ==
  Decoded(order, d, ZilHeaderGets,
    Nested(order, d, ZilHeaderGets, {"log"}, BlockPointer_from_decoder),
    LAMBDA r : <<Check("log", "BlockPointer", ~r.log.ok)>>,
    LAMBDA r : [claim_txg |-> r.claim_txg, replay_seq |-> r.replay_seq, log |-> r.log,
                claim_blk_seq |-> r.claim_blk_seq, flags |-> r.flags,
                claim_lr_seq |-> r.claim_lr_seq])
ZilHeaderPuts == Layout(U64(<<"claim_txg", "replay_seq">>) \o Rec("log", 128)
                   \o U64(<<"claim_blk_seq", "flags", "claim_lr_seq">>) \o Zeros("pad", 24))
ZilHeader_to_encoder(order, v) ==
  EncodedAround(order, [log |-> BlockPointer_to_encoder(order, v.log.val)],
    LAMBDA n : <<Refusal("BlockPointer", ~n.log.ok)>>, ZilHeaderPuts, v)
ZilHeaderDecodeError == {"Binary", "BlockPointer"}
ZilHeaderEncodeError == {"Binary", "BlockPointer"}
-----------------------------------------------------------------------------
\* The last 448 bytes of a dnode: 0 to 3 block pointers, or one and a spill
\* pointer at the end, with the bonus bytes between.
DnodeTail(n, spill) ==
  (IF n >= 1 THEN Rec("ptr1", 128) ELSE <<>>) \o (IF n >= 2 THEN Rec("ptr2", 128) ELSE <<>>)
    \o (IF n = 3 THEN Rec("ptr3", 128) ELSE <<>>)
    \o (IF spill THEN Raw("bonus", 192) \o Rec("spill", 128) ELSE Raw("bonus", 448 - 128 * n))
DnodeTails == [n \in 0..3 |-> [spill \in BOOLEAN |-> Layout(DnodeTail(n, spill /\ n = 1))]]
DnodeTailOf(n, spill) == DnodeTails[IF n <= 3 THEN n ELSE 0][spill]
Tail_from_decoder(order, d, lay) ==
  [ptr |-> Nested(order, d, lay, DOMAIN lay \ {"bonus"}, BlockPointer_from_decoder),
   room |-> lay.bonus.n, bonus |-> get_uint("Little", d.bits, lay.bonus.at, lay.bonus.n)]

DnodeGets == Layout(Nums(1, <<"dmu", "indirect_block_shift", "levels", "nblkptr", "bonus_type",
                              "checksum", "compression", "flags">>)
               \o U16("data_block_size_sectors") \o U16("bonus_len") \o U8("extra_slots")
               \o Zeros("pad_a", 3) \o U64(<<"max_block_id", "used">>) \o Zeros("pad_b", 32)
               \o Raw("tail", 448))
SpillFlag == 2
Dnode_from_decoder(order, d) ==
  IF d.len < 512 THEN Err("Binary")
  ELSE IF get_bytes(d.bits, 0, 512) = {} THEN Ok(None)
  ELSE Decoded(order, d, DnodeGets,
         [tail |-> Tail_from_decoder(order, Slice(d, DnodeGets.tail),
                     DnodeTailOf(ValueOf(ByteAt(d.bits, DnodeGets.nblkptr.at)),
                                 SpillFlag \in ByteAt(d.bits, DnodeGets.flags.at)))],
         LAMBDA r :
           <<Check("dmu", "DmuType", r.dmu \notin DmuTypes),
             Check("bonus_type", "DmuType", r.bonus_type \notin DmuTypes),
             Check("checksum", "ChecksumType", r.checksum \notin ChecksumTypes),
             Check("compression", "CompressionType", r.compression \notin CompressionTypes),
             Check("flags", "Flags", ~Fits(r.flags, 4)),
             Check("flags", "SpillBlockPointerCount", SpillFlag \in r.flags /\ r.nblkptr # {0}),
             Check("pad_b", "BlockPointerCount", ValueOf(r.nblkptr) > 3),
             Check("tail", "BlockPointer", \E x \in DOMAIN r.tail.ptr : ~r.tail.ptr[x].ok),
             Check("tail", "BonusLength", ValueOf(r.bonus_len) > r.tail.room)>>,
         LAMBDA r :
           [dmu |-> r.dmu, indirect_block_shift |-> r.indirect_block_shift, levels |-> r.levels,
            bonus_type |-> r.bonus_type, checksum |-> r.checksum, compression |-> r.compression,
            data_block_size_sectors |-> r.data_block_size_sectors, bonus_len |-> r.bonus_len,
            extra_slots |-> r.extra_slots, max_block_id |-> r.max_block_id, used |-> r.used,
            used_bytes |-> 0 \in r.flags, user_used_accounted |-> 1 \in r.flags,
            user_obj_used_accounted |-> 3 \in r.flags, is_spill |-> SpillFlag \in r.flags,
            pointers |-> ValueOf(r.nblkptr), ptr |-> r.tail.ptr, bonus |-> r.tail.bonus])

DnodePuts == Layout(Nums(1, <<"dmu", "indirect_block_shift", "levels", "nblkptr", "bonus_type",
                              "checksum", "compression", "flags">>)
               \o U16("data_block_size_sectors") \o U16("bonus_len") \o U8("extra_slots")
               \o Zeros("pad_a", 3) \o U64(<<"max_block_id", "used">>) \o Zeros("pad_b", 32)
               \o Raw("tail", 448))
Tail_to_encoder(order, v, lay, ptr) ==
  [ptr |-> ptr, room |-> lay.bonus.n,
   val |-> Data(Emit(order, lay, [y \in DOMAIN lay |->
                       IF y = "bonus" THEN v.bonus ELSE Written(ptr[y])]), 448)]
Dnode_to_encoder(order, v) ==
  IF v = None THEN Ok(Data({}, 512))
  ELSE EncodedAround(order,
         [tail |-> Tail_to_encoder(order, v, DnodeTailOf(v.pointers, v.is_spill),
                     [x \in DOMAIN v.ptr |-> BlockPointer_to_encoder(order, v.ptr[x].val)])],
         LAMBDA n :
           <<Refusal("BonusLength", ValueOf(v.bonus_len) > n.tail.room),
             Refusal("BlockPointer", \E x \in DOMAIN n.tail.ptr \ {"spill"} : ~n.tail.ptr[x].ok),
             Refusal("Binary", put_bytes_refused),
             Refusal("BlockPointer", "spill" \in DOMAIN n.tail.ptr /\ ~n.tail.ptr["spill"].ok)>>,
         DnodePuts,
         [x \in DOMAIN DnodePuts |->
            CASE x = "nblkptr" -> BitsOf(v.pointers)
              [] x = "flags" -> Flag(v.used_bytes, 0) \cup Flag(v.user_used_accounted, 1)
                                  \cup Flag(v.is_spill, SpillFlag)
                                  \cup Flag(v.user_obj_used_accounted, 3)
              [] x \in {"pad_a", "pad_b", "tail"} -> {}
              [] OTHER -> v[x]])
DnodeDecodeError == {"Binary", "BlockPointer", "BlockPointerCount", "BonusLength", "ChecksumType",
                     "CompressionType", "DmuType", "Flags", "SpillBlockPointerCount"}
DnodeEncodeError == {"Binary", "BlockPointer", "BonusLength"}
-----------------------------------------------------------------------------
ObjectSetTypes == {BitsOf(k) : k \in 0..5}
ObjectSetGets ==
  LET zero == Rec("dnode", 512) \o Rec("zil_header", 192) \o U64(<<"os_type", "flags">>)
                \o Raw("portable_mac", 32) \o Raw("local_mac", 32) \o Zeros("pad", 240)
      two == zero \o Rec("user_used", 512) \o Rec("group_used", 512)
      three == two \o Rec("project_used", 512) \o Zeros("pad_three", 1536)
  IN [e \in {0, 2, 3} |-> Layout(CASE e = 0 -> zero [] e = 2 -> two [] e = 3 -> three)]
ObjectSetExtension(len) == IF len <= 1024 THEN 0 ELSE IF len <= 2048 THEN 2 ELSE 3
NodeNames == {"dnode", "user_used", "group_used", "project_used"}
BadNode(r, x) == x \in DOMAIN r /\ ~r[x].ok
NodeCheck(r, x) == Check(IF x \in DOMAIN r THEN x ELSE "pad", "Dnode", BadNode(r, x))
ObjectSet_decoded(order, d, lay) ==
  Decoded(order, d, lay,
    [x \in (NodeNames \cap DOMAIN lay) \cup {"zil_header"} |->
       IF x = "zil_header" THEN ZilHeader_from_decoder(order, Slice(d, lay[x]))
       ELSE Dnode_from_decoder(order, Slice(d, lay[x]))],
    LAMBDA r :
      <<NodeCheck(r, "dnode"),
        Check("dnode", "EmptyDnode", ~BadNode(r, "dnode") /\ r.dnode.val = None),
        Check("zil_header", "ZilHeader", ~r.zil_header.ok),
        Check("os_type", "ObjectSetType", r.os_type \notin ObjectSetTypes),
        Check("flags", "Flags", ~Fits(r.flags, 3)),
        NodeCheck(r, "user_used"), NodeCheck(r, "group_used"), NodeCheck(r, "project_used")>>,
    LAMBDA r :
      [node |-> [x \in NodeNames \cap DOMAIN r |-> r[x]], zil_header |-> r.zil_header,
       os_type |-> r.os_type, flags |-> r.flags, portable_mac |-> r.portable_mac,
       local_mac |-> r.local_mac])
ObjectSet_from_decoder(order, d) ==
  ObjectSet_decoded(order, d, ObjectSetGets[ObjectSetExtension(d.len)])
\* put_bytes_refused stops it at the latest at the portable MAC.
ObjectSet_to_encoder(order, v) ==
  EncodedAround(order,
    [x \in DOMAIN v.node \cup {"zil_header"} |->
       IF x = "zil_header" THEN ZilHeader_to_encoder(order, v.zil_header.val)
       ELSE Dnode_to_encoder(order, v.node[x].val)],
    LAMBDA n :
      <<Refusal("Dnode", ~n.dnode.ok), Refusal("ZilHeader", ~n.zil_header.ok),
        Refusal("Binary", put_bytes_refused), Refusal("Dnode", \E x \in DOMAIN n : ~n[x].ok)>>,
    ObjectSetGets[CASE "project_used" \in DOMAIN v.node -> 3
                    [] DOMAIN v.node = {"dnode", "user_used", "group_used"} -> 2
                    [] DOMAIN v.node = {"dnode"} -> 0], v)
ObjectSetDecodeError == {"Binary", "Dnode", "EmptyDnode", "Flags", "ObjectSetType", "ZilHeader"}
ObjectSetEncodeError == {"Binary", "Dnode", "ZilHeader"}
-----------------------------------------------------------------------------
\* Multi-modifier protection: all zero, or the magic and three values of
\* config, each with a bit that says whether it is there.
MmpMagic == {0, 4, 9, 11, 13, 14, 15, 18, 19, 20, 24, 29, 31}
MmpGets == Layout(U64(<<"magic", "delay", "config">>))
Optional(config, bit, v) == IF bit \in config THEN [some |-> v] ELSE None
FailIntervals(r) == Field(r.config, 48, 16)
Sequence(r) == Field(r.config, 32, 16)
WriteInterval(r) == Field(r.config, 8, 24)
Stray(r, bit, v) == bit \notin r.config /\ v # {}
UberBlockMmp_from_decoder(order, d) ==
  Decoded(order, d, MmpGets, NoRecords,
    LAMBDA r :
      IF r.magic = {}
      THEN <<Check("config", "NonZeroValues", r.delay # {} \/ r.config # {})>>
      ELSE <<Check("config", "InvalidMagic", r.magic # MmpMagic),
             Check("config", "NonZeroReservedConfigBits", Field(r.config, 3, 5) # {}),
             Check("config", "NonZeroValues",
                   \/ Stray(r, 2, FailIntervals(r)) \/ Stray(r, 1, Sequence(r))
                   \/ Stray(r, 0, WriteInterval(r)))>>,
    LAMBDA r :
      IF r.magic = {} THEN None
      ELSE [delay |-> r.delay, fail_intervals |-> Optional(r.config, 2, FailIntervals(r)),
            sequence |-> Optional(r.config, 1, Sequence(r)),
            write_interval |-> Optional(r.config, 0, WriteInterval(r))])
MmpPuts == Layout(U64(<<"magic", "delay", "config">>))
UberBlockMmp_to_encoder_Narrow(order, v) ==
  LET part(o, bit, lo) == IF o = None THEN {} ELSE {bit} \cup At(o.some, lo)
  IN IF v = None THEN Ok(Data({}, 24))
     ELSE Encoded(order,
            <<Refusal("WriteIntervalTooLarge", v.write_interval # None /\ ~Fits(v.write_interval.some, 23))>>,
            MmpPuts,
            [magic |-> MmpMagic, delay |-> v.delay,
             config |-> part(v.fail_intervals, 2, 48) \cup part(v.sequence, 1, 32)
                          \cup part(v.write_interval, 0, 8)])
UberBlockMmp_to_encoder(order, v) ==
  LET part(o, bit, lo) == IF o = None THEN {} ELSE {bit} \cup At(o.some, lo)
  IN IF v = None THEN Ok(Data({}, 24))
     ELSE Encoded(order,
            <<Refusal("WriteIntervalTooLarge", v.write_interval # None /\ ~Fits(v.write_interval.some, 24))>>,
            MmpPuts,
            [magic |-> MmpMagic, delay |-> v.delay,
             config |-> part(v.fail_intervals, 2, 48) \cup part(v.sequence, 1, 32)
                          \cup part(v.write_interval, 0, 8)])
UberBlockMmpDecodeError == {"Binary", "InvalidMagic", "NonZeroReservedConfigBits", "NonZeroValues"}
UberBlockMmpEncodeError == {"Binary", "WriteIntervalTooLarge"}
-----------------------------------------------------------------------------
SpaVersions == {BitsOf(k) : k \in (1..28) \cup {5000}}
UberBlockMagic == {2, 3, 8, 12, 13, 15, 17, 19, 20, 21, 23}
UberBlockSize == 1024
UberBlockGets == Layout(U64(<<"magic", "version", "txg", "guid_sum", "timestamp">>) \o Rec("ptr", 128)
                   \o U64(<<"software_version">>) \o Rec("mmp", 24)
                   \o U64(<<"checkpoint_txg", "raidz_reflow_info">>)
                   \o Zeros("rest", UberBlockSize - 256) \o Raw("tail", 40))
\* Nothing but the second word (and the tail, unless it is looked at too).
bytes_are_empty(d, exclude_checksum) ==
  d.bits \subseteq (64..127) \cup (IF exclude_checksum THEN (8 * (d.len - 40))..(8 * d.len) ELSE {})
UberBlock_decoded(order, d) ==
  Decoded(order, d, UberBlockGets,
    [ptr |-> BlockPointer_from_decoder(order, Slice(d, UberBlockGets.ptr)),
     mmp |-> UberBlockMmp_from_decoder(order, Slice(d, UberBlockGets.mmp))],
    LAMBDA r :
      <<Check("version", "SpaVersion", r.version \notin SpaVersions),
        Check("ptr", "BlockPointer", ~r.ptr.ok),
        Check("ptr", "EmptyBlockPointer", r.ptr.ok /\ r.ptr.val = None),
        Check("software_version", "SpaVersion",
              r.software_version # {} /\ r.software_version \notin SpaVersions),
        Check("mmp", "UberBlockMmp", ~r.mmp.ok)>>,
    LAMBDA r :
      [order |-> order, version |-> r.version, txg |-> r.txg, guid_sum |-> r.guid_sum,
       timestamp |-> r.timestamp, ptr |-> r.ptr, software_version |-> r.software_version,
       mmp |-> r.mmp, checkpoint_txg |-> r.checkpoint_txg,
       raidz_reflow_info |-> r.raidz_reflow_info])
\* sealed: label_verify accepts the tail.
UberBlock_from_bytes(d, sealed) ==
  IF ~sealed THEN IF bytes_are_empty(d, FALSE) THEN Ok(None) ELSE Err("LabelVerify")
  ELSE IF OrderOfMagic(d, UberBlockMagic) = "Neither"
  THEN IF bytes_are_empty(d, TRUE) THEN Ok(None) ELSE Err("Binary")
  ELSE UberBlock_decoded(OrderOfMagic(d, UberBlockMagic), d)
UberBlockPuts == Layout(U64(<<"magic", "version", "txg", "guid_sum", "timestamp">>) \o Rec("ptr", 128)
                   \o U64(<<"software_version">>) \o Rec("mmp", 24)
                   \o U64(<<"checkpoint_txg", "raidz_reflow_info">>)
                   \o Zeros("rest", UberBlockSize - 256) \o Raw("tail", 40))
\* label_checksum then writes the tail, here as the bits the caller gives.
UberBlock_to_bytes(v, tail) ==
  EncodedAround(v.order,
    [ptr |-> BlockPointer_to_encoder(v.order, v.ptr.val),
     mmp |-> UberBlockMmp_to_encoder(v.order, v.mmp.val)],
    LAMBDA n : <<Refusal("BlockPointer", ~n.ptr.ok), Refusal("UberBlockMmp", ~n.mmp.ok)>>,
    UberBlockPuts,
    [x \in DOMAIN UberBlockPuts \ {"ptr", "mmp", "rest"} |->
       CASE x = "magic" -> UberBlockMagic [] x = "tail" -> tail [] OTHER -> v[x]])
UberBlockDecodeError == {"Binary", "BlockPointer", "EmptyBlockPointer", "LabelVerify", "SpaVersion",
                         "UberBlockMmp"}
UberBlockEncodeError == {"Binary", "BlockPointer", "LabelChecksum", "UberBlockMmp"}
=============================================================================
