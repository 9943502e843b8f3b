---------------------------- MODULE PhysPointers ----------------------------
(***************************************************************************)
(* phys/dva.rs, checksum.rs, block_pointer.rs, zil.rs: block pointers and  *)
(* the records around them, decoded from and encoded to on-disk bytes.     *)
(* A number is a set of bits (module Wire), an absent object number is 0.  *)
(***************************************************************************)
EXTENDS Wire

\* BinaryEncoder::put_bytes of both byte orders: "NotSupported", always.
put_bytes_refused == TRUE

CompressionTypes == {BitsOf(k) : k \in 0..16}
ChecksumTypes == {BitsOf(k) : k \in 0..14}
EmbeddedTypes == {BitsOf(k) : k \in 0..2}
DmuTypes == {BitsOf(k) : k \in (0..53) \cup (128..132) \cup (160..164) \cup (192..196) \cup (224..228)}
-----------------------------------------------------------------------------
DvaDecodeError == {"Binary", "InvalidOffset", "NonZeroGrid", "NonZeroPadding"}
DvaEncodeError == {"Binary", "InvalidAllocated", "InvalidOffset", "InvalidVdev"}
DvaGets == Layout(U64(<<"a", "b">>))
DvaValue(r) ==
  IF r.a = {} /\ r.b = {} THEN None
  ELSE [vdev |-> Field(r.a, 32, 24), allocated |-> Field(r.a, 0, 24),
        offset |-> Field(r.b, 0, 63), is_gang |-> 63 \in r.b]
Dva_from_decoder_AnyPadding(order, d) ==
  Decoded(order, d, DvaGets, NoRecords,
    LAMBDA r : <<Check("b", "NonZeroGrid", Field(r.a, 24, 8) # {})>>, DvaValue)
Dva_from_decoder(order, d) ==
  Decoded(order, d, DvaGets, NoRecords,
    LAMBDA r : <<Check("b", "NonZeroGrid", Field(r.a, 24, 8) # {}),
                 Check("b", "NonZeroPadding", Field(r.a, 56, 8) # {})>>, DvaValue)

DvaPuts == Layout(U64(<<"a", "b">>))
Dva_to_encoder(order, v) ==
  IF v = None THEN Ok(Data({}, 16))
  ELSE Encoded(order,
         <<Refusal("InvalidVdev", ~Fits(v.vdev, 24)),
           Refusal("InvalidAllocated", ~Fits(v.allocated, 24) \/ v.allocated = {}),
           Refusal("InvalidOffset", ~Fits(v.offset, 63))>>,
         DvaPuts, [a |-> At(v.vdev, 32) \cup v.allocated, b |-> Flag(v.is_gang, 63) \cup v.offset])
-----------------------------------------------------------------------------
\* Bits of the flags word that all three kinds of block pointer share.
EmbeddedBit == 39
EncryptedBit == 61
IsEmbedded(flags) == EmbeddedBit \in flags
IsEncrypted(flags) == EncryptedBit \in flags
Dedup(flags) == 62 \in flags
Endian(flags) == IF 63 \in flags THEN "Little" ELSE "Big"
Level(flags) == Field(flags, 56, 5)
Dmu(flags) == Field(flags, 48, 8)
\* Also the embedded type.
ChecksumBits(flags) == Field(flags, 40, 8)
Compression(flags) == Field(flags, 32, 5)
FlagsWord(v, checksum) ==
  At(v.compression, 32) \cup At(checksum, 40) \cup At(v.dmu, 48) \cup At(v.level, 56)
    \cup Flag(v.order = "Little", 63)

BlockPointerDecodeError ==
  {"BlockPointerEmbeddedType", "ChecksumType", "ChecksumValue", "CompressionType", "DmuType",
   "Dva", "Binary", "InvalidBlockPointerType", "InvalidDedupValue", "InvalidEmbeddedLength",
   "LogicalSizeTooLarge"}
BlockPointerEncodeError ==
  {"ChecksumValue", "Dva", "Endian", "InvalidEmbeddedLength", "InvalidLevel",
   "InvalidLogicalSectors", "InvalidLogicalSize", "InvalidPhysicalSectors"}
-----------------------------------------------------------------------------
\* A payload of 112 bytes around two words of numbers.
EmbeddedGets == Layout(Raw("p1", 48) \o U64(<<"flags">>) \o Raw("p2", 24)
                  \o U64(<<"logical_birth_txg">>) \o Raw("p3", 40))
Embedded_from_decoder(order, d) ==
  Decoded(order, d, EmbeddedGets, NoRecords,
    LAMBDA r :
      <<Check("p3", "InvalidBlockPointerType", ~IsEmbedded(r.flags) \/ IsEncrypted(r.flags)),
        Check("p3", "InvalidDedupValue", Dedup(r.flags)),
        Check("p3", "DmuType", Dmu(r.flags) \notin DmuTypes),
        Check("p3", "BlockPointerEmbeddedType", ChecksumBits(r.flags) \notin EmbeddedTypes),
        Check("p3", "CompressionType", Compression(r.flags) \notin CompressionTypes),
        Check("p3", "InvalidEmbeddedLength", ValueOf(PlusOne(Field(r.flags, 25, 7))) > 112)>>,
    LAMBDA r :
      [type |-> "Embedded", order |-> Endian(r.flags), level |-> Level(r.flags),
       dmu |-> Dmu(r.flags), embedded_type |-> ChecksumBits(r.flags),
       compression |-> Compression(r.flags), logical_birth_txg |-> r.logical_birth_txg,
       logical_size |-> PlusOne(Field(r.flags, 0, 25)),
       physical_size |-> PlusOne(Field(r.flags, 25, 7)), payload |-> <<r.p1, r.p2, r.p3>>])

EmbeddedPuts == Layout(Raw("p1", 48) \o U64(<<"flags">>) \o Raw("p2", 24)
                  \o U64(<<"logical_birth_txg">>) \o Raw("p3", 40))
\* The sizes are written as they are, without the 1 the decoder adds.
Embedded_to_encoder(order, v) ==
  Encoded(order,
    <<Refusal("InvalidEmbeddedLength", ValueOf(v.physical_size) > 112),
      Refusal("Endian", put_bytes_refused),
      Refusal("InvalidLevel", ~Fits(v.level, 5)),
      Refusal("InvalidLogicalSize", ~Fits(v.logical_size, 25))>>,
    EmbeddedPuts,
    [p1 |-> v.payload[1], p2 |-> v.payload[2], p3 |-> v.payload[3],
     logical_birth_txg |-> v.logical_birth_txg,
     flags |-> v.logical_size \cup At(v.physical_size, 25) \cup {EmbeddedBit}
                 \cup FlagsWord(v, v.embedded_type)])
-----------------------------------------------------------------------------
EncryptedGets == Layout(Rec("dva1", 16) \o Rec("dva2", 16) \o U64(<<"salt", "iv_1", "flags">>)
                   \o Zeros("pad", 16) \o U64(<<"physical_birth_txg", "logical_birth_txg", "iv_fill",
                                               "c1", "c2", "m1", "m2">>))
Encrypted_from_decoder(order, d) ==
  Decoded(order, d, EncryptedGets, Nested(order, d, EncryptedGets, {"dva1", "dva2"}, Dva_from_decoder),
    LAMBDA r :
      <<Check("dva1", "Dva", ~r.dva1.ok), Check("dva2", "Dva", ~r.dva2.ok),
        Check("flags", "InvalidBlockPointerType", IsEmbedded(r.flags) \/ ~IsEncrypted(r.flags)),
        Check("flags", "DmuType", Dmu(r.flags) \notin DmuTypes),
        Check("flags", "ChecksumType", ChecksumBits(r.flags) \notin ChecksumTypes),
        Check("flags", "CompressionType", Compression(r.flags) \notin CompressionTypes)>>,
    LAMBDA r :
      [type |-> "Encrypted", dvas |-> <<r.dva1, r.dva2>>, salt |-> r.salt, iv_1 |-> r.iv_1,
       dedup |-> Dedup(r.flags), order |-> Endian(r.flags), level |-> Level(r.flags),
       dmu |-> Dmu(r.flags), checksum_type |-> ChecksumBits(r.flags),
       compression |-> Compression(r.flags),
       logical_sectors |-> PlusOne(Field(r.flags, 0, 16)),
       physical_sectors |-> PlusOne(Field(r.flags, 16, 16)),
       physical_birth_txg |-> r.physical_birth_txg, logical_birth_txg |-> r.logical_birth_txg,
       iv_2 |-> Field(r.iv_fill, 32, 32), fill_count |-> Field(r.iv_fill, 0, 32),
       checksum_value |-> <<r.c1, r.c2>>, mac |-> <<r.m1, r.m2>>])

SectorsWord_NoBias(v) ==
  At(MinusOne(v.logical_sectors), 0) \cup At(v.physical_sectors, 16)
    \cup Flag(v.dedup, 62) \cup FlagsWord(v, v.checksum_type)
SectorsWord(v) ==
  At(MinusOne(v.logical_sectors), 0) \cup At(MinusOne(v.physical_sectors), 16)
    \cup Flag(v.dedup, 62) \cup FlagsWord(v, v.checksum_type)
\* At least 1 and at most 2^16.
SectorsFit(v) == v # {} /\ (Fits(v, 16) \/ v = {16})

EncryptedPuts == Layout(Rec("dva1", 16) \o Rec("dva2", 16) \o U64(<<"salt", "iv_1", "flags">>)
                   \o Zeros("pad", 16) \o U64(<<"physical_birth_txg", "logical_birth_txg", "iv_fill",
                                               "c1", "c2", "m1", "m2">>))
SectorRefusals(v) ==
  <<Refusal("InvalidLogicalSectors", ~SectorsFit(v.logical_sectors)),
    Refusal("InvalidPhysicalSectors", ~SectorsFit(v.physical_sectors)),
    Refusal("InvalidLevel", ~Fits(v.level, 5))>>
DvaRefusal(n) == <<Refusal("Dva", \E x \in DOMAIN n \ {"checksum_value"} : ~n[x].ok)>>
Encrypted_to_encoder(order, v) ==
  EncodedAround(order,
    [dva1 |-> Dva_to_encoder(order, v.dvas[1].val), dva2 |-> Dva_to_encoder(order, v.dvas[2].val)],
    LAMBDA n : DvaRefusal(n) \o SectorRefusals(v), EncryptedPuts,
    [salt |-> v.salt, iv_1 |-> v.iv_1, flags |-> SectorsWord(v) \cup {EncryptedBit},
     physical_birth_txg |-> v.physical_birth_txg, logical_birth_txg |-> v.logical_birth_txg,
     iv_fill |-> v.fill_count \cup At(v.iv_2, 32), c1 |-> v.checksum_value[1],
     c2 |-> v.checksum_value[2], m1 |-> v.mac[1], m2 |-> v.mac[2]])
-----------------------------------------------------------------------------
ChecksumValueGets == Layout(U64(<<"w1", "w2", "w3", "w4">>))
ChecksumValue_from_decoder(order, d) ==
  Decoded(order, d, ChecksumValueGets, NoRecords, LAMBDA r : <<>>,
    LAMBDA r : [words |-> <<r.w1, r.w2, r.w3, r.w4>>])
ChecksumValuePuts == Layout(U64(<<"w1", "w2", "w3", "w4">>))
ChecksumValue_to_encoder(order, v) ==
  Encoded(order, <<>>, ChecksumValuePuts,
    [w1 |-> v.words[1], w2 |-> v.words[2], w3 |-> v.words[3], w4 |-> v.words[4]])

RegularGets == Layout(Rec("dva1", 16) \o Rec("dva2", 16) \o Rec("dva3", 16) \o U64(<<"flags">>)
                 \o Zeros("pad", 16) \o U64(<<"physical_birth_txg", "logical_birth_txg", "fill_count">>)
                 \o Rec("checksum_value", 32))
Regular_from_decoder(order, d) ==
  Decoded(order, d, RegularGets,
    [x \in {"dva1", "dva2", "dva3", "checksum_value"} |->
       IF x = "checksum_value" THEN ChecksumValue_from_decoder(order, Slice(d, RegularGets[x]))
       ELSE Dva_from_decoder(order, Slice(d, RegularGets[x]))],
    LAMBDA r :
      <<Check("dva1", "Dva", ~r.dva1.ok), Check("dva2", "Dva", ~r.dva2.ok),
        Check("dva3", "Dva", ~r.dva3.ok),
        Check("flags", "InvalidBlockPointerType", IsEmbedded(r.flags) \/ IsEncrypted(r.flags)),
        Check("flags", "DmuType", Dmu(r.flags) \notin DmuTypes),
        Check("flags", "ChecksumType", ChecksumBits(r.flags) \notin ChecksumTypes),
        Check("flags", "CompressionType", Compression(r.flags) \notin CompressionTypes),
        Check("checksum_value", "ChecksumValue", ~r.checksum_value.ok)>>,
    LAMBDA r :
      [type |-> "Regular", dvas |-> <<r.dva1, r.dva2, r.dva3>>,
       dedup |-> Dedup(r.flags), order |-> Endian(r.flags), level |-> Level(r.flags),
       dmu |-> Dmu(r.flags), checksum_type |-> ChecksumBits(r.flags),
       compression |-> Compression(r.flags),
       logical_sectors |-> PlusOne(Field(r.flags, 0, 16)),
       physical_sectors |-> PlusOne(Field(r.flags, 16, 16)),
       physical_birth_txg |-> r.physical_birth_txg, logical_birth_txg |-> r.logical_birth_txg,
       fill_count |-> r.fill_count, checksum_value |-> r.checksum_value])

RegularPuts == Layout(Rec("dva1", 16) \o Rec("dva2", 16) \o Rec("dva3", 16) \o U64(<<"flags">>)
                 \o Zeros("pad", 16) \o U64(<<"physical_birth_txg", "logical_birth_txg", "fill_count">>)
                 \o Rec("checksum_value", 32))
Regular_to_encoder(order, v) ==
  EncodedAround(order,
    [dva1 |-> Dva_to_encoder(order, v.dvas[1].val), dva2 |-> Dva_to_encoder(order, v.dvas[2].val),
     dva3 |-> Dva_to_encoder(order, v.dvas[3].val),
     checksum_value |-> ChecksumValue_to_encoder(order, v.checksum_value.val)],
    LAMBDA n : DvaRefusal(n) \o SectorRefusals(v), RegularPuts,
    [flags |-> SectorsWord(v), physical_birth_txg |-> v.physical_birth_txg,
     logical_birth_txg |-> v.logical_birth_txg, fill_count |-> v.fill_count])
-----------------------------------------------------------------------------
BlockPointerKind(order, d, flags) ==
  IF IsEmbedded(flags) /\ IsEncrypted(flags) THEN Err("InvalidBlockPointerType")
  ELSE IF IsEmbedded(flags) THEN Embedded_from_decoder(order, d)
  ELSE IF IsEncrypted(flags) THEN Encrypted_from_decoder(order, d)
  ELSE Regular_from_decoder(order, d)
BlockPointer_from_decoder(order, d) ==
  IF d.len < 128 THEN Err("Binary")
  ELSE IF d.bits = {} THEN Ok(None)
  ELSE BlockPointerKind(order, d, get_uint(order, d.bits, 48, 8))

BlockPointer_to_encoder(order, v) ==
  IF v = None THEN Ok(Data({}, 128))
  ELSE CASE v.type = "Embedded" -> Embedded_to_encoder(order, v)
         [] v.type = "Encrypted" -> Encrypted_to_encoder(order, v)
         [] v.type = "Regular" -> Regular_to_encoder(order, v)
-----------------------------------------------------------------------------
ChecksumTailMagic == {57, 52, 47, 46, 44, 43, 41, 38, 37, 36, 35, 33, 31, 29, 28, 24, 19, 18,
                      14, 13, 12, 11, 9, 4, 0}
ChecksumTailGets == Layout(U64(<<"magic">>) \o Rec("value", 32))
\* The order is the one in which the first word is the magic number.
OrderOfMagic(d, magic) ==
  IF get_uint("Little", d.bits, 0, 8) = magic THEN "Little"
  ELSE IF get_uint("Big", d.bits, 0, 8) = magic THEN "Big" ELSE "Neither"
ChecksumTail_decoded(order, d) ==
  IF order = "Neither" THEN Err("Binary")
  ELSE Decoded(order, d, ChecksumTailGets,
         Nested(order, d, ChecksumTailGets, {"value"}, ChecksumValue_from_decoder),
         LAMBDA r : <<>>, LAMBDA r : [order |-> order, value |-> r.value])
ChecksumTail_from_bytes(d) == ChecksumTail_decoded(OrderOfMagic(d, ChecksumTailMagic), d)
ChecksumTail_to_bytes(v) ==
  Encoded(v.order, <<>>, ChecksumTailGets,
    [magic |-> ChecksumTailMagic, value |-> ChecksumValue_to_encoder(v.order, v.value.val).val.bits])
=============================================================================
