---------------------------- MODULE RecordCodec -----------------------------
(***************************************************************************)
(* One on-disk record of phys/ read by its from_decoder, its value written *)
(* by its to_encoder, and the bytes written read again.  The record is one *)
(* that ZFS wrote, whole or damaged, or a value a program built.           *)
(***************************************************************************)
EXTENDS PhysZap

CONSTANTS OnDisk,  \* [kind, order, data, whole, sealed]: records, as read and as written
          Built    \* [kind, order, value]: values of a program, maybe out of range

VARIABLES item,    \* the member of OnDisk or Built
          read,    \* what from_decoder returned, or the value built
          bytes,   \* what to_encoder returned
          back,    \* what from_decoder made of those bytes
          codecPc

codecVars == <<item, read, bytes, back, codecPc>>

Decode(kind, order, d, sealed) ==
  CASE kind = "Dva" -> Dva_from_decoder(order, d)
    [] kind = "BlockPointer" -> BlockPointer_from_decoder(order, d)
    [] kind = "ChecksumTail" -> ChecksumTail_from_bytes(d)
    [] kind = "BpObjectHeader" -> BpObjectHeader_from_decoder(order, d)
    [] kind = "ZilHeader" -> ZilHeader_from_decoder(order, d)
    [] kind = "Dnode" -> Dnode_from_decoder(order, d)
    [] kind = "ObjectSet" -> ObjectSet_from_decoder(order, d)
    [] kind = "UberBlockMmp" -> UberBlockMmp_from_decoder(order, d)
    [] kind = "UberBlock" -> UberBlock_from_bytes(d, sealed)
    [] kind = "DslDirectory" -> DslDirectory_from_decoder(order, d)
    [] kind = "DslDataSet" -> DslDataSet_from_decoder(order, d)
    [] kind = "SpaceMapHeader" -> SpaceMapHeader_from_decoder(order, d)
    [] kind = "SpaceMapEntry" -> SpaceMapEntry_from_decoder(order, d)
    [] kind = "AceV0" -> AceV0_from_decoder(order, d)
    [] kind = "AceV1" -> AceV1_next(order, d)
    [] kind = "Acl" -> Acl_from_decoder(order, d)
    [] kind = "Znode" -> Znode_from_decoder(order, d)
    [] kind = "ZapMicroEntry" -> ZapMicroEntry_from_decoder(order, d)
    [] kind = "ZapMicroEntryRef" -> ZapMicroEntryRef_from_decoder(order, d)
    [] kind = "ZapHeader" -> ZapHeader_from_decoder(order, d)
    [] kind = "ZapLeafHeader" -> ZapLeafHeader_from_decoder(order, d)
    [] kind = "ZapLeafChunk" -> ZapLeafChunk_from_decoder(order, d)

\* Space map entries have no encoder, entries of an AclV1 one for the header only.
NoEncoder == {"SpaceMapEntry", "AceV1"}
Encode(kind, order, v) ==
  CASE kind = "Dva" -> Dva_to_encoder(order, v)
    [] kind = "BlockPointer" -> BlockPointer_to_encoder(order, v)
    [] kind = "ChecksumTail" -> ChecksumTail_to_bytes(v)
    [] kind = "BpObjectHeader" -> BpObjectHeader_to_encoder(order, v)
    [] kind = "ZilHeader" -> ZilHeader_to_encoder(order, v)
    [] kind = "Dnode" -> Dnode_to_encoder(order, v)
    [] kind = "ObjectSet" -> ObjectSet_to_encoder(order, v)
    [] kind = "UberBlockMmp" -> UberBlockMmp_to_encoder(order, v)
    [] kind = "UberBlock" -> UberBlock_to_bytes(v, {})
    [] kind = "DslDirectory" -> DslDirectory_to_encoder(order, v)
    [] kind = "DslDataSet" -> DslDataSet_to_encoder(order, v)
    [] kind = "SpaceMapHeader" -> SpaceMapHeader_to_encoder(order, v)
    [] kind = "AceV0" -> AceV0_to_encoder(order, v)
    [] kind = "Acl" -> Acl_to_encoder(order, v)
    [] kind = "Znode" -> Znode_to_encoder(order, v)
    [] kind = "ZapMicroEntry" -> ZapMicroEntry_to_encoder(order, v)
    [] kind = "ZapMicroEntryRef" -> ZapMicroEntryRef_to_encoder(order, v)
    [] kind = "ZapHeader" -> ZapHeader_to_encoder(order, v)
    [] kind = "ZapLeafHeader" -> ZapLeafHeader_to_encoder(order, v)
    [] kind = "ZapLeafChunk" -> ZapLeafChunk_to_encoder(order, v)

Nothing == Err("not yet")
CodecInit ==
  /\ \/ \E r \in OnDisk : item = r /\ read = Nothing /\ codecPc = "disk"
     \/ \E r \in Built : item = r /\ read = Ok(r.value) /\ codecPc = "value"
  /\ bytes = Nothing /\ back = Nothing

from_decoder ==
  /\ codecPc = "disk"
  /\ read' = Decode(item.kind, item.order, item.data, item.sealed)
  /\ codecPc' = IF read'.ok /\ item.kind \notin NoEncoder /\ read'.val # None
                THEN "value" ELSE "done"
  /\ UNCHANGED <<item, bytes, back>>

to_encoder ==
  /\ codecPc = "value"
  /\ bytes' = Encode(item.kind, item.order, read.val)
  /\ codecPc' = IF bytes'.ok THEN "bytes" ELSE "done"
  /\ UNCHANGED <<item, read, back>>

\* What was written is sealed by label_checksum where the record has a tail.
read_again ==
  /\ codecPc = "bytes"
  /\ back' = Decode(item.kind, item.order, bytes.val, TRUE)
  /\ codecPc' = "done"
  /\ UNCHANGED <<item, read, bytes>>

CodecNext == from_decoder \/ to_encoder \/ read_again
-----------------------------------------------------------------------------
DecodeErrors(kind) ==
  CASE kind = "Dva" -> DvaDecodeError
    [] kind = "BlockPointer" -> BlockPointerDecodeError
    [] kind = "BpObjectHeader" -> BpObjectHeaderDecodeError
    [] kind = "ZilHeader" -> ZilHeaderDecodeError
    [] kind = "Dnode" -> DnodeDecodeError
    [] kind = "ObjectSet" -> ObjectSetDecodeError
    [] kind = "UberBlockMmp" -> UberBlockMmpDecodeError
    [] kind = "UberBlock" -> UberBlockDecodeError
    [] kind = "DslDirectory" -> DslDirectoryDecodeError
    [] kind = "DslDataSet" -> DslDataSetDecodeError
    [] kind = "SpaceMapHeader" -> SpaceMapHeaderDecodeError
    [] kind = "SpaceMapEntry" -> SpaceMapEntryDecodeError
    [] kind \in {"AceV0", "AceV1"} -> AceDecodeError
    [] kind = "Acl" -> AclDecodeError
    [] kind = "Znode" -> ZnodeDecodeError
    [] kind \in {"ZapMicroEntry", "ZapMicroEntryRef"} -> ZapMicroEntryDecodeError
    [] kind = "ZapHeader" -> ZapHeaderDecodeError
    [] kind = "ZapLeafHeader" -> ZapLeafHeaderDecodeError
    [] kind = "ZapLeafChunk" -> ZapLeafChunkDecodeError
    [] OTHER -> {"Binary"}
EncodeErrors(kind) ==
  CASE kind = "Dva" -> DvaEncodeError
    [] kind = "BlockPointer" -> BlockPointerEncodeError
    [] kind = "ZilHeader" -> ZilHeaderEncodeError
    [] kind = "Dnode" -> DnodeEncodeError
    [] kind = "ObjectSet" -> ObjectSetEncodeError
    [] kind = "UberBlockMmp" -> UberBlockMmpEncodeError
    [] kind = "UberBlock" -> UberBlockEncodeError
    [] kind = "DslDirectory" -> DslDirectoryEncodeError
    [] kind = "DslDataSet" -> DslDataSetEncodeError
    [] kind = "SpaceMapHeader" -> {"Binary", "MissingObject"}
    [] kind = "AceV0" -> AceEncodeError
    [] kind = "Acl" -> AclEncodeError
    [] kind = "Znode" -> ZnodeEncodeError
    [] kind \in {"ZapMicroEntry", "ZapMicroEntryRef"} -> ZapMicroEntryEncodeError
    [] OTHER -> {"Binary"}

FromDisk == "data" \in DOMAIN item
Differs == (item.data.bits \ item.whole.bits) \cup (item.whole.bits \ item.data.bits)
Torn == item.data.len < item.whole.len

\* phys/*.rs from_decoder, to_encoder: whatever could be written is read back
\* as the same value, in either byte order, wherever its fields are nested.
\* A DSL directory is not: its encoder leaves out clones (dsl.rs:237), so what
\* it writes is eight bytes short and refused.
ReadsWhatItWrote ==
  codecPc = "done" /\ back # Nothing =>
    back = IF item.kind = "DslDirectory" THEN Err("Binary") ELSE read

\* Bits of a record that no field of the value holds: the two top bits of the
\* compression field of a block pointer, the data of a free chunk, the name
\* of an entry after its terminator, the checksum of an uberblock.
UnreadBits ==
  LET at == [BlockPointer |-> {48}, ZilHeader |-> {64}, UberBlock |-> {88}, DslDataSet |-> {176}]
      spare == UNION {{Place(item.order, i, 8, 37), Place(item.order, i, 8, 38)} :
                        i \in IF item.kind \in DOMAIN at THEN at[item.kind] ELSE {}}
      free == IF item.kind = "ZapLeafChunk" /\ ByteAt(item.whole.bits, 0) = ChunkType.Free
              THEN 8..(8 * 22 - 1) ELSE {}
      tail == IF item.kind = "UberBlock" THEN (8 * 984)..(8 * 1024 - 1) ELSE {}
      name == CASE item.kind = "ZapMicroEntryRef" -> (8 * 19)..(8 * 64 - 1)
                [] item.kind = "ZapMicroEntry" -> (8 * 63)..(8 * 64 - 1)
                [] OTHER -> {}
  IN spare \cup free \cup tail \cup name

\* phys/*.rs from_decoder: no bit of a record is overlooked.  A record that
\* differs from the one written, in a bit that a field holds, is refused with
\* an error of its own decode error type or read as another value; padding,
\* reserved bits and magic numbers included.
DamageShows ==
  codecPc # "disk" /\ FromDisk =>
    /\ ~(Differs \subseteq UnreadBits) => read # Decode(item.kind, item.order, item.whole, TRUE)
    /\ ~read.ok => read.err \in DecodeErrors(item.kind)

\* Records that grow with the features of the pool, and the lengths they have.
Extensible == [BpObjectHeader |-> {16, 32, 48, 56}, ObjectSet |-> {1024, 2048, 4096},
               SpaceMapHeader |-> {24, 320}]

\* phys/*.rs from_decoder: a record that is cut short is refused, except
\* where the shorter record is a whole one of an older form.
TornRefused ==
  codecPc # "disk" /\ FromDisk /\ Torn /\ read.ok
    => item.kind \in DOMAIN Extensible /\ item.data.len \in Extensible[item.kind]

\* The encoders that end in put_bytes, which neither byte order supports.
Unsupported == {"Dnode", "ObjectSet", "ZapMicroEntry", "ZapMicroEntryRef"}
HasRawBytes(kind, v) ==
  \/ kind \in Unsupported
  \/ kind = "BlockPointer" /\ v.type = "Embedded"
  \/ kind = "Acl" /\ v.type = "V1"
  \/ kind = "ZapLeafChunk" /\ v.chunk_type = ChunkType.Array
Holders == [ZilHeader |-> "log", UberBlock |-> "ptr", DslDataSet |-> "block_pointer"]
NoSpace(o) == o.val # None /\ o.val.allocated = {}
Unallocated(kind, v) ==
  CASE kind = "Dva" -> v.allocated = {}
    [] kind = "BlockPointer" -> v.type # "Embedded" /\ \E i \in DOMAIN v.dvas : NoSpace(v.dvas[i])
    [] OTHER -> FALSE
Unwritten(kind, v) == HasRawBytes(kind, v) \/ Unallocated(kind, v)

\* phys/*.rs to_encoder: a value that was read can be written, but for the
\* records with raw bytes, of which none can, and a DVA of no sectors, which
\* dva.rs reads and refuses to write; a value that is refused, read or built,
\* is refused with an error of its own encode error type.
RefusedWrites ==
  codecPc = "done" /\ read.ok /\ read.val # None /\ bytes # Nothing /\ ~bytes.ok =>
    /\ bytes.err \in EncodeErrors(item.kind)
    /\ FromDisk =>
         \/ Unwritten(item.kind, read.val)
         \/ item.kind \in DOMAIN Holders /\ Unwritten("BlockPointer", read.val[Holders[item.kind]].val)
         \/ item.kind = "Znode" /\ Unwritten("Acl", read.val.acl.val)
=============================================================================
