---------------------------- MODULE PhysDatasets ----------------------------
(***************************************************************************)
(* phys/dsl.rs, space_map.rs, zpl.rs, acl.rs: the bonus records of         *)
(* datasets, space maps and files.                                         *)
(***************************************************************************)
EXTENDS PhysObjects

\* A record without its padding.
Kept(lay, r) == [x \in {y \in DOMAIN lay : lay[y].kind # "zero"} |-> r[x]]

DirectoryHeadGets ==
  U64(<<"creation_time", "head_dataset_obj", "parent_directory_obj", "origin_dataset_obj",
        "child_directory_zap_obj", "used_bytes", "compressed_bytes", "uncompressed_bytes",
        "quota", "reserved", "properties_zap_obj", "delegation_zap_obj", "flags">>)
Breakdown == U64(<<"head", "snapshot", "child", "child_reserved", "referenced_reservation">>)
\* used_breakdown is there or zero, as bit 0 of the flags says.
DslDirectoryGets ==
  [on \in BOOLEAN |-> Layout(DirectoryHeadGets \o (IF on THEN Breakdown ELSE Zeros("none", 40))
                        \o U64(<<"clones">>) \o Zeros("pad", 104))]
DirectoryFlags == Layout(DirectoryHeadGets).flags
DslDirectory_decoded(order, d, lay) ==
  Decoded(order, d, lay, NoRecords,
    LAMBDA r :
      <<Check("child_directory_zap_obj", "MissingChildDirectory", r.child_directory_zap_obj = {}),
        Check("properties_zap_obj", "MissingProperties", r.properties_zap_obj = {}),
        Check("flags", "Flags", ~Fits(r.flags, 1))>>,
    LAMBDA r : Kept(lay, r))
DslDirectory_from_decoder(order, d) ==
  DslDirectory_decoded(order, d, DslDirectoryGets[0 \in get_field(order, d.bits, DirectoryFlags)])
DslDirectoryPuts ==
  [on \in BOOLEAN |-> Layout(
     U64(<<"creation_time", "head_dataset_obj", "parent_directory_obj", "origin_dataset_obj",
           "child_directory_zap_obj", "used_bytes", "compressed_bytes", "uncompressed_bytes",
           "quota", "reserved", "properties_zap_obj", "delegation_zap_obj", "flags">>)
       \o (IF on THEN Breakdown ELSE Zeros("none", 40)) \o Zeros("pad", 104))]
DslDirectory_to_encoder(order, v) ==
  Encoded(order,
    <<Refusal("MissingChildDirectory", v.child_directory_zap_obj = {}),
      Refusal("MissingProperties", v.properties_zap_obj = {})>>,
    DslDirectoryPuts["head" \in DOMAIN v], v)
DslDirectoryDecodeError == {"Binary", "Flags", "MissingChildDirectory", "MissingProperties"}
DslDirectoryEncodeError == {"Binary", "MissingChildDirectory", "MissingProperties"}
-----------------------------------------------------------------------------
DslDataSetGets ==
  Layout(U64(<<"dir_obj", "prev_snapshot_obj", "prev_snapshot_txg", "next_snapshot_obj",
               "snapshot_names_zap_obj", "num_children", "creation_time", "creation_txg",
               "deadlist_obj", "referenced_bytes", "compressed_bytes", "uncompressed_bytes",
               "unique_bytes", "fsid_guid", "guid", "flags">>)
    \o Rec("block_pointer", 128)
    \o U64(<<"next_clones_obj", "snapshot_props_obj", "user_refs_obj">>) \o Zeros("pad", 40))
DslDataSet_from_decoder(order, d) ==
  Decoded(order, d, DslDataSetGets,
    Nested(order, d, DslDataSetGets, {"block_pointer"}, BlockPointer_from_decoder),
    LAMBDA r :
      <<Check("dir_obj", "MissingDirectory", r.dir_obj = {}),
        Check("prev_snapshot_txg", "PreviousSnapshot",
              (r.prev_snapshot_obj = {}) # (r.prev_snapshot_txg = {})),
        Check("flags", "Flags", ~(r.flags \subseteq {0, 1, 2, 3, 16, 24})),
        Check("block_pointer", "BlockPointer", ~r.block_pointer.ok)>>,
    LAMBDA r : Kept(DslDataSetGets, r))
DslDataSetPuts ==
  Layout(U64(<<"dir_obj", "prev_snapshot_obj", "prev_snapshot_txg", "next_snapshot_obj",
               "snapshot_names_zap_obj", "num_children", "creation_time", "creation_txg",
               "deadlist_obj", "referenced_bytes", "compressed_bytes", "uncompressed_bytes",
               "unique_bytes", "fsid_guid", "guid", "flags">>)
    \o Rec("block_pointer", 128)
    \o U64(<<"next_clones_obj", "snapshot_props_obj", "user_refs_obj">>) \o Zeros("pad", 40))
DslDataSet_to_encoder(order, v) ==
  EncodedAround(order, [block_pointer |-> BlockPointer_to_encoder(order, v.block_pointer.val)],
    LAMBDA n :
      <<Refusal("MissingDirectory", v.dir_obj = {}),
        Refusal("PreviousSnapshot", (v.prev_snapshot_obj = {}) # (v.prev_snapshot_txg = {})),
        Refusal("BlockPointer", ~n.block_pointer.ok)>>,
    DslDataSetPuts, v)
DslDataSetDecodeError == {"Binary", "BlockPointer", "Flags", "MissingDirectory", "PreviousSnapshot"}
DslDataSetEncodeError == {"Binary", "BlockPointer", "MissingDirectory", "PreviousSnapshot"}
-----------------------------------------------------------------------------
\* Three words, and a histogram of 32 words (raw here) if there are bytes left.
SpaceMapHeaderGets ==
  [long \in BOOLEAN |-> Layout(U64(<<"obj", "length_bytes", "allocated_bytes">>)
                          \o (IF long THEN Zeros("pad", 40) \o Raw("histogram", 256) ELSE <<>>))]
SpaceMapHeader_decoded(order, d, lay) ==
  Decoded(order, d, lay, NoRecords,
    LAMBDA r : <<Check("obj", "MissingObject", r.obj = {})>>, LAMBDA r : Kept(lay, r))
SpaceMapHeader_from_decoder_IfWhole(order, d) ==
  SpaceMapHeader_decoded(order, d, SpaceMapHeaderGets[d.len >= 320])
SpaceMapHeader_from_decoder(order, d) ==
  SpaceMapHeader_decoded(order, d, SpaceMapHeaderGets[d.len > 24])
SpaceMapHeader_to_encoder(order, v) ==
  Encoded(order, <<Refusal("MissingObject", v.obj = {})>>,
          SpaceMapHeaderGets["histogram" \in DOMAIN v], v)
SpaceMapHeaderDecodeError == {"Binary", "MissingObject", "NonZeroPadding"}

SpaceMapActions == {{}, {0}}
SpaceMapEntryGets == [two \in BOOLEAN |-> Layout(U64(IF two THEN <<"a", "b">> ELSE <<"a">>))]
SpaceMapEntry_from_decoder(order, d) ==
  CASE ~(63 \in get_uint(order, d.bits, 0, 8)) ->
         Decoded(order, d, SpaceMapEntryGets[FALSE], NoRecords, LAMBDA r : <<>>,
           LAMBDA r : [type |-> "V1", action |-> Field(r.a, 15, 1), offset |-> Field(r.a, 16, 47),
                       run |-> Field(r.a, 0, 15)])
    [] Field(get_uint(order, d.bits, 0, 8), 62, 2) = {1} ->
         Decoded(order, d, SpaceMapEntryGets[FALSE], NoRecords,
           LAMBDA r :
             <<Check("a", "Action", r.a # {63} /\ Field(r.a, 60, 2) \notin SpaceMapActions)>>,
           LAMBDA r :
             IF r.a = {63} THEN [type |-> "Padding"]
             ELSE [type |-> "Debug", action |-> Field(r.a, 60, 2), sync_pass |-> Field(r.a, 50, 10),
                   txg |-> Field(r.a, 0, 50)])
    [] Field(get_uint(order, d.bits, 0, 8), 62, 2) = {0, 1} ->
         Decoded(order, d, SpaceMapEntryGets[TRUE], NoRecords,
           LAMBDA r : <<Check("b", "Padding", Field(r.a, 60, 2) # {})>>,
           LAMBDA r : [type |-> "V2", action |-> Field(r.b, 63, 1), offset |-> Field(r.b, 0, 63),
                       run |-> Field(r.a, 24, 36), vdev |-> Field(r.a, 0, 24)])
SpaceMapEntryDecodeError == {"Action", "Binary", "Padding"}
-----------------------------------------------------------------------------
AcePermissionMask == (0..8) \cup (16..20)
AceFlagMask == (0..7) \cup (12..14)
AceTypes == {BitsOf(k) : k \in 0..16}
BasicAceTypes == {BitsOf(k) : k \in 0..3}
ObjectAceTypes == {BitsOf(k) : k \in 5..8}

AceV0Gets == Layout(U32("id") \o U32("permissions") \o U16("flags") \o U16("ace_type"))
AceV0_from_decoder(order, d) ==
  Decoded(order, d, AceV0Gets, NoRecords,
    LAMBDA r :
      <<Check("ace_type", "AceType", r.ace_type \notin AceTypes),
        Check("ace_type", "Permissions", ~(r.permissions \subseteq AcePermissionMask)),
        Check("ace_type", "Flags", ~(r.flags \subseteq AceFlagMask)),
        Check("ace_type", "UnexpectedType", r.ace_type \notin BasicAceTypes)>>,
    LAMBDA r : r)
AceRefusals(v) ==
  <<Refusal("Permissions", ~(v.permissions \subseteq AcePermissionMask)),
    Refusal("Flags", ~(v.flags \subseteq AceFlagMask)),
    Refusal("UnexpectedType", v.ace_type \notin BasicAceTypes)>>
AceV0Puts == Layout(U32("id") \o U32("permissions") \o U16("flags") \o U16("ace_type"))
AceV0_to_encoder(order, v) == Encoded(order, AceRefusals(v), AceV0Puts, v)

AceNames == <<"ace1", "ace2", "ace3", "ace4", "ace5", "ace6">>
SixAces == {AceNames[i] : i \in 1..6}
AclV0Gets == Layout(U64(<<"object_id">>) \o U32("count") \o U16("version") \o Zeros("pad", 2)
               \o [i \in 1..6 |-> Rec(AceNames[i], 12)[1]])
AclV0_from_decoder(order, d) ==
  Decoded(order, d, AclV0Gets, Nested(order, d, AclV0Gets, SixAces, AceV0_from_decoder),
    LAMBDA r : <<Check("pad", "Version", r.version # {})>>
                 \o [i \in 1..6 |-> Check(AceNames[i], "Ace", ~r[AceNames[i]].ok)],
    LAMBDA r : [type |-> "V0", object_id |-> r.object_id, count |-> r.count,
                aces |-> [x \in SixAces |-> r[x]]])
AclV0_to_encoder(order, v) ==
  EncodedAround(order, [x \in SixAces |-> AceV0_to_encoder(order, v.aces[x].val)],
    LAMBDA n : <<Refusal("Ace", \E x \in SixAces : ~n[x].ok)>>, AclV0Gets,
    [object_id |-> v.object_id, count |-> v.count, version |-> {}])

AclV1Gets == Layout(U64(<<"object_id">>) \o U32("size") \o U16("version") \o U16("count")
               \o Raw("aces", 72))
AclV1_from_decoder(order, d) ==
  Decoded(order, d, AclV1Gets, NoRecords,
    LAMBDA r : <<Check("count", "Version", r.version # {0})>>,
    LAMBDA r : [type |-> "V1", object_id |-> r.object_id, size |-> r.size, count |-> r.count,
                aces |-> r.aces])
AclV1_to_encoder(order, v) ==
  Encoded(order, <<Refusal("Binary", put_bytes_refused)>>, AclV1Gets,
    [object_id |-> v.object_id, size |-> v.size, version |-> {0}, count |-> v.count, aces |-> v.aces])

\* The version decides; both kinds have it at byte 12.
AclOfVersion(order, d, version) ==
  CASE version = {} -> AclV0_from_decoder(order, d)
    [] version = {0} -> AclV1_from_decoder(order, d)
    [] OTHER -> Err("Version")
Acl_from_decoder(order, d) ==
  IF d.len < 14 THEN Err("Binary") ELSE AclOfVersion(order, d, get_uint(order, d.bits, 12, 2))
Acl_to_encoder(order, v) ==
  IF v.type = "V0" THEN AclV0_to_encoder(order, v) ELSE AclV1_to_encoder(order, v)
AceDecodeError == {"AceType", "Binary", "Flags", "Permissions", "UnexpectedType"}
AceEncodeError == {"Binary", "Flags", "Permissions", "UnexpectedType"}
AclDecodeError == {"Ace", "Binary", "Version"}
AclEncodeError == {"Ace", "Binary"}
-----------------------------------------------------------------------------
\* AceV1Iterator::next: a header, and what its type and flags say follows.
AceV1Gets(follows) ==
  Layout(U16("ace_type") \o U16("flags") \o U32("permissions")
    \o (CASE follows = "Simple" -> <<>>
          [] follows = "Id" -> U64(<<"id">>)
          [] follows = "Object" -> Raw("object_guid", 16) \o Raw("inherit_guid", 16)))
AceV1Kinds == [k \in {"Simple", "Id", "Object"} |-> AceV1Gets(k)]
AceV1Kind(ace_type, flags) ==
  CASE ace_type \in ObjectAceTypes -> "Object"
    [] ace_type \in {BitsOf(0), BitsOf(1)}
         /\ (flags \cap {6, 12, 13, 14}) \in {{12}, {6, 13}, {14}} -> "Simple"
    [] OTHER -> "Id"
AceV1_decoded(order, d, lay) ==
  Decoded(order, d, lay, NoRecords,
    LAMBDA r :
      <<Check("ace_type", "AceType", r.ace_type \notin AceTypes),
        Check("permissions", "Permissions", ~(r.permissions \subseteq AcePermissionMask)),
        Check("permissions", "Flags", ~(r.flags \subseteq AceFlagMask))>>,
    LAMBDA r : r)
AceV1_next(order, d) ==
  AceV1_decoded(order, d,
    AceV1Kinds[AceV1Kind(get_uint(order, d.bits, 0, 2), get_uint(order, d.bits, 2, 2))])
-----------------------------------------------------------------------------
ZnodeFileTypes == {BitsOf(k) : k \in {1, 2, 4, 6, 8, 10, 12, 13, 14}}
ZnodeGets ==
  Layout(U64(<<"access_time", "access_nanos", "modified_time", "modified_nanos", "change_time",
               "change_nanos", "creation_time", "creation_nanos", "creation_txg", "mode", "size",
               "parent_object_id", "num_links", "xattr_object_id", "device_number", "flags",
               "user_id", "group_id", "extra_attributes">>)
    \o Zeros("pad", 24) \o Rec("acl", 88))
Znode_from_decoder(order, d) ==
  Decoded(order, d, ZnodeGets, Nested(order, d, ZnodeGets, {"acl"}, Acl_from_decoder),
    LAMBDA r :
      <<Check("mode", "Mode", ~Fits(r.mode, 16)),
        Check("mode", "FileType", Field(r.mode, 12, 4) \notin ZnodeFileTypes),
        Check("parent_object_id", "MissingParentObjectId", r.parent_object_id = {}),
        Check("acl", "Acl", ~r.acl.ok)>>,
    LAMBDA r :
      [x \in (DOMAIN r \ {"mode", "pad"}) \cup {"permission_bits", "file_type"} |->
         CASE x = "permission_bits" -> Field(r.mode, 0, 12)
           [] x = "file_type" -> Field(r.mode, 12, 4)
           [] OTHER -> r[x]])
ZnodePuts ==
  Layout(U64(<<"access_time", "access_nanos", "modified_time", "modified_nanos", "change_time",
               "change_nanos", "creation_time", "creation_nanos", "creation_txg", "mode", "size",
               "parent_object_id", "num_links", "xattr_object_id", "device_number", "flags",
               "user_id", "group_id", "extra_attributes">>)
    \o Zeros("pad", 24) \o Rec("acl", 88))
Znode_to_encoder(order, v) ==
  EncodedAround(order, [acl |-> Acl_to_encoder(order, v.acl.val)],
    LAMBDA n :
      <<Refusal("Permissions", ~Fits(v.permission_bits, 12)),
        Refusal("MissingParentObjectId", v.parent_object_id = {}), Refusal("Acl", ~n.acl.ok)>>,
    ZnodePuts,
    [x \in DOMAIN ZnodePuts \ {"acl", "pad"} |->
       IF x = "mode" THEN At(v.file_type, 12) \cup v.permission_bits ELSE v[x]])
ZnodeDecodeError == {"Acl", "Binary", "FileType", "MissingParentObjectId", "Mode"}
ZnodeEncodeError == {"Acl", "Binary", "MissingParentObjectId", "Permissions"}
=============================================================================
