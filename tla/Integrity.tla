----------------------------- MODULE Integrity ------------------------------
(***************************************************************************)
(* What happens to the physical bytes of one block once a device returned  *)
(* them: cksum.rs (verify_block) and compress.rs (decompress).             *)
(*                                                                         *)
(* A block is a sequence of 512-byte units.  A pointer stores the checksum *)
(* of the bytes that were written, `orig`; checksums are taken to be free  *)
(* of collisions, so bytes verify exactly when they equal orig.            *)
(***************************************************************************)
EXTENDS Naturals, Sequences, Outcome

CONSTANTS Features,         \* Cargo features of the build
          MAX_BLOCK_LSIZE   \* 16 MiB, in units

ScalarChecksums == {"Fletcher2", "Fletcher4", "Sha256", "Label"}

checksum_name(kind) ==
  CASE kind = "Fletcher2"  -> "csum_fletcher2"
    [] kind = "Fletcher4"  -> "csum_fletcher4"
    [] kind \in {"Sha256", "Label"} -> "csum_sha256"
    [] kind = "Sha512_256" -> "csum_sha512"
    [] kind = "Skein"      -> "csum_skein"
    [] kind = "Edonr"      -> "csum_edonr"
    [] kind = "Blake3"     -> "csum_blake3"
    [] OTHER               -> "csum_unsupported"

\* The algorithms this build computes; BLAKE3 is keyed with the pool's salt.
Computes(kind) ==
  \/ kind \in ScalarChecksums
  \/ kind = "Sha512_256" /\ "sha512" \in Features
  \/ kind = "Blake3" /\ "blake3" \in Features

Verified == Ok("verified")

\* Slip: a checksum the build cannot compute counts as verified.
verify_block_Lenient(kind, salt, raw, orig) ==
  IF kind = "Off" \/ ~Computes(kind) \/ raw = orig
  THEN Verified
  ELSE Err("ChecksumMismatch", checksum_name(kind))

\* verify_block: salt says whether the pool's checksum salt is known.
verify_block(kind, salt, raw, orig) ==
  CASE kind = "Off" -> Verified
    [] kind = "Blake3" /\ Computes(kind) /\ ~salt ->
         Err("UnsupportedFeature", "csum_blake3_no_salt")
    [] kind # "Off" /\ ~Computes(kind) ->
         Err("UnsupportedFeature", checksum_name(kind))
    [] OTHER -> IF raw = orig
                THEN Verified
                ELSE Err("ChecksumMismatch", checksum_name(kind))

\* The codecs decompress dispatches to, with the tokens of their failures.
BadTokens(comp) ==
  CASE comp = "Zle"  -> {"zle_bad"}
    [] comp = "Lzjb" -> {"lzjb_bad"}
    [] comp = "Lz4"  -> {"lz4_no_prefix", "lz4_short", "lz4_decode", "lz4_len"}
    [] comp = "Gzip" -> {"gzip_decode", "gzip_len"}
    [] comp = "Zstd" -> {"zstd_no_hdr", "zstd_short", "zstd_frame",
                         "zstd_decode", "zstd_len"}

Decodes(comp) ==
  \/ comp \in {"Zle", "Lzjb"}
  \/ comp = "Lz4" /\ "lz4" \in Features
  \/ comp = "Gzip" /\ "gzip" \in Features
  \/ comp = "Zstd" /\ "zstd" \in Features

\* The logical block that comp makes of the physical bytes raw.
Logical(comp, raw) == [comp |-> comp, raw |-> raw]

\* decompress, as the set of results it may have.  valid says whether the
\* stream that was written, orig, decodes to lsize units; what a codec makes
\* of other bytes (a block stored without a checksum) is open.
decompress(comp, raw, lsize, orig, valid) ==
  LET decoded  == {Ok(Logical(comp, raw))}
      rejected == {Err("BadCompression", t) : t \in BadTokens(comp)}
  IN  IF lsize > MAX_BLOCK_LSIZE THEN {FileTooLarge}
      ELSE IF comp = "Off"
      THEN {IF Len(raw) < lsize
            THEN Err("BadCompression", "off_short")
            ELSE Ok(Logical("Off", SubSeq(raw, 1, lsize)))}
      ELSE IF ~Decodes(comp) THEN {UnsupportedCompression}
      ELSE IF raw # orig THEN decoded \cup rejected
      ELSE IF valid THEN decoded ELSE rejected
=============================================================================
