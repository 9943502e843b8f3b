--------------------------- MODULE VdevReadProofs ---------------------------
(***************************************************************************)
(* read_block_pointer for every layout, pointer, build and pattern of      *)
(* damage: type correctness, and that only written data is returned.       *)
(***************************************************************************)
EXTENDS VdevRead, TLAPS

\* cksum.rs verify_block: bytes that verify under a checksum are the bytes
\* that were written.
LEMMA VerifiedIsWritten ==
  ASSUME NEW kind, NEW s, NEW raw, NEW orig, kind # "Off",
         verify_block(kind, s, raw, orig).ok
  PROVE  raw = orig
BY DEF verify_block, Verified, Ok, Err

\* cksum.rs verify_block: what does not verify is an error.
LEMMA VerifyFails ==
  ASSUME NEW kind, NEW s, NEW raw, NEW orig,
         ~verify_block(kind, s, raw, orig).ok
  PROVE  IsErr(verify_block(kind, s, raw, orig))
BY DEF verify_block, Verified, Ok, Err, IsErr, ErrorKind

\* vdev.rs raidz_map: what is not a column map is an error.
LEMMA MapFails ==
  ASSUME NEW offset, NEW ashift, NEW width, NEW size,
         ~raidz_map(offset, ashift, width, 1, size).ok
  PROVE  IsErr(raidz_map(offset, ashift, width, 1, size))
<1>1. \/ raidz_map(offset, ashift, width, 1, size) = Err("Inconsistent", "raidz_geom")
      \/ \E v : raidz_map(offset, ashift, width, 1, size) = Ok(v)
  BY Zenon DEF raidz_map
<1> QED  BY <1>1 DEF Ok, Err, IsErr, ErrorKind

\* compress.rs decompress: the result is data or an error.
LEMMA DecompressResult ==
  ASSUME NEW comp, NEW raw, NEW lsize, NEW orig, NEW valid,
         NEW r \in decompress(comp, raw, lsize, orig, valid)
  PROVE  r.ok \in BOOLEAN
<1>1. \/ r = Ok(Logical(comp, raw))
      \/ r = Ok(Logical("Off", SubSeq(raw, 1, lsize)))
      \/ \E k, t : r = Err(k, t)
  BY DEF decompress, FileTooLarge, UnsupportedCompression
<1>2. r.ok = TRUE \/ r.ok = FALSE
  BY <1>1 DEF Ok, Err
<1> QED  BY <1>2, Zenon

\* compress.rs decompress: data made of the stream that was written is the
\* logical block.
LEMMA DecompressWritten ==
  ASSUME NEW comp, NEW lsize, NEW orig, NEW valid,
         NEW r \in decompress(comp, orig, lsize, orig, valid), r.ok
  PROVE  r.val = Logical(comp, IF comp = "Off" THEN SubSeq(orig, 1, lsize) ELSE orig)
<1>1. \/ comp = "Off" /\ r = Ok(Logical("Off", SubSeq(orig, 1, lsize)))
      \/ comp # "Off" /\ r = Ok(Logical(comp, orig))
      \/ \E k, t : r = Err(k, t)
  BY DEF decompress, FileTooLarge, UnsupportedCompression
<1> QED  BY <1>1 DEF Ok, Err

\* A call that ends by decompressing the bytes raw.
LEMMA ReturnLogicalFacts ==
  ASSUME NEW raw, ReturnLogical(raw)
  PROVE  /\ pc' = "done" /\ result'.ok \in BOOLEAN
         /\ UNCHANGED <<di, ci, colbufs, last>>
         /\ raw = bp.orig /\ result'.ok => result'.val = Written
<1>1. PICK r \in decompress(bp.comp, raw, bp.lsize, bp.orig, bp.valid) : Return(r)
  BY DEF ReturnLogical
<1>2. /\ result' = r /\ pc' = "done"
      /\ UNCHANGED <<di, ci, colbufs, last>>
  BY <1>1 DEF Return
<1>3. r.ok \in BOOLEAN
  BY DecompressResult
<1>4. ASSUME raw = bp.orig, r.ok
      PROVE  r.val = Written
  <2>1. r \in decompress(bp.comp, bp.orig, bp.lsize, bp.orig, bp.valid)
    BY <1>4
  <2> QED  BY <1>4, <2>1, DecompressWritten DEF Written
<1> QED  BY <1>2, <1>3, <1>4

\* The call's control state has its type at every step, for all pointers and
\* layouts: while copies are tried, last is an error that can be returned.
THEOREM TypeCorrect == Spec => []TypeOK
<1>1. Init => TypeOK
  <2> SUFFICES ASSUME Init  PROVE TypeOK
    OBVIOUS
  <2>1. intact \in BOOLEAN /\ salt \in BOOLEAN
    BY Zenon DEF Init
  <2>2. pc = "start" /\ di = 1 /\ ci = 1 /\ layout \in Layouts /\ bp \in Pointers(layout)
    BY DEF Init
  <2> QED  BY <2>1, <2>2 DEF TypeOK
<1>2. TypeOK /\ [Next]_vars => TypeOK'
  <2> SUFFICES ASSUME TypeOK, [Next]_vars  PROVE TypeOK'
    OBVIOUS
  <2> USE DEF TypeOK, input
  <2>1. CASE ReadEmbedded
    <3>1. ReturnLogical(bp.orig)
      BY <2>1 DEF ReadEmbedded
    <3> QED  BY <2>1, <3>1, ReturnLogicalFacts DEF ReadEmbedded
  <2>2. CASE RefuseEncrypted
    BY <2>2 DEF RefuseEncrypted, Return, Err
  <2>3. CASE RefuseRegular
    <3>1. \E k, t : Return(Err(k, t))
      BY <2>3, Zenon DEF RefuseRegular
    <3>2. pc' = "done" /\ result'.ok = FALSE /\ UNCHANGED <<di, ci, colbufs, last>>
      BY <3>1 DEF Return, Err
    <3> QED  BY <2>3, <3>2 DEF RefuseRegular
  <2>4. CASE StartRegular
    BY <2>4 DEF StartRegular, IsErr, Err, ErrorKind
  <2>5. CASE GiveUp
    BY <2>5 DEF GiveUp, Return, IsErr
  <2>6. CASE SkipDva
    BY <2>6 DEF SkipDva, Retry, dva_byte_offset, IsErr, Err, ErrorKind, Ok
  <2>7. CASE CopyUnreadable
    BY <2>7 DEF CopyUnreadable, ReadableDva, AfterCopy, Retry, IsErr, Err, ErrorKind
  <2>8. CASE CopyRead
    <3>1. PICK raw \in Blocks(psize) :
            LET check == verify_block(bp.cksum, salt, raw, bp.orig)
            IN  /\ intact' = (intact \/ raw = bp.orig)
                /\ \/ /\ check.ok
                      /\ ReturnLogical(raw)
                   \/ /\ ~check.ok
                      /\ AfterCopy(check)
                      /\ UNCHANGED <<pc, colbufs, result>>
      BY <2>8 DEF CopyRead
    <3>2. intact' \in BOOLEAN /\ UNCHANGED input /\ pc = "copies"
      BY <2>8, <3>1, Zenon DEF CopyRead, ReadableDva
    <3>3. CASE ReturnLogical(raw)
      BY <3>2, <3>3, ReturnLogicalFacts
    <3>4. CASE ~ReturnLogical(raw)
      <4> DEFINE check == verify_block(bp.cksum, salt, raw, bp.orig)
      <4>1. ~check.ok /\ AfterCopy(check) /\ UNCHANGED <<pc, colbufs, result>>
        BY <3>1, <3>4
      <4>2. IsErr(check)
        BY <4>1, VerifyFails
      <4> HIDE DEF check
      <4> QED  BY <3>2, <4>1, <4>2 DEF AfterCopy, Retry
    <3> QED  BY <3>3, <3>4
  <2>9. CASE BadGeometry
    <3>1. IsErr(ColumnMap)
      BY <2>9, MapFails DEF BadGeometry, ColumnMap
    <3> QED  BY <2>9, <3>1 DEF BadGeometry, Retry
  <2>10. CASE ReadColumns
    <3>1. intact' \in BOOLEAN
      BY <2>10, Zenon DEF ReadColumns
    <3> QED  BY <2>10, <3>1 DEF ReadColumns
  <2>11. CASE TryHealthy
    <3> DEFINE raw == raidz1_assemble(Cols, colbufs)
    <3>1. CASE ReturnLogical(raw)
      BY <2>11, <3>1, ReturnLogicalFacts DEF TryHealthy
    <3>2. CASE ~ReturnLogical(raw)
      BY <2>11, <3>2 DEF TryHealthy
    <3> QED  BY <3>1, <3>2
  <2>12. CASE TryRebuild
    <3> DEFINE rebuilt == raidz1_reconstruct(Cols, colbufs, ci)
               raw == IF rebuilt = NoBuf THEN NoBuf
                      ELSE raidz1_assemble(Cols, [colbufs EXCEPT ![ci] = rebuilt])
    <3>1. CASE ReturnLogical(raw)
      BY <2>12, <3>1, ReturnLogicalFacts DEF TryRebuild
    <3>2. CASE ~ReturnLogical(raw)
      BY <2>12, <3>2 DEF TryRebuild
    <3> QED  BY <3>1, <3>2
  <2>13. CASE DvaUnrecoverable
    BY <2>13 DEF DvaUnrecoverable, Retry, IsErr, Err, ErrorKind
  <2>14. CASE UNCHANGED vars
    BY <2>14 DEF vars, control
  <2> QED
    BY <2>1, <2>2, <2>3, <2>4, <2>5, <2>6, <2>7, <2>8, <2>9, <2>10, <2>11,
       <2>12, <2>13, <2>14 DEF Next
<1> QED  BY <1>1, <1>2, PTL DEF Spec

\* Bytes taken after verification are the written ones, when there is a
\* checksum.
LEMMA VerifiesWritten ==
  ASSUME NEW raw, bp.cksum # "Off", Verifies(raw)
  PROVE  raw = bp.orig
BY VerifiedIsWritten DEF Verifies

\* The first copy whose checksum verifies, or the block put together from
\* columns of which one was rebuilt, is the block that was written: for every
\* number of DVAs, children and columns, and all damage the devices return.
THEOREM OnlyWrittenDataReturned == Spec => []ReturnedDataIsWritten
<1>1. Init => ReturnedDataIsWritten
  BY DEF Init, ReturnedDataIsWritten
<1>2. TypeOK /\ ReturnedDataIsWritten /\ [Next]_vars => ReturnedDataIsWritten'
  <2> SUFFICES ASSUME TypeOK, ReturnedDataIsWritten, [Next]_vars
               PROVE  ReturnedDataIsWritten'
    OBVIOUS
  <2>0. UNCHANGED input
    BY DEF Next, vars, ReadEmbedded, RefuseEncrypted, RefuseRegular, StartRegular,
           GiveUp, SkipDva, CopyUnreadable, CopyRead, BadGeometry, ReadColumns,
           TryHealthy, TryRebuild, DvaUnrecoverable
  <2> SUFFICES ASSUME pc' = "done", result'.ok, bp.kind = "Regular" => bp.cksum # "Off"
               PROVE  result'.val = Written
    BY <2>0 DEF ReturnedDataIsWritten, Written, input
  <2>1. CASE ReadEmbedded
    BY <2>1, ReturnLogicalFacts DEF ReadEmbedded
  <2>2. CASE RefuseEncrypted
    BY <2>2 DEF RefuseEncrypted, Return, Err
  <2>3. CASE RefuseRegular
    <3>1. \E k, t : Return(Err(k, t))
      BY <2>3, Zenon DEF RefuseRegular
    <3> QED  BY <3>1 DEF Return, Err
  <2>4. CASE StartRegular
    BY <2>4 DEF StartRegular
  <2>5. CASE GiveUp
    BY <2>5 DEF GiveUp, Return, TypeOK, IsErr
  <2>6. CASE SkipDva
    BY <2>6 DEF SkipDva
  <2>7. CASE CopyUnreadable
    BY <2>7 DEF CopyUnreadable, ReadableDva
  <2>8. CASE CopyRead
    <3>1. PICK raw \in Blocks(psize) :
            LET check == verify_block(bp.cksum, salt, raw, bp.orig)
            IN  /\ intact' = (intact \/ raw = bp.orig)
                /\ \/ /\ check.ok
                      /\ ReturnLogical(raw)
                   \/ /\ ~check.ok
                      /\ AfterCopy(check)
                      /\ UNCHANGED <<pc, colbufs, result>>
      BY <2>8 DEF CopyRead
    <3>2. verify_block(bp.cksum, salt, raw, bp.orig).ok /\ ReturnLogical(raw)
      BY <2>8, <3>1 DEF CopyRead, ReadableDva
    <3>3. bp.cksum # "Off"
      BY <2>8 DEF CopyRead, ReadableDva, TypeOK
    <3>4. raw = bp.orig
      BY <3>2, <3>3, VerifiedIsWritten
    <3> QED  BY <3>2, <3>4, ReturnLogicalFacts
  <2>9. CASE BadGeometry
    BY <2>9 DEF BadGeometry
  <2>10. CASE ReadColumns
    BY <2>10 DEF ReadColumns
  <2>11. CASE TryHealthy
    <3> DEFINE raw == raidz1_assemble(Cols, colbufs)
    <3>1. Verifies(raw) /\ ReturnLogical(raw)
      BY <2>11 DEF TryHealthy
    <3>2. bp.cksum # "Off"
      BY <2>11 DEF TryHealthy, TypeOK
    <3> HIDE DEF raw
    <3>3. raw = bp.orig
      BY <3>1, <3>2, VerifiesWritten
    <3> QED  BY <3>1, <3>3, ReturnLogicalFacts
  <2>12. CASE TryRebuild
    <3> DEFINE rebuilt == raidz1_reconstruct(Cols, colbufs, ci)
               raw == IF rebuilt = NoBuf THEN NoBuf
                      ELSE raidz1_assemble(Cols, [colbufs EXCEPT ![ci] = rebuilt])
    <3>1. Verifies(raw) /\ ReturnLogical(raw)
      BY <2>12 DEF TryRebuild
    <3>2. bp.cksum # "Off"
      BY <2>12 DEF TryRebuild, TypeOK
    <3> HIDE DEF raw
    <3>3. raw = bp.orig
      BY <3>1, <3>2, VerifiesWritten
    <3> QED  BY <3>1, <3>3, ReturnLogicalFacts
  <2>13. CASE DvaUnrecoverable
    BY <2>13 DEF DvaUnrecoverable
  <2>14. CASE UNCHANGED vars
    BY <2>14 DEF vars, control, input, ReturnedDataIsWritten, Written
  <2> QED
    BY <2>1, <2>2, <2>3, <2>4, <2>5, <2>6, <2>7, <2>8, <2>9, <2>10, <2>11,
       <2>12, <2>13, <2>14 DEF Next
<1> QED  BY <1>1, <1>2, TypeCorrect, PTL DEF Spec
=============================================================================
