------------------------------ MODULE VdevRead ------------------------------
(***************************************************************************)
(* vdev.rs read_block_pointer: read, verify and decompress one block       *)
(* pointer.  On a single disk or a mirror every DVA copy is tried on every *)
(* child in order; on a RAID-Z1 every DVA copy is read as columns, put     *)
(* together, and when that fails rebuilt one data column at a time from    *)
(* parity.  The first bytes that verify are decompressed and returned;     *)
(* otherwise the error of the last attempt is.                             *)
(*                                                                         *)
(* What a device returns is chosen when it is read: the bytes that were    *)
(* written, other bytes, or an I/O error.  A call reads each place once,   *)
(* so this is every pattern of damage the media can have, and every        *)
(* pattern of transient failures.                                          *)
(***************************************************************************)
EXTENDS Integrity, RaidzMap

CONSTANTS Layouts,        \* vdev layouts
          Pointers(_),    \* block pointers to read on a layout
          LABEL_RESERVE,  \* units in front of DVA offset 0 (4 MiB)
          NoBuf,          \* a column that could not be read (None)
          NoResult        \* result while the call runs

Bit == 0 .. 1
Blocks(n) == [1 .. n -> Bit]

VARIABLES bp,        \* the block pointer argument
          layout,    \* the pool's vdev layout
          salt,      \* is the checksum salt known
          pc,        \* where the call is
          di,        \* DVA being tried
          ci,        \* child (or column) being tried
          colbufs,   \* raidz: the columns read for DVA di
          last,      \* the error of the latest failed attempt
          result,    \* what the call returned
          tried,     \* history: the places read, <<dva, child>>
          intact     \* history: did the devices return enough to recover?

control == <<pc, di, ci, colbufs, last, result>>
input == <<bp, layout, salt>>
vars == <<control, input, tried, intact>>

psize == Len(bp.orig)

Init ==
  /\ layout \in Layouts
  /\ bp \in Pointers(layout)
  /\ salt \in BOOLEAN
  /\ pc = "start"
  /\ di = 1
  /\ ci = 1
  /\ colbufs = <<>>
  /\ last = NoResult
  /\ result = NoResult
  /\ tried = {}
  /\ intact = FALSE

\* The call returns r.
Return(r) ==
  /\ result' = r
  /\ pc' = "done"
  /\ UNCHANGED <<di, ci, colbufs, last>>

\* Bytes that verified are decompressed; a codec's error ends the call too.
ReturnLogical(raw) ==
  \E r \in decompress(bp.comp, raw, bp.lsize, bp.orig, bp.valid) : Return(r)

\* An attempt failed with e: go on with child c of DVA d.
Retry(e, d, c) ==
  /\ last' = e
  /\ di' = d
  /\ ci' = c
-----------------------------------------------------------------------------
(* The prologue: pointers that need no device read, and refusals.          *)

\* An embedded pointer carries its data inline.  (Its decoder refuses a
\* physical size past the payload, so "embedded_short" does not occur.)
ReadEmbedded ==
  /\ pc = "start"
  /\ bp.kind = "Embedded"
  /\ ReturnLogical(bp.orig)
  /\ UNCHANGED <<input, tried, intact>>

RefuseEncrypted ==
  /\ pc = "start"
  /\ bp.kind = "Encrypted"
  /\ Return(Err("UnsupportedFeature", "encryption"))
  /\ UNCHANGED <<input, tried, intact>>

BadPsize == psize = 0 \/ psize > MAX_BLOCK_LSIZE

\* A DVA that ends the call before anything is read.
Refused(dva) == dva.gang \/ dva.vdev # 0

RefuseRegular ==
  /\ pc = "start"
  /\ bp.kind = "Regular"
  /\ \/ /\ BadPsize
        /\ Return(Err("Inconsistent", "bp_bad_psize"))
     \/ /\ ~BadPsize
        /\ \E d \in DOMAIN bp.dvas :
             /\ Refused(bp.dvas[d])
             /\ \A e \in 1 .. d - 1 : ~Refused(bp.dvas[e])
             /\ Return(IF bp.dvas[d].gang
                       THEN Err("Unsupported", "gang_block")
                       ELSE Err("Inconsistent", "dva_vdev"))
  /\ UNCHANGED <<input, tried, intact>>

\* The loops start with the error a pointer without DVAs gets.
StartRegular ==
  /\ pc = "start"
  /\ bp.kind = "Regular"
  /\ ~BadPsize
  /\ \A d \in DOMAIN bp.dvas : ~Refused(bp.dvas[d])
  /\ IF layout.kind = "RaidZ1"
     THEN /\ pc' = "columns"
          /\ last' = Err("Inconsistent", "raidz_no_copy")
     ELSE /\ pc' = "copies"
          /\ last' = Err("Inconsistent", "bp_no_readable_copy")
  /\ UNCHANGED <<di, ci, colbufs, result, input, tried, intact>>

\* Every DVA was tried in vain.
GiveUp ==
  /\ pc \in {"copies", "columns"}
  /\ di > Len(bp.dvas)
  /\ Return(last)
  /\ UNCHANGED <<input, tried, intact>>
-----------------------------------------------------------------------------
(* Single disk and mirror: each DVA on each child, in read order.          *)

\* dva_byte_offset: the checked multiplication and addition.
dva_byte_offset(offset) ==
  IF offset >= OffsetRange \/ offset + LABEL_RESERVE >= OffsetRange
  THEN Err("Inconsistent", "dva_out_of_range")
  ELSE Ok(offset + LABEL_RESERVE)

\* Slips: only one child of each DVA is tried;
\* the last child's failure does not move on to the next DVA.
AfterCopy_OneChild(e) == Retry(e, di + 1, 1)
AfterCopy_SameDva(e) ==
  IF ci < layout.width THEN Retry(e, di, ci + 1) ELSE Retry(e, di, 1)

\* After child c of DVA d: the next child, or the next DVA's first child.
AfterCopy(e) ==
  IF ci < layout.width THEN Retry(e, di, ci + 1) ELSE Retry(e, di + 1, 1)

SkipDva ==
  /\ pc = "copies"
  /\ di <= Len(bp.dvas)
  /\ LET byte == dva_byte_offset(bp.dvas[di].offset)
     IN  ~byte.ok /\ Retry(byte, di + 1, 1)
  /\ UNCHANGED <<pc, colbufs, result, input, tried, intact>>

ReadableDva ==
  /\ pc = "copies"
  /\ di <= Len(bp.dvas)
  /\ dva_byte_offset(bp.dvas[di].offset).ok

CopyUnreadable ==
  /\ ReadableDva
  /\ AfterCopy(Err("Io", "io_block"))
  /\ tried' = tried \cup {<<di, ci>>}
  /\ UNCHANGED <<pc, colbufs, result, input, intact>>

\* The child returned raw: return it when it verifies, else go on.
CopyRead ==
  /\ ReadableDva
  /\ \E raw \in Blocks(psize) :
       LET check == verify_block(bp.cksum, salt, raw, bp.orig)
       IN  /\ intact' = (intact \/ raw = bp.orig)
           /\ \/ /\ check.ok
                 /\ ReturnLogical(raw)
              \/ /\ ~check.ok
                 /\ AfterCopy(check)
                 /\ UNCHANGED <<pc, colbufs, result>>
  /\ tried' = tried \cup {<<di, ci>>}
  /\ UNCHANGED input
-----------------------------------------------------------------------------
(* RAID-Z1: column 1 is parity, the others hold the block in column order. *)

Xor(a, b) == (a + b) % 2

\* Unit k of a buffer, zero past its end.
Unit(buf, k) == IF k <= Len(buf) THEN buf[k] ELSE 0

\* seed XOR every data column but the skipped one, unit by unit.
XorColumns(seed, bufs, skip, size) ==
  [k \in 1 .. size |->
     LET acc[i \in 1 .. Len(bufs)] ==
           IF i = 1 THEN Unit(seed, k)
           ELSE IF i = skip THEN acc[i - 1]
           ELSE Xor(acc[i - 1], Unit(bufs[i], k))
     IN  acc[Len(bufs)]]

\* The columns as the pool wrote them: the block, padded with zeros to whole
\* vdev sectors, cut into the data columns, and their parity.
WrittenColumns(cols) ==
  LET start[i \in 1 .. Len(cols)] ==
        IF i <= 2 THEN 0 ELSE start[i - 1] + cols[i - 1].size
      data == [i \in 1 .. Len(cols) |->
                 [k \in 1 .. cols[i].size |->
                    IF i > 1 /\ start[i] + k <= psize
                    THEN bp.orig[start[i] + k] ELSE 0]]
  IN  [data EXCEPT ![1] = XorColumns(<<>>, data, 1, cols[1].size)]

\* raidz1_assemble: the data columns end to end, cut to the physical size.
raidz1_assemble(cols, bufs) ==
  LET data == {i \in DOMAIN cols : ~cols[i].parity}
      cat[i \in 0 .. Len(cols)] ==
        IF i = 0 THEN <<>>
        ELSE cat[i - 1] \o (IF i \in data THEN bufs[i] ELSE <<>>)
  IN  IF \E i \in data : bufs[i] = NoBuf THEN NoBuf
      ELSE IF Len(cat[Len(cols)]) < psize THEN NoBuf
      ELSE SubSeq(cat[Len(cols)], 1, psize)

\* Slip: the column being rebuilt is XORed in as well.
raidz1_reconstruct_All(cols, bufs, target) ==
  IF \E i \in DOMAIN cols : bufs[i] = NoBuf
  THEN NoBuf
  ELSE XorColumns(bufs[1], bufs, 1, cols[target].size)

\* raidz1_reconstruct: parity XOR the other columns, if all of them are there.
raidz1_reconstruct(cols, bufs, target) ==
  IF \E i \in DOMAIN cols \ {target} : bufs[i] = NoBuf
  THEN NoBuf
  ELSE XorColumns(bufs[1], bufs, target, cols[target].size)

ColumnMap == raidz_map(bp.dvas[di].offset, layout.ashift, layout.width, 1, psize)
Cols == ColumnMap.val

BadGeometry ==
  /\ pc = "columns"
  /\ di <= Len(bp.dvas)
  /\ ~ColumnMap.ok
  /\ Retry(ColumnMap, di + 1, 1)
  /\ UNCHANGED <<pc, colbufs, result, input, tried, intact>>

\* raidz1_read_columns: an absent child, an offset past the word, or a failed
\* read leaves no buffer.
Unavailable(col) ==
  \/ col.devidx \in layout.absent
  \/ col.offset + LABEL_RESERVE >= OffsetRange

ReadColumns ==
  /\ pc = "columns"
  /\ di <= Len(bp.dvas)
  /\ ColumnMap.ok
  /\ LET cols    == Cols
         written == WrittenColumns(cols)
         Returns(i) == {NoBuf} \cup (IF Unavailable(cols[i]) THEN {}
                                    ELSE Blocks(cols[i].size))
     IN  \E bufs \in [DOMAIN cols -> UNION {Returns(i) : i \in DOMAIN cols}] :
           /\ \A i \in DOMAIN cols : bufs[i] \in Returns(i)
           /\ colbufs' = bufs
           /\ intact' = \/ intact
                        \/ \E lost \in DOMAIN cols :
                             \A i \in DOMAIN cols \ {lost} : bufs[i] = written[i]
           /\ tried' = tried \cup {<<di, i>> : i \in DOMAIN cols}
  /\ pc' = "healthy"
  /\ UNCHANGED <<di, ci, last, result, input>>

\* Slip: a block that could be put together is taken without a checksum.
Verifies_Trusting(raw) == raw # NoBuf

\* Does the assembled block verify?  (verify_block(..).is_ok())
Verifies(raw) ==
  raw # NoBuf /\ verify_block(bp.cksum, salt, raw, bp.orig).ok

TryHealthy ==
  /\ pc = "healthy"
  /\ LET raw == raidz1_assemble(Cols, colbufs)
     IN  \/ Verifies(raw) /\ ReturnLogical(raw)
         \/ /\ ~Verifies(raw)
            /\ pc' = "rebuild"
            /\ ci' = 2
            /\ UNCHANGED <<di, colbufs, last, result>>
  /\ UNCHANGED <<input, tried, intact>>

\* Put data column ci, rebuilt from parity, in the place of what was read.
TryRebuild ==
  /\ pc = "rebuild"
  /\ ci <= Len(Cols)
  /\ LET rebuilt == raidz1_reconstruct(Cols, colbufs, ci)
         raw == IF rebuilt = NoBuf THEN NoBuf
                ELSE raidz1_assemble(Cols, [colbufs EXCEPT ![ci] = rebuilt])
     IN  \/ Verifies(raw) /\ ReturnLogical(raw)
         \/ /\ ~Verifies(raw)
            /\ ci' = ci + 1
            /\ UNCHANGED <<pc, di, colbufs, last, result>>
  /\ UNCHANGED <<input, tried, intact>>

DvaUnrecoverable ==
  /\ pc = "rebuild"
  /\ ci > Len(Cols)
  /\ Retry(Err("ChecksumMismatch", "raidz_unrecoverable"), di + 1, 1)
  /\ pc' = "columns"
  /\ colbufs' = <<>>
  /\ UNCHANGED <<result, input, tried, intact>>
-----------------------------------------------------------------------------
Next ==
  \/ ReadEmbedded \/ RefuseEncrypted \/ RefuseRegular \/ StartRegular \/ GiveUp
  \/ SkipDva \/ CopyUnreadable \/ CopyRead
  \/ BadGeometry \/ ReadColumns \/ TryHealthy \/ TryRebuild \/ DvaUnrecoverable

Spec == Init /\ [][Next]_vars

\* The call runs on until it returns.
FairSpec == Spec /\ WF_vars(Next)
-----------------------------------------------------------------------------
TypeOK ==
  /\ layout \in Layouts
  /\ bp \in Pointers(layout)
  /\ salt \in BOOLEAN
  /\ pc \in {"start", "copies", "columns", "healthy", "rebuild", "done"}
  /\ di \in Nat \ {0}
  /\ ci \in Nat \ {0}
  /\ pc \notin {"start", "done"} => bp.kind = "Regular" /\ IsErr(last)
  /\ pc = "done" => result.ok \in BOOLEAN
  /\ intact \in BOOLEAN

\* The logical block the pointer stands for.
Written == Logical(bp.comp, IF bp.comp = "Off" THEN SubSeq(bp.orig, 1, bp.lsize)
                            ELSE bp.orig)

\* vdev.rs: "returning the first copy whose checksum verifies".  Whatever the
\* devices returned, from however many copies and columns, data that is
\* returned is the data that was written, unless the pool stores no checksum.
ReturnedDataIsWritten ==
  pc = "done" /\ result.ok /\ (bp.kind = "Regular" => bp.cksum # "Off")
    => result.val = Written

\* Can this build verify and decompress the block at all?
Supported ==
  /\ bp.kind = "Regular"
  /\ bp.cksum # "Off"
  /\ verify_block(bp.cksum, salt, bp.orig, bp.orig).ok
  /\ \A r \in decompress(bp.comp, bp.orig, bp.lsize, bp.orig, bp.valid) : r.ok
  /\ ~BadPsize
  /\ \A d \in DOMAIN bp.dvas : ~Refused(bp.dvas[d])

\* The places read_block_pointer has to try: every child (every column) of
\* every DVA it can address.
Places ==
  IF layout.kind = "RaidZ1"
  THEN UNION {LET cols == raidz_map(bp.dvas[d].offset, layout.ashift,
                                    layout.width, 1, psize)
              IN  IF cols.ok THEN {<<d, i>> : i \in DOMAIN cols.val} ELSE {} :
              d \in DOMAIN bp.dvas}
  ELSE {x \in (DOMAIN bp.dvas) \X (1 .. layout.width) :
          dva_byte_offset(bp.dvas[x[1]].offset).ok}

\* vdev.rs read_block_pointer, raidz1_read: a supported block is refused only
\* when every place it could be read from was tried and no copy came back
\* whole (RAID-Z1: no copy with at most one column lost or wrong).
ErrorMeansLost ==
  pc = "done" /\ ~result.ok /\ Supported => ~intact /\ tried = Places

\* vdev.rs, fuzz/README.md ("never ... an unbounded loop"): every call returns.
Terminates == <>(pc = "done")
=============================================================================
