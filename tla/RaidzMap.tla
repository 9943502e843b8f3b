------------------------------ MODULE RaidzMap ------------------------------
(***************************************************************************)
(* The RAID-Z column geometry of vdev.rs (raidz_map): which child device   *)
(* holds each column of a block, where and how large it is.                *)
(*                                                                         *)
(* Sizes and offsets are counted in units of the 512-byte on-disk sector,  *)
(* the unit of a DVA offset and of a physical size; a vdev sector is       *)
(* secsize = 2^(ashift-9) of them.  The byte offset of a column is an      *)
(* unsigned word and the code shifts into it without a check, so it is     *)
(* reduced modulo OffsetRange (2^64 bytes, that is 2^55 units).            *)
(***************************************************************************)
EXTENDS Integers, Sequences, Outcome

CONSTANT OffsetRange   \* column offsets wrap modulo this (2^64 bytes)

SECTOR_SHIFT == 9
ASHIFT_MAX == 16

\* raidz_map's early return: too few columns, or an ashift whose shifts
\* (>> (ashift - 9), << ashift) are out of range.
GeometryOk(ashift, dcols, nparity) ==
  /\ dcols > nparity
  /\ ashift \in SECTOR_SHIFT .. ASHIFT_MAX

Secsize(ashift) == 2 ^ (ashift - SECTOR_SHIFT)

\* Slip: the rounding up is left out.
DataSectors_Floor(psize, sec) == psize \div sec

\* s: data sectors of the block, rounded up to whole vdev sectors.
DataSectors(psize, sec) == (psize + sec - 1) \div sec

\* q full rows of dcols-nparity data sectors, and r sectors in the last row.
FullRows(s, dcols, nparity) == s \div (dcols - nparity)
Remainder(s, dcols, nparity) ==
  s - FullRows(s, dcols, nparity) * (dcols - nparity)

\* bc: the columns that are one sector taller, parity included.
BigCols(s, dcols, nparity) ==
  IF Remainder(s, dcols, nparity) = 0
  THEN 0
  ELSE Remainder(s, dcols, nparity) + nparity

\* acols: the columns the block touches at all.
ActiveCols(s, dcols, nparity) ==
  IF FullRows(s, dcols, nparity) = 0 THEN BigCols(s, dcols, nparity) ELSE dcols

\* Column c of a block whose first vdev sector is b: the columns start at
\* device b % dcols and go round; those that wrap lie one sector further on.
Wraps(b, c, dcols) == (b % dcols) + c >= dcols
\* Slip: a wrapped column goes one child too far.
ColDev_OffByOne(b, c, dcols) ==
  IF Wraps(b, c, dcols) THEN (b % dcols) + c - dcols + 1 ELSE (b % dcols) + c
ColDev(b, c, dcols) ==
  IF Wraps(b, c, dcols) THEN (b % dcols) + c - dcols ELSE (b % dcols) + c
\* Slip: a wrapped column stays in the first row.
ColOffset_SameRow(b, c, dcols, sec) == ((b \div dcols) * sec) % OffsetRange
ColOffset(b, c, dcols, sec) ==
  LET o == ((b \div dcols) * sec) % OffsetRange
  IN  IF Wraps(b, c, dcols) THEN (o + sec) % OffsetRange ELSE o
\* Slip: the taller columns are counted from the first data column on.
ColSize_ParityShort(s, c, dcols, nparity, sec) ==
  (IF c \in nparity .. BigCols(s, dcols, nparity)
   THEN FullRows(s, dcols, nparity) + 1
   ELSE FullRows(s, dcols, nparity)) * sec
ColSize(s, c, dcols, nparity, sec) ==
  (IF c < BigCols(s, dcols, nparity)
   THEN FullRows(s, dcols, nparity) + 1
   ELSE FullRows(s, dcols, nparity)) * sec

\* raidz_map: the columns of a block of psize units at DVA offset `offset`,
\* parity columns first.
raidz_map(offset, ashift, dcols, nparity, psize) ==
  LET sec == Secsize(ashift)
      b   == offset \div sec
      s   == DataSectors(psize, sec)
  IN  IF ~GeometryOk(ashift, dcols, nparity) \/ s = 0
      THEN Err("Inconsistent", "raidz_geom")
      ELSE Ok([i \in 1 .. ActiveCols(s, dcols, nparity) |->
                 [devidx |-> ColDev(b, i - 1, dcols),
                  offset |-> ColOffset(b, i - 1, dcols, sec),
                  size   |-> ColSize(s, i - 1, dcols, nparity, sec),
                  parity |-> i - 1 < nparity]])
=============================================================================
