---------------------------- MODULE RaidzStripe -----------------------------
(***************************************************************************)
(* One call of raidz_map by raidz1_read: a RAID-Z1 block of some size at   *)
(* some DVA offset, on a vdev of some width and ashift, is laid out, and   *)
(* what recovery relies on is stated of the columns that come back.        *)
(***************************************************************************)
EXTENDS RaidzMap, FiniteSets

CONSTANTS Widths,    \* numbers of children of the raidz vdev
          Ashifts,   \* ashift values a label may carry
          Offsets,   \* DVA offsets, in 512-byte units
          Psizes,    \* physical sizes, in 512-byte units
          NoCols     \* cols before the call returns

ASSUME InputsAssumption ==
  /\ Widths \subseteq Nat
  /\ Ashifts \subseteq Nat
  /\ Offsets \subseteq Nat
  /\ Psizes \subseteq Nat \ {0}
  /\ OffsetRange \in Nat \ {0}

VARIABLES req,   \* the call's arguments
          cols   \* its result

stripeVars == <<req, cols>>

Requests == [width : Widths, ashift : Ashifts, offset : Offsets, psize : Psizes]

StripeInit == /\ req \in Requests
        /\ cols = NoCols

\* raidz1_read always asks for single parity.
Map == /\ cols = NoCols
       /\ cols' = raidz_map(req.offset, req.ashift, req.width, 1, req.psize)
       /\ UNCHANGED req

StripeNext == Map

StripeSpec == StripeInit /\ [][StripeNext]_stripeVars
-----------------------------------------------------------------------------
Returned == cols # NoCols
Mapped == Returned /\ cols.ok

Sec == Secsize(req.ashift)
FirstSector == req.offset \div Sec
Sectors == DataSectors(req.psize, Sec)
Columns == cols.val

\* The allocator's view: vdev sector n of a raidz vdev is sector n \div width
\* of child n % width.
LinearSector(dev, row) == row * req.width + dev

\* The sectors the block occupies: its data and one parity sector per row.
Footprint == Sectors + FullRows(Sectors, req.width, 1)
             + (IF Remainder(Sectors, req.width, 1) = 0 THEN 0 ELSE 1)

StripeTypeOK ==
  /\ req \in Requests
  /\ Returned => IsResult(cols, Seq([devidx : Nat, offset : Nat,
                                  size : Nat, parity : BOOLEAN]))

\* vdev.rs raidz_map: every column lies on a child of its own, so losing one
\* child costs a block at most one column, which is all raidz1 can rebuild.
ColumnsOnDistinctDevices ==
  Mapped => /\ \A i \in DOMAIN Columns : Columns[i].devidx \in 0 .. req.width - 1
            /\ \A i, j \in DOMAIN Columns :
                 Columns[i].devidx = Columns[j].devidx => i = j

\* vdev.rs raidz_map, raidz1_reconstruct: the parity column is the first one
\* and is as tall as every data column, so each data sector has its parity.
ParityCoversData ==
  Mapped => \A i \in DOMAIN Columns :
              /\ Columns[i].parity <=> i = 1
              /\ Columns[i].size <= Columns[1].size

\* vdev.rs raidz_map ("Data sectors, rounded UP"), raidz1_assemble: the data
\* columns together hold the block, and less than one vdev sector of padding.
StripeHoldsBlock ==
  Mapped =>
    LET held[i \in 0 .. Len(Columns)] ==
          IF i = 0 THEN 0
          ELSE held[i - 1] + (IF Columns[i].parity THEN 0 ELSE Columns[i].size)
    IN  held[Len(Columns)] \in req.psize .. req.psize + Sec - 1

\* Does the DVA's own byte address fit a word (what dva_byte_offset asks of
\* the copies of a mirror, and raidz_map does not)?
Addressable == req.offset < OffsetRange

\* vdev.rs raidz_map: the sectors of all the columns together are exactly the
\* Footprint vdev sectors from the DVA's on, each once, so a block touches no
\* sector allocated to another block.  It holds of every addressable DVA: no
\* column's unchecked shift or addition wraps on one.
StripeIsContiguous ==
  Mapped /\ Addressable =>
    LET cells == {x \in (DOMAIN Columns) \X (0 .. Sectors) :
                    x[2] < Columns[x[1]].size \div Sec}
        place == [x \in cells |->
                    LinearSector(Columns[x[1]].devidx,
                                 Columns[x[1]].offset \div Sec + x[2])]
    IN  /\ {place[x] : x \in cells} = FirstSector .. FirstSector + Footprint - 1
        /\ Cardinality(cells) = Footprint
=============================================================================
