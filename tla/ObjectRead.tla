----------------------------- MODULE ObjectRead -----------------------------
(***************************************************************************)
(* walk.rs read_object: an object's dnode and its whole bonus buffer, out  *)
(* of an object set's array of dnode slots.  The first slot is read, and,  *)
(* when its header says that the dnode has more of them, all its slots.    *)
(*                                                                         *)
(* Lengths are in units of 64 bytes (the header is one unit).  Unit u of   *)
(* slot s of the array is <<s, u>>.  The header fields are whatever the    *)
(* slot holds; form is what else the decoder of phys/dnode.rs says of it.  *)
(***************************************************************************)
EXTENDS Integers, Sequences, Outcome

CONSTANTS DNODE_SIZE, DNODE_HEADER_SIZE, BLKPTR_SIZE, DNODE_MAX_SLOTS,
          WordSize,   \* number of u64 values
          Dnodes      \* object number, array geometry and header fields

ASSUME SizesAssumption ==
  /\ {DNODE_SIZE, DNODE_HEADER_SIZE, BLKPTR_SIZE, DNODE_MAX_SLOTS, WordSize} \subseteq Nat \ {0}
  /\ DNODE_HEADER_SIZE + BLKPTR_SIZE <= DNODE_SIZE
  /\ \A o \in Dnodes :
       /\ {o.num, o.block_slots, o.extra_slots, o.nblkptr, o.bonus_len} \subseteq Nat
       /\ o.spill \in BOOLEAN
       /\ o.form \in {"dnode", "empty", "garbled"}

VARIABLES dn,        \* the object asked for
          dnPc,
          dnResult
dnVars == <<dn, dnPc, dnResult>>

slots == dn.extra_slots + 1
size == slots * DNODE_SIZE
bonus_start == DNODE_HEADER_SIZE + dn.nblkptr * BLKPTR_SIZE
\* Slip: the spill pointer's place counts as bonus room.
bonus_room_Whole == size
bonus_room == size - IF dn.spill THEN BLKPTR_SIZE ELSE 0
ByteOfObject(p) == <<dn.num + p \div DNODE_SIZE, p % DNODE_SIZE>>
Bonus == [k \in 1 .. dn.bonus_len |-> ByteOfObject(bonus_start + k - 1)]
ObjectDnode == [nblkptr |-> dn.nblkptr, bonus |-> Bonus]

\* Slip: the place inside the block is not looked at.
SlotsOk_AnyPlace == slots <= DNODE_MAX_SLOTS /\ dn.block_slots # 0 /\ slots <= dn.block_slots
\* Slip: the last slots of a block are not used.
SlotsOk_Strict ==
  /\ slots <= DNODE_MAX_SLOTS
  /\ dn.block_slots # 0
  /\ (dn.num % dn.block_slots) + slots < dn.block_slots
\* A large dnode stays in its dnode block.
SlotsOk ==
  /\ slots <= DNODE_MAX_SLOTS
  /\ dn.block_slots # 0
  /\ (dn.num % dn.block_slots) + slots <= dn.block_slots

BonusOk == bonus_start <= DNODE_SIZE /\ bonus_start + dn.bonus_len <= bonus_room

\* What phys/dnode.rs from_decoder asks of one 512-byte slot.
SlotDecodes(spill, len) ==
  /\ dn.form = "dnode"
  /\ spill => dn.nblkptr = 1
  /\ bonus_start + (IF spill THEN BLKPTR_SIZE ELSE 0) + len <= DNODE_SIZE
\* decode_dnode on a slot with this spill flag and bonus length.
decode_dnode(spill, len) ==
  IF dn.form = "empty" THEN Err("Inconsistent", "dnode_empty")
  ELSE IF SlotDecodes(spill, len) THEN Ok(ObjectDnode)
  ELSE Err("Inconsistent", "dnode_decode")
-----------------------------------------------------------------------------
DnReturn(r) == dnPc' = "done" /\ dnResult' = r /\ UNCHANGED dn

DnStart(d) == dn = d /\ dnPc = "first" /\ dnResult = <<>>
DnInit == \E d \in Dnodes : DnStart(d)

\* read_dnode_range fails: damage on the way to the slots, or a failing disk.
SlotReadFails ==
  /\ dnPc \in {"first", "full"}
  /\ dnPc = "first" => dn.num * DNODE_SIZE < WordSize
  /\ DnReturn(Err("Io", "io_block"))

ReadFirst ==
  /\ dnPc = "first"
  /\ \/ /\ dn.num * DNODE_SIZE >= WordSize
        /\ DnReturn(Err("Inconsistent", "dnode_obj_overflow"))
     \/ /\ dn.num * DNODE_SIZE < WordSize
        /\ dn.extra_slots = 0
        /\ DnReturn(decode_dnode(dn.spill, dn.bonus_len))
     \/ /\ dn.num * DNODE_SIZE < WordSize
        /\ dn.extra_slots # 0
        /\ IF SlotsOk THEN dnPc' = "full" /\ UNCHANGED <<dn, dnResult>>
           ELSE DnReturn(Err("Inconsistent", "dnode_slots"))

\* The first slot is decoded with its spill flag and bonus length cleared.
ReadFull ==
  /\ dnPc = "full"
  /\ DnReturn(IF BonusOk THEN decode_dnode(FALSE, 0)
              ELSE Err("Inconsistent", "dnode_bonus_len"))

DnNext == SlotReadFails \/ ReadFirst \/ ReadFull
DnSpec == DnInit /\ [][DnNext]_dnVars
-----------------------------------------------------------------------------
\* walk.rs read_object ("A large dnode never crosses its dnode block"): every
\* unit of a bonus that is returned lies in one of the object's own slots, in
\* the dnode block of its first one, after the header and the block pointers
\* and before the spill pointer.
BonusIsOwn ==
  dnPc = "done" /\ dnResult.ok =>
    \A k \in 1 .. dn.bonus_len :
      LET b == dnResult.val.bonus[k]
      IN  /\ b[1] \in dn.num .. dn.num + dn.extra_slots
          /\ dn.extra_slots > 0 => b[1] \div dn.block_slots = dn.num \div dn.block_slots
          /\ b[1] = dn.num =>
               b[2] >= DNODE_HEADER_SIZE + dnResult.val.nblkptr * BLKPTR_SIZE
          /\ b[1] = dn.num + dn.extra_slots /\ dn.spill => b[2] < DNODE_SIZE - BLKPTR_SIZE

\* An object as a writer lays it out: its slots in one block, its pointers in
\* the first slot, its bonus in the room that is left.
WrittenDnode ==
  /\ dn.form = "dnode"
  /\ dn.num * DNODE_SIZE < WordSize
  /\ slots <= DNODE_MAX_SLOTS
  /\ \E b \in 0 .. dn.num : /\ b * dn.block_slots <= dn.num
                            /\ dn.num + slots <= (b + 1) * dn.block_slots
  /\ dn.spill => dn.nblkptr = 1
  /\ bonus_start <= DNODE_SIZE
  /\ bonus_start + dn.bonus_len + (IF dn.spill THEN BLKPTR_SIZE ELSE 0) <= size

\* walk.rs read_object: an object that is laid out as ZFS lays it out is
\* returned, large or small, with a spill pointer or without, with its bonus to
\* the last byte; only a failed read of its slots prevents it.
WrittenDnodeIsRead ==
  dnPc = "done" /\ WrittenDnode =>
    IF dnResult.ok THEN Len(dnResult.val.bonus) = dn.bonus_len ELSE dnResult.kind = "Io"
=============================================================================
