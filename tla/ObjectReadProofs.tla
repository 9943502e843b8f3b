-------------------------- MODULE ObjectReadProofs --------------------------
(***************************************************************************)
(* read_object, for every object number, dnode header and geometry of the  *)
(* dnode array: a bonus that is returned is the object's own, and objects  *)
(* laid out as ZFS does it are not refused.                                *)
(***************************************************************************)
EXTENDS ObjectRead, TLAPS

DnInv == /\ dn \in Dnodes
         /\ dnPc = "full" => /\ SlotsOk /\ dn.extra_slots # 0
                             /\ dn.num * DNODE_SIZE < WordSize
         /\ BonusIsOwn /\ WrittenDnodeIsRead
-----------------------------------------------------------------------------
LEMMA Divided ==
  ASSUME NEW v \in Nat, NEW b \in Nat \ {0}
  PROVE  /\ v \div b \in Nat /\ v % b \in 0 .. b - 1
         /\ v = (v \div b) * b + (v % b)
BY Z3

LEMMA InRow ==
  ASSUME NEW v \in Nat, NEW b \in Nat \ {0}, NEW q \in Nat, q * b <= v, v < q * b + b
  PROVE  v \div b = q /\ v % b = v - q * b
<1>1. /\ v \div b \in Nat /\ v % b \in 0 .. b - 1 /\ v = (v \div b) * b + (v % b)
  BY Divided
<1> DEFINE d == v \div b
           r == v % b
<1> HIDE DEF d, r
<1>2. d \in Nat /\ r \in 0 .. b - 1 /\ v = d * b + r
  BY <1>1 DEF d, r
<1>3. d = q
  BY <1>2, Z3
<1> QED
  BY <1>2, <1>3 DEF d, r

LEMMA Rows ==
  ASSUME NEW q \in Nat, NEW n \in Nat, NEW b \in Nat \ {0}, NEW r \in 0 .. b - 1, q * b + r < n * b
  PROVE  q <= n - 1
BY Z3

LEMMA Distribute ==
  ASSUME NEW n \in Nat, NEW b \in Nat
  PROVE  (n + 1) * b = n * b + b /\ n * b \in Nat
BY Z3

\* The numbers of a dnode.
LEMMA Numbers ==
  ASSUME dn \in Dnodes
  PROVE  /\ dn.num \in Nat /\ dn.block_slots \in Nat /\ dn.extra_slots \in Nat
         /\ dn.nblkptr \in Nat /\ dn.bonus_len \in Nat /\ dn.spill \in BOOLEAN
         /\ DNODE_SIZE \in Nat \ {0} /\ BLKPTR_SIZE \in Nat \ {0} /\ DNODE_HEADER_SIZE \in Nat \ {0}
         /\ DNODE_MAX_SLOTS \in Nat /\ WordSize \in Nat
         /\ bonus_start \in Nat /\ size \in Nat /\ slots \in Nat \ {0}
<1>1. /\ dn.num \in Nat /\ dn.block_slots \in Nat /\ dn.extra_slots \in Nat
      /\ dn.nblkptr \in Nat /\ dn.bonus_len \in Nat /\ dn.spill \in BOOLEAN
  BY SizesAssumption
<1>2. /\ DNODE_SIZE \in Nat \ {0} /\ BLKPTR_SIZE \in Nat \ {0} /\ DNODE_HEADER_SIZE \in Nat \ {0}
      /\ DNODE_MAX_SLOTS \in Nat /\ WordSize \in Nat
  BY SizesAssumption
<1>3. slots \in Nat \ {0}
  BY <1>1 DEF slots
<1>4. size \in Nat
  <2>1. \A a, b \in Nat : a * b \in Nat
    BY Z3
  <2> QED
    BY <1>2, <1>3, <2>1 DEF size
<1>5. bonus_start \in Nat
  <2>1. \A a, b, c \in Nat : c + a * b \in Nat
    BY Z3
  <2> QED
    BY <1>1, <1>2, <2>1 DEF bonus_start
<1> QED
  BY <1>1, <1>2, <1>3, <1>4, <1>5

\* The spill pointer's room at the end of the object's slots.
SpillRoom == IF dn.spill THEN BLKPTR_SIZE ELSE 0

\* A bonus that ends before the spill pointer is the object's own.
LEMMA OwnBonus ==
  ASSUME dn \in Dnodes, bonus_start + dn.bonus_len + SpillRoom <= size,
         dn.extra_slots > 0 => SlotsOk,
         NEW k \in 1 .. dn.bonus_len
  PROVE  LET b == Bonus[k]
         IN  /\ b[1] \in dn.num .. dn.num + dn.extra_slots
             /\ dn.extra_slots > 0 => b[1] \div dn.block_slots = dn.num \div dn.block_slots
             /\ b[1] = dn.num => b[2] >= bonus_start
             /\ b[1] = dn.num + dn.extra_slots /\ dn.spill => b[2] < DNODE_SIZE - BLKPTR_SIZE
<1> DEFINE D == DNODE_SIZE
           p == bonus_start + k - 1
           q == p \div D
           r == p % D
           x == dn.extra_slots
<1>1. /\ dn.num \in Nat /\ dn.block_slots \in Nat /\ x \in Nat /\ dn.bonus_len \in Nat
      /\ D \in Nat \ {0} /\ BLKPTR_SIZE \in Nat \ {0} /\ bonus_start \in Nat /\ size \in Nat
      /\ SpillRoom \in Nat /\ (dn.spill => SpillRoom = BLKPTR_SIZE)
  BY Numbers DEF SpillRoom
<1>2. p \in Nat /\ p >= bonus_start /\ p < size - SpillRoom
  BY <1>1
<1>3. Bonus[k] = <<dn.num + q, r>>
  BY DEF Bonus, ByteOfObject
<1>4. size = x * D + D /\ size = (x + 1) * D /\ x * D \in Nat
  BY <1>1, Distribute DEF size, slots
<1> HIDE DEF p
<1>5. q \in Nat /\ r \in 0 .. D - 1 /\ p = q * D + r
  BY <1>1, <1>2, Divided
<1> HIDE DEF q, r
<1>6. q * D \in Nat
  BY <1>1, <1>5, Distribute
<1>7. q <= x
  <2>1. p < size /\ x + 1 \in Nat
    BY <1>1, <1>2
  <2>2. q <= (x + 1) - 1
    BY <1>1, <1>4, <1>5, <2>1, Rows
  <2> QED
    BY <1>1, <2>2
<1>8. q = 0 => r >= bonus_start
  <2>1. q = 0 => q * D = 0
    BY <1>1
  <2> QED
    BY <1>1, <1>2, <1>5, <2>1
<1>9. q = x /\ dn.spill => r < D - BLKPTR_SIZE
  BY <1>1, <1>2, <1>4, <1>5, <1>6
<1>10. ASSUME x > 0 PROVE (dn.num + q) \div dn.block_slots = dn.num \div dn.block_slots
  <2> DEFINE B == dn.block_slots
             n == dn.num \div B
             m == dn.num % B
  <2>1. B \in Nat \ {0} /\ m + (x + 1) <= B
    BY <1>1, <1>10 DEF SlotsOk, slots
  <2>2. n \in Nat /\ m \in 0 .. B - 1 /\ dn.num = n * B + m
    BY <1>1, <2>1, Divided
  <2> HIDE DEF n, m
  <2>3. n * B \in Nat
    BY <2>1, <2>2, Distribute
  <2>4. dn.num + q \in Nat /\ n * B <= dn.num + q /\ dn.num + q < n * B + B
    BY <1>1, <1>5, <1>7, <2>1, <2>2, <2>3
  <2>5. (dn.num + q) \div B = n
    BY <2>1, <2>2, <2>4, InRow
  <2> QED
    BY <2>5 DEF n
<1> QED
  BY <1>1, <1>3, <1>5, <1>7, <1>8, <1>9, <1>10
-----------------------------------------------------------------------------
\* A dnode that is returned has a bonus in the room for it.
LEMMA OwnReturned ==
  ASSUME dn \in Dnodes, bonus_start + dn.bonus_len + SpillRoom <= size,
         dn.extra_slots > 0 => SlotsOk,
         dnPc' = "done", dnResult' = Ok(ObjectDnode), dn' = dn
  PROVE  BonusIsOwn' /\ WrittenDnodeIsRead'
<1>1. dnResult'.ok /\ dnResult'.val.bonus = Bonus /\ dnResult'.val.nblkptr = dn.nblkptr
  BY DEF Ok, ObjectDnode
<1>2. BonusIsOwn'
  BY <1>1, OwnBonus DEF BonusIsOwn, bonus_start
<1>3. Len(Bonus) = dn.bonus_len
  BY Numbers DEF Bonus
<1>4. WrittenDnodeIsRead'
  BY <1>1, <1>3 DEF WrittenDnodeIsRead
<1> QED
  BY <1>2, <1>4

\* A refusal is that of a failed read or of an object not laid out by ZFS.
LEMMA RefusedDnode ==
  ASSUME NEW kind, NEW token, kind = "Io" \/ ~WrittenDnode,
         dnPc' = "done", dnResult' = Err(kind, token), dn' = dn
  PROVE  BonusIsOwn' /\ WrittenDnodeIsRead'
<1>1. ~dnResult'.ok /\ dnResult'.kind = kind
  BY DEF Err
<1>2. WrittenDnode' <=> WrittenDnode
  BY DEF WrittenDnode, slots, size, bonus_start
<1> QED
  BY <1>1, <1>2 DEF BonusIsOwn, WrittenDnodeIsRead

\* The slots of an object laid out by ZFS are in one block.
LEMMA WrittenSlots ==
  ASSUME dn \in Dnodes, WrittenDnode
  PROVE  SlotsOk
<1> DEFINE B == dn.block_slots
<1>1. PICK b \in 0 .. dn.num : b * B <= dn.num /\ dn.num + slots <= (b + 1) * B
  BY DEF WrittenDnode
<1>2. b \in Nat /\ B \in Nat /\ dn.num \in Nat /\ slots \in Nat \ {0} /\ slots <= DNODE_MAX_SLOTS
  BY Numbers DEF WrittenDnode
<1>3. (b + 1) * B = b * B + B /\ b * B \in Nat
  BY <1>2, Distribute
<1>4. B # 0 /\ dn.num < b * B + B
  <2>1. dn.num + slots <= b * B + B /\ b * B <= dn.num
    BY <1>1, <1>3
  <2> DEFINE m == b * B
  <2>2. m \in Nat /\ dn.num + slots <= m + B /\ m <= dn.num
    BY <1>3, <2>1
  <2> HIDE DEF m
  <2>3. B # 0 /\ dn.num < m + B
    BY <1>2, <2>2
  <2> QED
    BY <2>3 DEF m
<1>5. dn.num % B = dn.num - b * B
  <2>1. B \in Nat \ {0} /\ b * B <= dn.num
    BY <1>1, <1>2, <1>4
  <2> HIDE DEF B
  <2> QED
    BY <1>2, <1>4, <2>1, InRow
<1> HIDE DEF B
<1>6. (dn.num % B) + slots <= B
  BY <1>1, <1>2, <1>3, <1>5
<1> QED
  BY <1>2, <1>4, <1>6 DEF SlotsOk, B

\* What the decoder of one slot says of it.
LEMMA SlotDecoded ==
  ASSUME NEW spill \in BOOLEAN, NEW len
  PROVE  \/ SlotDecodes(spill, len) /\ decode_dnode(spill, len) = Ok(ObjectDnode)
         \/ ~SlotDecodes(spill, len) /\ \E t : decode_dnode(spill, len) = Err("Inconsistent", t)
BY DEF decode_dnode, SlotDecodes

LEMMA ReadFirstStep ==
  ASSUME DnInv, ReadFirst
  PROVE  DnInv'
<1>0. /\ dn \in Dnodes /\ dnPc = "first" /\ dn.num \in Nat /\ dn.extra_slots \in Nat
      /\ dn.spill \in BOOLEAN /\ dn.bonus_len \in Nat /\ bonus_start \in Nat
      /\ DNODE_SIZE \in Nat \ {0} /\ WordSize \in Nat /\ dn.num * DNODE_SIZE \in Nat
      /\ SpillRoom \in Nat
  BY Numbers, Distribute DEF DnInv, ReadFirst, SpillRoom
<1>1. CASE /\ dn.num * DNODE_SIZE >= WordSize
           /\ DnReturn(Err("Inconsistent", "dnode_obj_overflow"))
  <2>1. ~WrittenDnode
    BY <1>0, <1>1 DEF WrittenDnode
  <2> QED
    BY <1>0, <1>1, <2>1, RefusedDnode DEF DnInv, DnReturn
<1>2. CASE dn.extra_slots = 0 /\ DnReturn(decode_dnode(dn.spill, dn.bonus_len))
  <2>1. size = DNODE_SIZE
    BY <1>0, <1>2 DEF size, slots
  <2>2. CASE SlotDecodes(dn.spill, dn.bonus_len)
    <3>1. dnPc' = "done" /\ dnResult' = Ok(ObjectDnode) /\ dn' = dn
      BY <1>0, <1>2, <2>2, SlotDecoded DEF DnReturn
    <3>2. bonus_start + dn.bonus_len + SpillRoom <= size
      <4>1. bonus_start + SpillRoom + dn.bonus_len <= DNODE_SIZE
        BY <2>2 DEF SlotDecodes, SpillRoom
      <4> QED
        BY <1>0, <2>1, <4>1
    <3> QED
      BY <1>0, <1>2, <3>1, <3>2, OwnReturned DEF DnInv
  <2>3. CASE ~SlotDecodes(dn.spill, dn.bonus_len)
    <3>1. PICK t : dnPc' = "done" /\ dnResult' = Err("Inconsistent", t) /\ dn' = dn
      BY <1>0, <1>2, <2>3, SlotDecoded DEF DnReturn
    <3>2. ~WrittenDnode
      <4>1. SUFFICES ASSUME WrittenDnode PROVE FALSE
        OBVIOUS
      <4>2. bonus_start + dn.bonus_len + SpillRoom <= DNODE_SIZE
        BY <2>1, <4>1 DEF WrittenDnode, SpillRoom
      <4>3. bonus_start + SpillRoom + dn.bonus_len <= DNODE_SIZE
        BY <1>0, <4>2
      <4> QED
        BY <2>3, <4>1, <4>3 DEF SlotDecodes, WrittenDnode, SpillRoom
    <3> QED
      BY <1>0, <3>1, <3>2, RefusedDnode DEF DnInv
  <2> QED
    BY <2>2, <2>3
<1>3. CASE /\ dn.num * DNODE_SIZE < WordSize /\ dn.extra_slots # 0
           /\ SlotsOk /\ dnPc' = "full" /\ UNCHANGED <<dn, dnResult>>
  BY <1>0, <1>3 DEF DnInv, SlotsOk, slots, BonusIsOwn, WrittenDnodeIsRead
<1>4. CASE ~SlotsOk /\ DnReturn(Err("Inconsistent", "dnode_slots"))
  <2>1. ~WrittenDnode
    BY <1>0, <1>4, WrittenSlots
  <2> QED
    BY <1>0, <1>4, <2>1, RefusedDnode DEF DnInv, DnReturn
<1> QED
  BY <1>1, <1>2, <1>3, <1>4 DEF ReadFirst

LEMMA ReadFullStep ==
  ASSUME DnInv, ReadFull
  PROVE  DnInv'
<1>0. /\ dn \in Dnodes /\ SlotsOk /\ dn.bonus_len \in Nat /\ bonus_start \in Nat /\ size \in Nat
      /\ SpillRoom \in Nat
  BY Numbers DEF DnInv, ReadFull, SpillRoom
<1>1. CASE BonusOk /\ SlotDecodes(FALSE, 0)
  <2>1. dnPc' = "done" /\ dnResult' = Ok(ObjectDnode) /\ dn' = dn
    BY <1>1, SlotDecoded DEF ReadFull, DnReturn
  <2>2. bonus_start + dn.bonus_len + SpillRoom <= size
    <3>1. bonus_start + dn.bonus_len <= size - SpillRoom
      BY <1>1 DEF BonusOk, bonus_room, SpillRoom
    <3> QED
      BY <1>0, <3>1
  <2> QED
    BY <1>0, <2>1, <2>2, OwnReturned DEF DnInv
<1>2. CASE ~BonusOk
  <2>1. dnPc' = "done" /\ dnResult' = Err("Inconsistent", "dnode_bonus_len") /\ dn' = dn
    BY <1>2 DEF ReadFull, DnReturn
  <2>2. ~WrittenDnode
    <3>1. SUFFICES ASSUME WrittenDnode PROVE FALSE
      OBVIOUS
    <3>2. bonus_start + dn.bonus_len + SpillRoom <= size
      BY <3>1 DEF WrittenDnode, SpillRoom
    <3>3. bonus_start + dn.bonus_len <= size - SpillRoom
      BY <1>0, <3>2
    <3> QED
      BY <1>2, <3>1, <3>3 DEF WrittenDnode, BonusOk, bonus_room, SpillRoom
  <2> QED
    BY <1>0, <2>1, <2>2, RefusedDnode DEF DnInv
<1>3. CASE BonusOk /\ ~SlotDecodes(FALSE, 0)
  <2>1. PICK t : dnPc' = "done" /\ dnResult' = Err("Inconsistent", t) /\ dn' = dn
    BY <1>3, SlotDecoded DEF ReadFull, DnReturn
  <2>2. ~WrittenDnode
    BY <1>0, <1>3, Numbers DEF WrittenDnode, SlotDecodes
  <2> QED
    BY <1>0, <2>1, <2>2, RefusedDnode DEF DnInv
<1> QED
  BY <1>1, <1>2, <1>3
-----------------------------------------------------------------------------
LEMMA DnInvariant == DnSpec => []DnInv
<1>1. DnInit => DnInv
  BY DEF DnInit, DnStart, DnInv, BonusIsOwn, WrittenDnodeIsRead
<1>2. ASSUME DnInv, [DnNext]_dnVars
      PROVE  DnInv'
  <2>1. CASE SlotReadFails
    <3>1. dnPc' = "done" /\ dnResult' = Err("Io", "io_block") /\ dn' = dn
      BY <2>1 DEF SlotReadFails, DnReturn
    <3>2. BonusIsOwn' /\ WrittenDnodeIsRead'
      BY <3>1, RefusedDnode
    <3> QED
      BY <1>2, <3>1, <3>2 DEF DnInv
  <2>2. CASE UNCHANGED dnVars
    <3>1. dn' = dn /\ dnPc' = dnPc /\ dnResult' = dnResult
      BY <2>2 DEF dnVars
    <3>2. SlotsOk' <=> SlotsOk
      BY <3>1 DEF SlotsOk, slots
    <3>3. WrittenDnode' <=> WrittenDnode
      BY <3>1 DEF WrittenDnode, slots, size, bonus_start
    <3>4. BonusIsOwn => BonusIsOwn'
      BY <3>1 DEF BonusIsOwn
    <3>5. WrittenDnodeIsRead => WrittenDnodeIsRead'
      BY <3>1, <3>3 DEF WrittenDnodeIsRead
    <3> QED
      BY <1>2, <3>1, <3>2, <3>4, <3>5 DEF DnInv
  <2> QED
    BY <1>2, <2>1, <2>2, ReadFirstStep, ReadFullStep DEF DnNext
<1> QED
  BY <1>1, <1>2, PTL DEF DnSpec

\* walk.rs read_object ("A large dnode never crosses its dnode block"): a bonus
\* that is returned is the object's own, for every dnode header.
THEOREM BonusAlwaysOwn == DnSpec => []BonusIsOwn
<1>1. DnInv => BonusIsOwn
  BY DEF DnInv
<1> QED
  BY <1>1, DnInvariant, PTL

\* walk.rs read_object: only a failed read keeps an object that ZFS laid out
\* from being returned with its whole bonus.
THEOREM WrittenDnodesRead == DnSpec => []WrittenDnodeIsRead
<1>1. DnInv => WrittenDnodeIsRead
  BY DEF DnInv
<1> QED
  BY <1>1, DnInvariant, PTL
=============================================================================
