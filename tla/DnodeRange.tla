----------------------------- MODULE DnodeRange -----------------------------
(***************************************************************************)
(* file.rs: read_dnode_range fills a byte range of an object block by      *)
(* block, and read_dnode_block finds each block by walking the dnode's     *)
(* tree of indirect blocks.                                                *)
(*                                                                         *)
(* A block of the tree is named by its level and its index at that level,  *)
(* <<l, i>>; data blocks are level 0.  The block pointers are read through *)
(* vdev.rs read_block_pointer, which returns what was written or an error. *)
(***************************************************************************)
EXTENDS Integers, Outcome

CONSTANTS DN_MAX_LEVELS,
          WordBits,    \* width of u64
          Objects,     \* the objects to read, with their damage
          Requests     \* byte ranges: off and len

\* Shifts by whole levels: 2^(s * (l + 1)) blocks are 2^s times 2^(s * l).
ASSUME ShiftAssumption ==
  /\ DN_MAX_LEVELS \in Nat \ {0}
  /\ WordBits \in Nat \ {0}
  /\ \A s \in 0 .. WordBits - 1, l \in 0 .. DN_MAX_LEVELS :
       /\ 2 ^ (s * l) \in Nat \ {0}
       /\ 2 ^ (s * (l + 1)) = 2 ^ (s * l) * 2 ^ s
       /\ 2 ^ (s * 0) = 1

\* The dnodes the program can hold, and trees that have room for their data.
ASSUME InputsAssumption ==
  /\ \A o \in Objects :
       /\ {o.levels, o.indirect_block_shift, o.nptrs, o.dbsz} \subseteq Nat
       /\ o.data \subseteq Nat
       /\ o.levels = 0 => o.data = {}
  /\ \A r \in Requests : {r.off, r.len} \subseteq Nat

VARIABLES obj,     \* the dnode and the tree under it
          req,     \* the range asked for
          pc,
          filled,  \* bytes of the range done
          out,     \* the buffer
          at,      \* the block the walk reads next
          result

input == <<obj, req>>
vars == <<obj, req, pc, filled, out, at, result>>

Zero == <<>>               \* a zero byte; other bytes are <<block, position>>
NoBlock == [level |-> 0, index |-> 0]

\* The writer's tree: data is the set of block ids that have data, freed the
\* blocks whose pointer is a hole that keeps its birth txg, lost the blocks
\* that cannot be read, garbled those whose pointer does not decode, and cut
\* those that are one unit long.
epb_shift == IF obj.indirect_block_shift > 7 THEN obj.indirect_block_shift - 7 ELSE 0
Span(l) == 2 ^ (epb_shift * l)
Present(l, i) == \E b \in obj.data : b \div Span(l) = i
Null(l, i) == ~Present(l, i) /\ <<l, i>> \notin obj.freed
Covers(l, i, b) == b \div Span(l) = i

\* The header checks of read_dnode_block.
ShiftOk == epb_shift * (obj.levels - 1) < WordBits /\ epb_shift < WordBits
HeaderOk == obj.levels \in 1 .. DN_MAX_LEVELS /\ ShiftOk
HeaderError ==
  Err("Inconsistent", IF obj.levels > DN_MAX_LEVELS THEN "dnode_levels" ELSE "dnode_indshift")

\* Slip: the entry number is not masked.
entry_Unmasked(b, l) == b \div Span(l - 1)
\* The entry of a level-l indirect block on the way to block b.
entry(b, l) == (b \div Span(l - 1)) % Span(1)

\* The block the loop of read_dnode_range is at.
pos == req.off + filled
blkid == pos \div obj.dbsz
within_Start == 0   \* slip
within == pos % obj.dbsz
want == IF obj.dbsz - within < req.len - filled THEN obj.dbsz - within
        ELSE req.len - filled
top_idx_Shallow == blkid \div Span(obj.levels)   \* slip
top_idx == blkid \div Span(obj.levels - 1)
-----------------------------------------------------------------------------
Fail(e) == /\ pc' = "done"
           /\ result' = e
           /\ UNCHANGED <<filled, out, at>>

Start ==
  /\ pc = "start"
  /\ IF obj.dbsz = 0
     THEN Fail(Err("Inconsistent", "dnode_dbsz0"))
     ELSE /\ pc' = "block"
          /\ out' = [k \in 0 .. req.len - 1 |-> Zero]
          /\ UNCHANGED <<filled, at, result>>
  /\ UNCHANGED input

Finish ==
  /\ pc = "block"
  /\ filled >= req.len
  /\ pc' = "done"
  /\ result' = Ok(out)
  /\ UNCHANGED <<filled, out, at, input>>

\* Slip: a hole is not counted as done.
Skip_Stuck == /\ pc' = "block"
              /\ UNCHANGED <<filled, out, at, result>>
\* A hole: the buffer is zero already.
Skip == /\ pc' = "block"
        /\ filled' = filled + want
        /\ UNCHANGED <<out, at, result>>

\* The part of a block's turn before anything is read.
InWord == pos < 2 ^ WordBits
InLoop == pc = "block" /\ filled < req.len

RangeOverflow ==
  /\ InLoop
  /\ ~InWord
  /\ Fail(Err("Inconsistent", "range_overflow"))
  /\ UNCHANGED input

BadHeader ==
  /\ InLoop /\ InWord
  /\ obj.levels # 0
  /\ ~HeaderOk
  /\ Fail(HeaderError)
  /\ UNCHANGED input

\* An object without levels, a block beyond the dnode's pointers, or a hole
\* among them.
TopHole ==
  /\ InLoop /\ InWord
  /\ \/ obj.levels = 0
     \/ HeaderOk /\ (top_idx >= obj.nptrs \/ Null(obj.levels - 1, top_idx))
  /\ Skip
  /\ UNCHANGED input

Descend ==
  /\ InLoop /\ InWord
  /\ HeaderOk
  /\ top_idx < obj.nptrs /\ ~Null(obj.levels - 1, top_idx)
  /\ pc' = "walk"
  /\ at' = [level |-> obj.levels - 1, index |-> top_idx]
  /\ UNCHANGED <<filled, out, result, input>>

\* read_block_pointer fails: no copy, or a pointer without any DVA.
Here == <<at.level, at.index>>
ReadFails ==
  /\ pc = "walk"
  /\ \/ Here \in obj.lost /\ Fail(Err("Io", "io_block"))
     \/ Here \in obj.freed /\ Fail(Err("Inconsistent", "bp_no_readable_copy"))
  /\ UNCHANGED input

\* An indirect block was read: its entry names the block one level down.
Readable == pc = "walk" /\ Here \notin obj.lost \cup obj.freed
Child == <<at.level - 1, at.index * Span(1) + entry(blkid, at.level)>>
Follow ==
  /\ Readable
  /\ at.level > 0
  /\ LET idx == entry(blkid, at.level)
         entries == IF Here \in obj.cut THEN 1 ELSE Span(1)
     IN  \/ idx >= entries /\ Fail(Err("Inconsistent", "indirect_oob"))
         \/ /\ idx < entries
            /\ Child \in obj.garbled
            /\ Fail(Err("Inconsistent", "indirect_bp_decode"))
         \/ /\ idx < entries
            /\ Child \notin obj.garbled
            /\ IF Null(Child[1], Child[2])
               THEN Skip
               ELSE /\ at' = [level |-> Child[1], index |-> Child[2]]
                    /\ UNCHANGED <<pc, filled, out, result>>
  /\ UNCHANGED input

\* A data block was read: the part that is wanted is copied.
Copy ==
  /\ Readable
  /\ at.level = 0
  /\ LET size == IF Here \in obj.cut THEN 1 ELSE obj.dbsz
     IN  IF within + want > size
         THEN Fail(Err("Inconsistent", "block_short"))
         ELSE /\ pc' = "block"
              /\ out' = [k \in 0 .. req.len - 1 |->
                           IF k \in filled .. filled + want - 1
                           THEN <<at.index, within + (k - filled)>> ELSE out[k]]
              /\ filled' = filled + want
              /\ UNCHANGED <<at, result>>
  /\ UNCHANGED input

\* The dnode's pointers reach every block that has data.
Rooted == HeaderOk => \A b \in obj.data : b \div Span(obj.levels - 1) < obj.nptrs

Init ==
  /\ obj \in Objects
  /\ req \in Requests
  /\ Rooted
  /\ pc = "start"
  /\ filled = 0
  /\ out = <<>>
  /\ at = NoBlock
  /\ result = <<>>

Next == \/ Start \/ Finish \/ RangeOverflow \/ BadHeader \/ TopHole
        \/ Descend \/ ReadFails \/ Follow \/ Copy

Spec == Init /\ [][Next]_vars
FairSpec == Spec /\ WF_vars(Next)
-----------------------------------------------------------------------------
TypeOK ==
  /\ pc \in {"start", "block", "walk", "done"}
  /\ filled \in 0 .. req.len
  /\ pc = "start" => filled = 0
  /\ pc \in {"block", "walk"} => obj.dbsz > 0 /\ DOMAIN out = 0 .. req.len - 1
  /\ pc = "walk" => filled < req.len /\ InWord /\ HeaderOk
  /\ at.level \in 0 .. DN_MAX_LEVELS - 1 /\ at.index \in Nat

\* What the object holds at byte p.
Byte(p) == IF p \div obj.dbsz \in obj.data THEN <<p \div obj.dbsz, p % obj.dbsz>> ELSE Zero

\* file.rs read_dnode_block: the walk is always at the one block of its level
\* that covers the wanted block, whatever the fan-out and the number of levels.
OnTheWay == pc = "walk" => Covers(at.level, at.index, blkid)

\* file.rs read_dnode_range ("spanning blocks and zero-filling holes"): a range
\* that is returned is byte for byte what the object holds there, zeros for its
\* holes, across block boundaries and at the end of the tree.
RangeIsObject ==
  pc = "done" /\ result.ok => result.val = [k \in 0 .. req.len - 1 |-> Byte(req.off + k)]

\* Blocks the range touches, and the damage on the way to them.
Touched == {(req.off + k) \div obj.dbsz : k \in 0 .. req.len - 1}
DamagedFor(b) ==
  \E x \in obj.lost \cup obj.freed \cup obj.garbled \cup obj.cut : Covers(x[1], x[2], b)
LegalHeader == obj.dbsz > 0 /\ (obj.levels = 0 \/ HeaderOk)

\* file.rs read_dnode_block, read_dnode_range: a sound dnode's range is refused
\* only if it runs past the last offset or a block on the way to one of the
\* blocks it touches is damaged; damage elsewhere in the object does no harm.
OnlyDamageRefuses ==
  pc = "done" /\ ~result.ok /\ LegalHeader =>
    \/ req.off + req.len > 2 ^ WordBits
    \/ \E b \in Touched : DamagedFor(b)

\* file.rs DN_MAX_LEVELS ("bounds the descent loop"): every read returns.
ReadReturns == <>(pc = "done")

\* lib.rs read ("a hole reads as zeros") and pool.rs READ_FEATURES_UNDERSTOOD
\* ("Formats it reads: ... hole birth"): when nothing is damaged the range of a
\* sound dnode is returned, holes included.
HolesReadAsZeros ==
  pc = "done" /\ LegalHeader /\ req.off + req.len <= 2 ^ WordBits
  /\ obj.lost \cup obj.garbled \cup obj.cut = {} => result.ok
=============================================================================
