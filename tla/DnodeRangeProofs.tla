-------------------------- MODULE DnodeRangeProofs --------------------------
(***************************************************************************)
(* What DnodeRange promises, for every fan-out, number of levels, object   *)
(* and range: the walk stays on the way to the wanted block, and a range   *)
(* that is returned is what the object holds.                              *)
(***************************************************************************)
EXTENDS DnodeRange, TLAPS

(* Division.                                                               *)

\* Quotient and remainder.
LEMMA Division ==
  ASSUME NEW n \in Nat, NEW d \in Nat, d > 0
  PROVE  /\ n \div d \in Nat
         /\ n % d \in 0 .. d - 1
         /\ n = (n \div d) * d + (n % d)
BY Z3

\* Quotient and remainder are unique.
LEMMA Unique ==
  ASSUME NEW n \in Nat, NEW d \in Nat, d > 0, NEW q \in Nat, NEW r \in 0 .. d - 1,
         n = q * d + r
  PROVE  n \div d = q /\ n % d = r
BY Z3

\* Dividing by S * E is dividing by S and then by E.
LEMMA DivideTwice ==
  ASSUME NEW n \in Nat, NEW S \in Nat, S > 0, NEW E \in Nat, E > 0
  PROVE  n \div S = (n \div (S * E)) * E + ((n \div S) % E)
<1> DEFINE q == n \div S
           r == n % S
           a == q \div E
           c == q % E
<1>1. q \in Nat /\ r \in 0 .. S - 1 /\ n = q * S + r
  BY Division
<1>2. a \in Nat /\ c \in 0 .. E - 1 /\ q = a * E + c
  BY <1>1, Division
<1> HIDE DEF q, r, a, c
<1>3. S * E \in Nat /\ S * E > 0
  BY Z3
<1>4. c * S + r \in 0 .. (S * E) - 1
  <2>1. c * S <= (E - 1) * S
    BY <1>2, Z3
  <2>2. (E - 1) * S = S * E - S
    BY Z3
  <2>3. c * S \in Nat
    BY <1>2, Z3
  <2> QED
    BY <1>1, <1>3, <2>1, <2>2, <2>3
<1>5. n = a * (S * E) + (c * S + r)
  BY <1>1, <1>2, Z3
<1>6. n \div (S * E) = a
  BY <1>2, <1>3, <1>4, <1>5, Unique
<1> QED
  BY <1>2, <1>6 DEF q, c

\* A block's bytes: k bytes further on, still in the block.
LEMMA SameBlock ==
  ASSUME NEW p \in Nat, NEW d \in Nat, d > 0, NEW k \in Nat, (p % d) + k < d
  PROVE  (p + k) \div d = p \div d /\ (p + k) % d = (p % d) + k
<1>1. p \div d \in Nat /\ p % d \in 0 .. d - 1 /\ p = (p \div d) * d + (p % d)
  BY Division
<1>2. p + k = (p \div d) * d + ((p % d) + k) /\ (p % d) + k \in 0 .. d - 1
  BY <1>1, (p \div d) * d \in Nat
<1> QED
  BY <1>1, <1>2, Unique
-----------------------------------------------------------------------------
(* The invariant.                                                          *)

InputOK == obj \in Objects /\ req \in Requests /\ Rooted
\* The walk never follows a hole.
OnPresent == pc = "walk" => ~Null(at.level, at.index)
\* What is done of the buffer is the object's, the rest is zero.
FilledOk ==
  pc \in {"block", "walk"} =>
    /\ out = [k \in 0 .. req.len - 1 |-> out[k]]
    /\ \A k \in 0 .. filled - 1 : out[k] = Byte(req.off + k)
    /\ \A k \in filled .. req.len - 1 : out[k] = Zero
Inv == TypeOK /\ InputOK /\ OnTheWay /\ OnPresent /\ FilledOk /\ RangeIsObject

\* The fields of a dnode and of a request are numbers.
LEMMA Inputs ==
  ASSUME InputOK
  PROVE  /\ obj.levels \in Nat /\ obj.indirect_block_shift \in Nat
         /\ obj.nptrs \in Nat /\ obj.dbsz \in Nat
         /\ obj.data \subseteq Nat
         /\ obj.levels = 0 => obj.data = {}
         /\ req.off \in Nat /\ req.len \in Nat
         /\ epb_shift \in Nat
BY InputsAssumption DEF InputOK, epb_shift

\* read_dnode_block's shifts: the spans of the levels.
LEMMA Spans ==
  ASSUME InputOK, HeaderOk, NEW l \in 0 .. DN_MAX_LEVELS
  PROVE  /\ Span(l) \in Nat /\ Span(l) > 0
         /\ Span(1) \in Nat /\ Span(1) > 0
         /\ Span(l + 1) = Span(l) * Span(1)
         /\ Span(0) = 1
<1> DEFINE s == epb_shift
<1>1. s \in 0 .. WordBits - 1
  BY Inputs, ShiftAssumption DEF HeaderOk, ShiftOk
<1> HIDE DEF s
<1>2. /\ 2 ^ (s * l) \in Nat \ {0}
      /\ 2 ^ (s * (l + 1)) = 2 ^ (s * l) * 2 ^ s
      /\ 2 ^ (s * 0) = 1
  BY <1>1, ShiftAssumption
<1>3. s * 1 = s /\ 1 \in 0 .. DN_MAX_LEVELS
  BY <1>1, ShiftAssumption
<1>4. 2 ^ (s * 1) \in Nat \ {0}
  BY <1>1, <1>3, ShiftAssumption
<1> QED
  BY <1>2, <1>3, <1>4 DEF s, Span

\* The loop variables of read_dnode_range while a block is being read.
LEMMA Loop ==
  ASSUME InputOK, obj.dbsz > 0, filled \in Nat, filled < req.len
  PROVE  /\ pos \in Nat /\ blkid \in Nat /\ within \in 0 .. obj.dbsz - 1
         /\ want \in Nat /\ want > 0
         /\ filled + want <= req.len
         /\ within + want <= obj.dbsz
<1>1. pos \in Nat
  BY Inputs DEF pos
<1>2. blkid \in Nat /\ within \in 0 .. obj.dbsz - 1
  BY <1>1, Inputs, Division DEF blkid, within
<1> QED
  BY <1>1, <1>2, Inputs DEF want

\* The bytes of the block that are wanted.
LEMMA BlockBytes ==
  ASSUME InputOK, obj.dbsz > 0, filled \in Nat, filled < req.len,
         NEW k \in filled .. filled + want - 1
  PROVE  Byte(req.off + k) = IF blkid \in obj.data
                             THEN <<blkid, within + (k - filled)>> ELSE Zero
<1>1. /\ pos \in Nat /\ within \in 0 .. obj.dbsz - 1 /\ want \in Nat
      /\ within + want <= obj.dbsz /\ obj.dbsz \in Nat /\ req.off \in Nat
  BY Loop, Inputs
<1>2. k - filled \in Nat /\ within + (k - filled) < obj.dbsz
  BY <1>1
<1>3. (pos + (k - filled)) \div obj.dbsz = pos \div obj.dbsz
      /\ (pos + (k - filled)) % obj.dbsz = (pos % obj.dbsz) + (k - filled)
  <2> DEFINE p == pos
             d == obj.dbsz
             r == k - filled
  <2>1. p \in Nat /\ d \in Nat /\ d > 0 /\ r \in Nat /\ (p % d) + r < d
    BY <1>1, <1>2 DEF within
  <2> HIDE DEF p, d, r
  <2>2. (p + r) \div d = p \div d /\ (p + r) % d = (p % d) + r
    BY <2>1, SameBlock
  <2> QED  BY <2>2 DEF p, d, r
<1>4. pos + (k - filled) = req.off + k
  BY <1>1 DEF pos
<1> QED
  BY <1>3, <1>4 DEF Byte, blkid, within

\* A walk below a hole would be on the way to a block without data.
LEMMA NullIsHole ==
  ASSUME NEW l, NEW i, Null(l, i), Covers(l, i, blkid)
  PROVE  blkid \notin obj.data
BY DEF Null, Present, Covers

-----------------------------------------------------------------------------
(* One step.                                                               *)

\* No step changes the object or the request.
LEMMA InputKept == ASSUME Next PROVE UNCHANGED input
BY DEF Next, Start, Finish, RangeOverflow, BadHeader, TopHole, Descend,
       ReadFails, Follow, Copy, input

\* Passing over a block without data.
LEMMA SkipStep ==
  ASSUME Inv, UNCHANGED input, Skip, pc \in {"block", "walk"}, filled < req.len,
         blkid \notin obj.data
  PROVE  Inv'
<1>1. /\ pc' = "block" /\ filled' = filled + want /\ out' = out /\ at' = at
      /\ obj' = obj /\ req' = req
  BY DEF Skip, input
<1>2. InputOK /\ obj.dbsz > 0 /\ filled \in Nat /\ req.len \in Nat
  BY Inputs DEF Inv, TypeOK
<1>3. want \in Nat /\ want > 0 /\ filled + want <= req.len
  BY <1>2, Loop
<1>4. TypeOK'
  BY <1>1, <1>2, <1>3 DEF Inv, TypeOK
<1>5. InputOK'
  BY <1>1, <1>2 DEF InputOK, Rooted, HeaderOk, ShiftOk, epb_shift, Span
<1>6. \A k \in filled .. filled + want - 1 : Byte(req.off + k) = Zero
  BY <1>2, BlockBytes
<1>7. \A k : Byte(k)' = Byte(k)
  BY <1>1 DEF Byte
<1>8. \A k \in filled .. filled + want - 1 : out[k] = Zero
  BY <1>2, <1>3 DEF Inv, FilledOk
<1>9. FilledOk'
  <2>1. \A k \in 0 .. (filled + want) - 1 : out[k] = Byte(req.off + k)
    <3> SUFFICES ASSUME NEW k \in 0 .. (filled + want) - 1
                 PROVE  out[k] = Byte(req.off + k)
      OBVIOUS
    <3>1. CASE k < filled
      BY <3>1, <1>2, <1>3 DEF Inv, FilledOk
    <3>2. CASE k >= filled
      BY <3>2, <1>2, <1>3, <1>6, <1>8
    <3> QED
      BY <3>1, <3>2, <1>2, <1>3
  <2>2. \A k \in filled + want .. req.len - 1 : out[k] = Zero
    BY <1>2, <1>3 DEF Inv, FilledOk
  <2> QED
    BY <1>1, <1>7, <2>1, <2>2 DEF FilledOk, Inv
<1> QED
  BY <1>1, <1>4, <1>5, <1>9 DEF Inv, OnTheWay, OnPresent, RangeIsObject

\* An error.
LEMMA FailStep ==
  ASSUME Inv, UNCHANGED input, NEW kind, NEW token, Fail(Err(kind, token))
  PROVE  Inv'
<1>1. /\ pc' = "done" /\ filled' = filled /\ out' = out /\ at' = at
      /\ obj' = obj /\ req' = req /\ result'.ok = FALSE
  BY DEF Fail, input, Err
<1>2. TypeOK'
  BY <1>1 DEF Inv, TypeOK
<1>3. InputOK'
  BY <1>1 DEF Inv, InputOK, Rooted, HeaderOk, ShiftOk, epb_shift, Span
<1> QED
  BY <1>1, <1>2, <1>3 DEF Inv, OnTheWay, OnPresent, FilledOk, RangeIsObject

\* Reading the block at `at` next, on the way to the wanted block.
LEMMA WalkStep ==
  ASSUME Inv, UNCHANGED <<obj, req, filled, out, result>>, pc' = "walk",
         pc \in {"block", "walk"}, filled < req.len, InWord, HeaderOk,
         NEW l \in 0 .. DN_MAX_LEVELS - 1, NEW i \in Nat,
         at' = [level |-> l, index |-> i],
         Covers(l, i, blkid), ~Null(l, i)
  PROVE  Inv'
<1>1. TypeOK'
  BY DEF Inv, TypeOK, InWord, pos, HeaderOk, ShiftOk, epb_shift
<1>2. InputOK'
  BY DEF Inv, InputOK, Rooted, HeaderOk, ShiftOk, epb_shift, Span
<1>3. at'.level = l /\ at'.index = i
  OBVIOUS
<1>4. OnTheWay'
  BY <1>3 DEF OnTheWay, Covers, Span, epb_shift, blkid, pos
<1>5. OnPresent'
  BY <1>3 DEF OnPresent, Null, Present, Span, epb_shift
<1>6. FilledOk'
  BY DEF Inv, FilledOk, Byte
<1> QED
  BY <1>1, <1>2, <1>4, <1>5, <1>6 DEF Inv, RangeIsObject

\* read_dnode_range's start: the size check and the zeroed buffer.
LEMMA StartInv == ASSUME Inv, UNCHANGED input, Start PROVE Inv'
<1>1. CASE obj.dbsz = 0
  BY <1>1, FailStep DEF Start
<1>2. CASE obj.dbsz # 0
  <2>1. /\ pc = "start" /\ pc' = "block" /\ filled' = filled /\ at' = at
        /\ out' = [k \in 0 .. req.len - 1 |-> Zero]
        /\ obj' = obj /\ req' = req
    BY <1>2 DEF Start, input
  <2>2. req.len \in Nat /\ obj.dbsz \in Nat /\ filled \in 0 .. req.len
    BY Inputs DEF Inv, TypeOK
  <2>3. filled = 0
    BY <2>1 DEF Inv, TypeOK
  <2>4. TypeOK'
    BY <1>2, <2>1, <2>2, <2>3 DEF Inv, TypeOK
  <2>5. InputOK'
    BY <2>1 DEF Inv, InputOK, Rooted, HeaderOk, ShiftOk, epb_shift, Span
  <2>6. FilledOk'
    BY <2>1, <2>2, <2>3 DEF FilledOk
  <2> QED
    BY <2>1, <2>4, <2>5, <2>6 DEF Inv, OnTheWay, OnPresent, RangeIsObject
<1> QED
  BY <1>1, <1>2

\* The loop's end: the whole buffer is the object's.
LEMMA FinishInv == ASSUME Inv, UNCHANGED input, Finish PROVE Inv'
<1>1. /\ pc = "block" /\ pc' = "done" /\ filled' = filled /\ at' = at /\ out' = out
      /\ obj' = obj /\ req' = req /\ result' = [ok |-> TRUE, val |-> out]
      /\ filled >= req.len
  BY DEF Finish, input, Ok
<1>2. TypeOK'
  BY <1>1 DEF Inv, TypeOK
<1>3. InputOK'
  BY <1>1 DEF Inv, InputOK, Rooted, HeaderOk, ShiftOk, epb_shift, Span
<1>4. filled = req.len /\ req.len \in Nat
  BY <1>1, Inputs DEF Inv, TypeOK
<1>5. out = [k \in 0 .. req.len - 1 |-> Byte(req.off + k)]
  BY <1>1, <1>4 DEF Inv, FilledOk
<1>6. RangeIsObject'
  BY <1>1, <1>5 DEF RangeIsObject, Byte
<1> QED
  BY <1>1, <1>2, <1>3, <1>6 DEF Inv, OnTheWay, OnPresent, FilledOk

\* A hole at the top: no block of the object's data is passed over.
LEMMA TopHoleInv == ASSUME Inv, UNCHANGED input, TopHole PROVE Inv'
<1>1. InputOK /\ pc = "block" /\ filled < req.len /\ Skip
  BY DEF Inv, TopHole, InLoop
<1>2. CASE obj.levels = 0
  BY <1>1, <1>2, Inputs, SkipStep
<1>3. CASE HeaderOk /\ top_idx >= obj.nptrs
  <2>1. blkid \in obj.data => top_idx < obj.nptrs
    BY <1>1, <1>3 DEF InputOK, Rooted, top_idx
  <2>2. top_idx \in Nat /\ obj.nptrs \in Nat
    <3>1. obj.levels - 1 \in 0 .. DN_MAX_LEVELS
      BY <1>3, ShiftAssumption DEF HeaderOk
    <3>2. Span(obj.levels - 1) \in Nat /\ Span(obj.levels - 1) > 0
      BY <1>1, <1>3, <3>1, Spans
    <3>3. blkid \in Nat
      BY <1>1, Loop DEF Inv, TypeOK
    <3> QED
      BY <1>1, <3>2, <3>3, Division, Inputs DEF top_idx
  <2> QED
    BY <1>1, <1>3, <2>1, <2>2, SkipStep
<1>4. CASE HeaderOk /\ Null(obj.levels - 1, top_idx)
  <2>1. blkid \notin obj.data
    BY <1>4, NullIsHole DEF Covers, top_idx
  <2> QED
    BY <1>1, <2>1, SkipStep
<1> QED
  BY <1>2, <1>3, <1>4 DEF TopHole

\* The first block of the walk covers the wanted block.
LEMMA DescendInv == ASSUME Inv, UNCHANGED input, Descend PROVE Inv'
<1>1. /\ InputOK /\ pc = "block" /\ filled < req.len /\ InWord /\ HeaderOk
      /\ pc' = "walk" /\ at' = [level |-> obj.levels - 1, index |-> top_idx]
      /\ ~Null(obj.levels - 1, top_idx)
      /\ UNCHANGED <<obj, req, filled, out, result>>
  BY DEF Inv, Descend, InLoop, input
<1>2. obj.levels - 1 \in 0 .. DN_MAX_LEVELS - 1
  BY <1>1, ShiftAssumption DEF HeaderOk
<1>3. top_idx \in Nat
  <2>1. Span(obj.levels - 1) \in Nat /\ Span(obj.levels - 1) > 0
    BY <1>1, <1>2, ShiftAssumption, Spans
  <2>2. blkid \in Nat
    BY <1>1, Loop DEF Inv, TypeOK
  <2> QED
    BY <2>1, <2>2, Division DEF top_idx
<1>4. Covers(obj.levels - 1, top_idx, blkid)
  BY DEF Covers, top_idx
<1> QED
  BY <1>1, <1>2, <1>3, <1>4, WalkStep

\* One level down: the entry leads to the block that covers the wanted block.
LEMMA FollowInv == ASSUME Inv, UNCHANGED input, Follow PROVE Inv'
<1> DEFINE l == at.level - 1
           c == at.index * Span(1) + entry(blkid, at.level)
<1>1. /\ InputOK /\ pc = "walk" /\ filled < req.len /\ InWord /\ HeaderOk
      /\ obj.dbsz > 0 /\ filled \in Nat
      /\ at.level \in 0 .. DN_MAX_LEVELS - 1 /\ at.level > 0 /\ at.index \in Nat
      /\ Covers(at.level, at.index, blkid)
      /\ obj' = obj /\ req' = req
  BY DEF Inv, TypeOK, Follow, Readable, OnTheWay, input
<1>2. l \in 0 .. DN_MAX_LEVELS - 1 /\ l + 1 = at.level /\ l \in 0 .. DN_MAX_LEVELS
  BY <1>1, ShiftAssumption
<1>3. blkid \in Nat
  BY <1>1, Loop
<1>4. Covers(l, c, blkid) /\ c \in Nat
  <2> HIDE DEF l
  <2>1. /\ Span(l) \in Nat /\ Span(l) > 0 /\ Span(1) \in Nat /\ Span(1) > 0
        /\ Span(at.level) = Span(l) * Span(1)
    BY <1>1, <1>2, Spans
  <2>2. blkid \div Span(l) = (blkid \div (Span(l) * Span(1))) * Span(1)
                             + ((blkid \div Span(l)) % Span(1))
    BY <1>3, <2>1, DivideTwice
  <2>3. entry(blkid, at.level) = (blkid \div Span(l)) % Span(1)
    BY DEF entry, l
  <2>4. blkid \div Span(l) = c
    BY <1>1, <2>1, <2>2, <2>3 DEF Covers
  <2>5. blkid \div Span(l) \in Nat
    BY <1>3, <2>1, Division
  <2> QED
    BY <2>4, <2>5 DEF Covers
<1>5. Child[1] = l /\ Child[2] = c
  BY DEF Child
<1> HIDE DEF l, c
<1>6. CASE Fail(Err("Inconsistent", "indirect_oob"))
  BY <1>6, FailStep
<1>7. CASE Fail(Err("Inconsistent", "indirect_bp_decode"))
  BY <1>7, FailStep
<1>8. CASE Null(Child[1], Child[2]) /\ Skip
  <2>1. blkid \notin obj.data
    BY <1>4, <1>5, <1>8, NullIsHole
  <2> QED
    BY <1>1, <1>8, <2>1, SkipStep
<1>9. CASE /\ ~Null(Child[1], Child[2])
           /\ at' = [level |-> Child[1], index |-> Child[2]]
           /\ UNCHANGED <<pc, filled, out, result>>
  <2>1. pc' = "walk" /\ at' = [level |-> l, index |-> c] /\ ~Null(l, c)
        /\ UNCHANGED <<obj, req, filled, out, result>>
    BY <1>1, <1>5, <1>9
  <2> QED
    BY <1>1, <1>2, <1>4, <2>1, WalkStep
<1> QED
  BY <1>6, <1>7, <1>8, <1>9 DEF Follow

\* The bytes that are copied are the object's.
LEMMA CopyInv == ASSUME Inv, UNCHANGED input, Copy PROVE Inv'
<1>1. CASE Fail(Err("Inconsistent", "block_short"))
  BY <1>1, FailStep
<1>2. CASE /\ pc' = "block"
           /\ out' = [k \in 0 .. req.len - 1 |->
                        IF k \in filled .. filled + want - 1
                        THEN <<at.index, within + (k - filled)>> ELSE out[k]]
           /\ filled' = filled + want
           /\ UNCHANGED <<at, result>>
  <2>1. /\ InputOK /\ pc = "walk" /\ filled < req.len /\ HeaderOk
        /\ obj.dbsz > 0 /\ filled \in Nat /\ at.level = 0 /\ at.index \in Nat
        /\ Covers(0, at.index, blkid) /\ ~Null(0, at.index)
        /\ <<0, at.index>> \notin obj.freed
        /\ obj' = obj /\ req' = req
    BY DEF Inv, TypeOK, Copy, Readable, Here, OnTheWay, OnPresent, input
  <2>2. /\ want \in Nat /\ want > 0 /\ filled + want <= req.len
        /\ blkid \in Nat /\ req.len \in Nat /\ obj.data \subseteq Nat
    BY <2>1, Loop, Inputs
  <2>3. Span(0) = 1
    BY <2>1, ShiftAssumption, Spans
  <2>4. at.index = blkid
    BY <2>1, <2>2, <2>3 DEF Covers
  <2>5. blkid \in obj.data
    BY <2>1, <2>2, <2>3, <2>4 DEF Null, Present
  <2>6. \A k \in filled .. filled + want - 1 :
          Byte(req.off + k) = <<blkid, within + (k - filled)>>
    BY <2>1, <2>5, BlockBytes
  <2>7. TypeOK'
    BY <1>2, <2>1, <2>2 DEF Inv, TypeOK
  <2>8. InputOK'
    BY <2>1 DEF InputOK, Rooted, HeaderOk, ShiftOk, epb_shift, Span
  <2>9. \A k : Byte(k)' = Byte(k)
    BY <2>1 DEF Byte
  <2>10. FilledOk'
    <3>1. \A k \in 0 .. filled - 1 : out[k] = Byte(req.off + k)
      BY <2>1 DEF Inv, FilledOk
    <3>2. \A k \in filled .. req.len - 1 : out[k] = Zero
      BY <2>1 DEF Inv, FilledOk
    <3>3. \A k \in 0 .. (filled + want) - 1 : out'[k] = Byte(req.off + k)
      <4> SUFFICES ASSUME NEW k \in 0 .. (filled + want) - 1
                   PROVE  out'[k] = Byte(req.off + k)
        OBVIOUS
      <4>1. CASE k < filled
        BY <1>2, <2>1, <2>2, <3>1, <4>1
      <4>2. CASE k >= filled
        <5>1. k \in filled .. filled + want - 1 /\ k \in 0 .. req.len - 1
          BY <2>1, <2>2, <4>2
        <5>2. Byte(req.off + k) = <<blkid, within + (k - filled)>>
          BY <2>6, <5>1
        <5> QED  BY <1>2, <2>1, <2>2, <2>4, <5>1, <5>2
      <4> QED
        BY <4>1, <4>2, <2>1, <2>2
    <3>4. \A k \in filled + want .. req.len - 1 : out'[k] = Zero
      BY <1>2, <2>1, <2>2, <3>2
    <3>5. out' = [k \in 0 .. req.len - 1 |-> out'[k]]
      BY <1>2
    <3> QED
      BY <1>2, <2>1, <2>9, <3>3, <3>4, <3>5 DEF FilledOk
  <2> QED
    BY <1>2, <2>7, <2>8, <2>10 DEF Inv, OnTheWay, OnPresent, RangeIsObject
<1> QED
  BY <1>1, <1>2 DEF Copy

-----------------------------------------------------------------------------
\* Every reachable state satisfies the invariant.
THEOREM Invariance == Spec => []Inv
<1>1. Init => Inv
  <2> SUFFICES ASSUME Init PROVE Inv
    OBVIOUS
  <2>1. InputOK
    BY DEF Init, InputOK
  <2>2. TypeOK
    BY <2>1, Inputs, ShiftAssumption DEF Init, TypeOK, NoBlock
  <2> QED
    BY <2>1, <2>2 DEF Init, Inv, OnTheWay, OnPresent, FilledOk, RangeIsObject
<1>2. Inv /\ [Next]_vars => Inv'
  <2>1. ASSUME Inv, Next PROVE Inv'
    <3>1. UNCHANGED input
      BY <2>1, InputKept
    <3>2. CASE Start
      BY <2>1, <3>1, <3>2, StartInv
    <3>3. CASE Finish
      BY <2>1, <3>1, <3>3, FinishInv
    <3>4. CASE RangeOverflow
      BY <2>1, <3>1, <3>4, FailStep DEF RangeOverflow
    <3>5. CASE BadHeader
      BY <2>1, <3>1, <3>5, FailStep DEF BadHeader, HeaderError
    <3>6. CASE TopHole
      BY <2>1, <3>1, <3>6, TopHoleInv
    <3>7. CASE Descend
      BY <2>1, <3>1, <3>7, DescendInv
    <3>8. CASE ReadFails
      BY <2>1, <3>1, <3>8, FailStep DEF ReadFails
    <3>9. CASE Follow
      BY <2>1, <3>1, <3>9, FollowInv
    <3>10. CASE Copy
      BY <2>1, <3>1, <3>10, CopyInv
    <3> QED
      BY <2>1, <3>2, <3>3, <3>4, <3>5, <3>6, <3>7, <3>8, <3>9, <3>10 DEF Next
  <2>2. ASSUME Inv, UNCHANGED vars PROVE Inv'
    <3> USE <2>2 DEF vars, Inv
    <3>1. TypeOK'
      BY DEF TypeOK, HeaderOk, ShiftOk, epb_shift, InWord, pos
    <3>2. InputOK'
      BY DEF InputOK, Rooted, HeaderOk, ShiftOk, epb_shift, Span
    <3>3. OnTheWay'
      BY DEF OnTheWay, Covers, Span, epb_shift, blkid, pos
    <3>4. OnPresent'
      BY DEF OnPresent, Null, Present, Span, epb_shift
    <3>5. FilledOk' /\ RangeIsObject'
      BY DEF FilledOk, RangeIsObject, Byte
    <3> QED  BY <3>1, <3>2, <3>3, <3>4, <3>5
  <2> QED
    BY <2>1, <2>2
<1> QED
  BY <1>1, <1>2, PTL DEF Spec

\* The state of a read_dnode_range call keeps its type: the buffer has the length
\* asked for and is never overfilled, and a walk has a legal level.
THEOREM TypeCorrect == Spec => []TypeOK
<1>1. Inv => TypeOK
  BY DEF Inv
<1> QED
  BY <1>1, Invariance, PTL

\* read_dnode_block's descent is always at the block of its level that covers the
\* wanted block, for every fan-out and every number of levels.
THEOREM WalkOnTheWay == Spec => []OnTheWay
<1>1. Inv => OnTheWay
  BY DEF Inv
<1> QED
  BY <1>1, Invariance, PTL

\* A range read_dnode_range returns is byte for byte what the object holds, with
\* zeros for its holes.
THEOREM RangeRead == Spec => []RangeIsObject
<1>1. Inv => RangeIsObject
  BY DEF Inv
<1> QED
  BY <1>1, Invariance, PTL
=============================================================================
