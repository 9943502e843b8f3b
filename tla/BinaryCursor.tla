---------------------------- MODULE BinaryCursor ----------------------------
(***************************************************************************)
(* phys/binary.rs: the encoders and decoders of big endian, little endian  *)
(* and XDR data.  An encoder writes some values into a buffer; a decoder   *)
(* over all or part of what was written is then told to read, skip, rewind *)
(* and seek, in any order.  Numbers and bytes are as in module Wire.       *)
(***************************************************************************)
EXTENDS Wire

CONSTANTS Capacity,  \* bytes of the buffer
          Puts,      \* [op, v, n]: calls of the encoder, n the bytes of a string
          Counts,    \* arguments of skip, rewind, seek, get_bytes_n, ...
          MaxPuts, MaxGets

VARIABLES format,    \* "Big", "Little" or "Xdr"
          buf, at,   \* the encoder: bits of the buffer, offset
          script,    \* what it wrote
          lo, hi,    \* the decoder: min_offset, max_offset
          off,       \*   and offset
          last,      \* its last result
          next,      \* the entry of the script to read, 0 once it leaves the script
          clean,     \* no call of it has failed
          mark,      \* an offset() the caller keeps
          gets, cursorPc

cursorVars == <<format, buf, at, script, lo, hi, off, last, next, clean, mark, gets, cursorPc>>
encoder == <<buf, at, script>>

Formats == {"Big", "Little", "Xdr"}
OrderOf(f) == IF f = "Little" THEN "Little" ELSE "Big"
ALIGNMENT == 4
Padding(n) == (ALIGNMENT - (n % ALIGNMENT)) % ALIGNMENT
Numbers == {"bool", "u8", "i8", "u16", "i16", "u32", "u64"}
NativeSize == [bool |-> 4, u8 |-> 1, i8 |-> 1, u16 |-> 2, i16 |-> 2, u32 |-> 4, u64 |-> 8]
SizeOn(f, op) == IF f = "Xdr" /\ NativeSize[op] < ALIGNMENT THEN ALIGNMENT ELSE NativeSize[op]

\* Mutant: the sign is lost on the way to 32 bits.
Extended_Unsigned(f, op, v) == v
\* XDR has no numbers under 32 bits: signed ones are sign extended, and u8 too.
Extended(f, op, v) ==
  IF f = "Xdr" /\ op \in {"u8", "i8", "i16"} /\ 8 * NativeSize[op] - 1 \in v
  THEN v \cup ((8 * NativeSize[op])..31) ELSE v

\* The writes of a call in turn, each of n bytes.
Piece(n, bits) == [n |-> n, bits |-> bits]
Word(f, op, v) ==
  Piece(SizeOn(f, op), put_uint(OrderOf(f), 0, SizeOn(f, op), Extended(f, op, v)))
produce_padding(f, n) == IF f = "Xdr" /\ Padding(n) > 0 THEN <<Piece(Padding(n), {})>> ELSE <<>>
Pieces(f, p) ==
  CASE p.op \in Numbers -> <<Word(f, p.op, p.v)>>
    [] p.op = "zeros" -> <<Piece(p.n, {})>>
    [] p.op \in {"bytes_n", "str_n"} -> <<Piece(p.n, p.v)>> \o produce_padding(f, p.n)
    [] p.op = "str" /\ f # "Xdr" -> <<Piece(p.n, p.v), Piece(1, {})>>
    [] p.op \in {"str", "bytes"} /\ f = "Xdr" ->
         <<Word(f, "u32", BitsOf(p.n)), Piece(p.n, p.v)>> \o produce_padding(f, p.n)
EndsOf(w) == [k \in 0..Len(w) |->
  LET sum[i \in 0..k] == IF i = 0 THEN 0 ELSE sum[i - 1] + w[i].n IN sum[k]]
-----------------------------------------------------------------------------
NoDecoder ==
  /\ lo = 0 /\ hi = 0 /\ off = 0 /\ last = Ok({}) /\ next = 1 /\ clean = TRUE /\ mark = 0 /\ gets = 0
CursorInit ==
  /\ format \in Formats /\ cursorPc = "put" /\ script = <<>>
  /\ buf = {b \in 0..(8 * Capacity - 1) : b % 8 = 7}   \* what the buffer held before
  /\ at = 0
  /\ NoDecoder

\* check_need of each piece in turn: one that does not fit ends the call.
put(p) ==
  /\ cursorPc = "put" /\ Len(script) < MaxPuts
  /\ p.op = "bytes" => format = "Xdr"      \* NotSupported otherwise
  /\ LET w == Pieces(format, p)
         ends == EndsOf(w)
         fit == {k \in 0..Len(w) : at + ends[k] <= Capacity}
         done == CHOOSE k \in fit : \A j \in fit : j <= k
         old == {b \in buf : ~(8 * at <= b /\ b < 8 * (at + ends[done]))}
     IN /\ buf' = old \cup UNION {put_bytes(at + ends[k - 1], w[k].bits) : k \in 1..done}
        /\ at' = at + ends[done]
        /\ script' = IF done = Len(w) THEN Append(script, p) ELSE script
        /\ cursorPc' = IF done = Len(w) THEN "put" ELSE "refused"
  /\ UNCHANGED <<format, lo, hi, off, last, next, clean, mark, gets>>

\* from_bytes_clamped over what finish returns.
from_bytes_clamped(offset, length) ==
  /\ cursorPc = "put" /\ script # <<>>
  /\ LET refused == offset > at \/ at - offset < length
     IN /\ cursorPc' = IF refused THEN "refused" ELSE "get"
        /\ lo' = offset /\ off' = offset /\ mark' = offset
        /\ hi' = offset + length
        /\ next' = IF offset = 0 /\ length = at THEN 1 ELSE 0
        /\ last' = Ok({}) /\ clean' = TRUE /\ gets' = 0
  /\ UNCHANGED <<format, buf, at, script>>
-----------------------------------------------------------------------------
\* A call of the decoder ends at offset o with result r.
Got(o, r) ==
  /\ cursorPc = "get" /\ gets < MaxGets
  /\ off' = o /\ last' = r /\ clean' = (clean /\ r.ok) /\ gets' = gets + 1
  /\ UNCHANGED <<format, encoder, lo, hi, cursorPc>>
Elsewhere == next' = 0 /\ UNCHANGED mark
\* The script is followed as long as each read is that of its next entry.
Follows(op, lengths) ==
  /\ next' = IF next \in DOMAIN script /\ script[next].op = op /\ script[next].n \in lengths
             THEN next + 1 ELSE 0
  /\ UNCHANGED mark

Left == hi - off
check_need(n) == Left >= n
Bytes(n) == get_bytes(buf, off, n)
Misaligned(n) == format = "Xdr" /\ n % ALIGNMENT # 0

skip(n) ==
  /\ IF Misaligned(n) THEN Got(off, Err("SkipAlignment"))
     ELSE IF check_need(n) THEN Got(off + n, Ok({})) ELSE Got(off, Err("EndOfInput"))
  /\ Elsewhere
\* The offset is past the bytes also when they are not zero.
skip_zeros(n) ==
  /\ IF Misaligned(n) THEN Got(off, Err("SkipAlignment"))
     ELSE IF ~check_need(n) THEN Got(off, Err("EndOfInput"))
     ELSE Got(off + n, IF Bytes(n) = {} THEN Ok({}) ELSE Err("NonZero"))
  /\ Follows("zeros", {n})
\* It is rolled back here: the answer is no.
is_skip_zeros(n) ==
  /\ IF Misaligned(n) THEN Got(off, Err("SkipAlignment"))
     ELSE IF ~check_need(n) THEN Got(off, Err("EndOfInput"))
     ELSE IF Bytes(n) = {} THEN Got(off + n, Ok({0})) ELSE Got(off, Ok({}))
  /\ Elsewhere
\* Mutant: rewind only stops at the start of the buffer, not of the window.
rewind_ToStart(n) ==
  /\ IF Misaligned(n) THEN Got(off, Err("RewindAlignment"))
     ELSE IF n > off THEN Got(off, Err("RewindPastStart")) ELSE Got(off - n, Ok({}))
  /\ Elsewhere
rewind(n) ==
  /\ IF Misaligned(n) THEN Got(off, Err("RewindAlignment"))
     ELSE IF n > off \/ off - n < lo THEN Got(off, Err("RewindPastStart")) ELSE Got(off - n, Ok({}))
  /\ Elsewhere
seek(o) ==
  /\ IF Misaligned(o) THEN Got(off, Err("SeekAlignment"))
     ELSE IF o < lo THEN Got(off, Err("SeekPastStart"))
     ELSE IF o > hi THEN Got(off, Err("SeekPastEnd")) ELSE Got(o, Ok({}))
  /\ Elsewhere
reset == Got(lo, Ok({})) /\ Elsewhere
offset == Got(off, Ok({})) /\ next' = 0 /\ mark' = off

Converted(op, w) ==
  CASE op = "bool" -> IF w \in {{}, {0}} THEN Ok(w) ELSE Err("InvalidBoolean")
    [] op = "i8" /\ format = "Xdr" ->
         IF Field(w, 7, 25) \in {{}, 0..24} THEN Ok(Field(w, 0, 8)) ELSE Err("I32toI8Conversion")
    [] op = "i16" /\ format = "Xdr" ->
         IF Field(w, 15, 17) \in {{}, 0..16} THEN Ok(Field(w, 0, 16)) ELSE Err("I32toI16Conversion")
    [] op = "u8" /\ format = "Xdr" ->
         IF Fits(w, 8) \/ Field(w, 7, 25) = 0..24 THEN Ok(Field(w, 0, 8)) ELSE Err("U32toU8Conversion")
    [] op = "u16" /\ format = "Xdr" ->
         IF Fits(w, 16) THEN Ok(w) ELSE Err("U32toU16Conversion")
    [] OTHER -> Ok(w)
get_number(op) ==
  /\ LET n == SizeOn(format, op)
     IN IF check_need(n)
        THEN Got(off + n, Converted(op, get_uint(OrderOf(format), buf, off, n)))
        ELSE Got(off, Err("EndOfInput"))
  /\ Follows(op, {0})

\* Mutant: the padding stays unread.
Taken_Unpadded(o, n, utf8) ==
  LET bits == get_bytes(buf, o, n)
  IN IF hi - o < n THEN Got(o, Err("EndOfInput"))
     ELSE IF utf8 /\ ~Utf8(bits, n) THEN Got(o, Err("InvalidStr")) ELSE Got(o + n, Ok(bits))
\* n bytes at offset o (a string if utf8 says so) and the padding after them.
Taken(o, n, utf8) ==
  LET bits == get_bytes(buf, o, n)
      pad == IF format = "Xdr" THEN Padding(n) ELSE 0
  IN IF hi - o < n THEN Got(o, Err("EndOfInput"))
     ELSE IF utf8 /\ ~Utf8(bits, n) THEN Got(o, Err("InvalidStr"))
     ELSE IF hi - o < n + pad THEN Got(o + n, Err("EndOfInput"))
     ELSE Got(o + n + pad, IF get_bytes(buf, o + n, pad) = {} THEN Ok(bits) ELSE Err("NonZero"))
get_bytes_n(n) == Taken(off, n, FALSE) /\ Follows("bytes_n", {n})
get_str_n(n) == Taken(off, n, TRUE) /\ Follows("str_n", {n})

\* XDR: a length and that many bytes.
WithLength(utf8) ==
  IF ~check_need(4) THEN Got(off, Err("EndOfInput"))
  ELSE LET w == get_uint("Big", buf, off, 4)
       IN IF Fits(w, 30) THEN Taken(off + 4, ValueOf(w), utf8) ELSE Got(off + 4, Err("EndOfInput"))
get_bytes_xdr ==
  /\ IF format = "Xdr" THEN WithLength(FALSE) ELSE Got(off, Err("NotSupported"))
  /\ Follows("bytes", 0..Capacity)
\* Big and little endian: up to the next NUL, which is consumed.
get_str_null ==
  LET nul == {i \in off..(hi - 1) : ByteAt(buf, i) = {}}
      end == CHOOSE i \in nul : \A j \in nul : i <= j
  IN /\ format # "Xdr"
     /\ IF nul = {} THEN Got(off, Err("MissingNull"))
        ELSE IF ~Utf8(Bytes(end - off), end - off) THEN Got(off, Err("InvalidStr"))
        ELSE Got(end + 1, Ok(Bytes(end - off)))
     /\ Follows("str", 0..Capacity)
get_str_xdr == format = "Xdr" /\ WithLength(TRUE) /\ Follows("str", 0..Capacity)

CursorNext ==
  \/ \E p \in Puts : put(p)
  \/ \E o \in Counts \cup {0} : \E n \in Counts \cup {at} : from_bytes_clamped(o, n)
  \/ \E n \in Counts : \/ skip(n) \/ skip_zeros(n) \/ is_skip_zeros(n) \/ rewind(n)
                       \/ get_bytes_n(n) \/ get_str_n(n)
  \/ \E o \in Counts \cup {mark} : seek(o)
  \/ reset \/ offset
  \/ \E op \in Numbers : get_number(op)
  \/ get_bytes_xdr \/ get_str_null \/ get_str_xdr
-----------------------------------------------------------------------------
\* binary.rs BinaryDecoderBuffer, BinaryEncoderBuffer: no call, in any order
\* and whether it fails or not, leaves the window of the buffer.
CursorTypeOK ==
  /\ at \in 0..Capacity /\ buf \subseteq 0..(8 * Capacity - 1)
  /\ cursorPc = "get" => lo <= off /\ off <= hi /\ hi <= at /\ lo <= mark /\ mark <= hi

\* binary.rs: values read in the order they were written, each by the call
\* of its kind, are the values written, and the last ends where they end;
\* numbers below 32 bits, strings and padding included, in all three formats.
ReadsTheScript ==
  cursorPc = "get" /\ next > 1 =>
    /\ next - 1 = gets => last = Ok(script[next - 1].v)
    /\ next - 1 = gets /\ gets = Len(script) => off = hi

\* binary.rs XdrDecoder: as long as no call failed the offset is a multiple
\* of four, whatever the lengths that were read, so that the next number is
\* read where it was written.  The window has to start at one: seek checks
\* the absolute offset, skip and rewind the distance.
XdrAligned ==
  cursorPc = "get" /\ format = "Xdr" /\ lo % ALIGNMENT = 0 /\ clean => off % ALIGNMENT = 0

=============================================================================
