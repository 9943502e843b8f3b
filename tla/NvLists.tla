------------------------------ MODULE NvLists -------------------------------
(***************************************************************************)
(* phys/nv.rs: name-value lists in XDR, the configuration of a label.  A   *)
(* program iterates over a list, goes into the lists nested in it and over *)
(* its arrays.  Nothing is copied: a nested list or array is a window of   *)
(* the same data.  XDR data is a sequence of words of four bytes; offsets  *)
(* count words, the sizes stored in the data bytes.  A name or string of   *)
(* up to four bytes is one word.  All errors of a pair are one: find and   *)
(* every loop over a list stop at the first.                               *)
(***************************************************************************)
EXTENDS Integers, Sequences

CONSTANTS Docs,      \* [header, words, tree, hurt]: the data, the list that was
                     \* encoded and the word that was damaged (NoWord: none)
          NoWord,
          NotText,   \* words that are not the text of a string
          MaxResets

VARIABLES doc,
          parent,    \* the window the list was found in
          list,      \* the list iterated over, a window
          off,       \* the offset of its iterator
          got,       \* the pairs it returned
          node,      \* the encoded list it should be, known in undamaged data
          arr,       \* the iterator of the array that was last returned
          resets, nvPc

nvVars == <<doc, parent, list, off, got, node, arr, resets, nvPc>>

Types == [Boolean |-> 1, Byte |-> 2, Int16 |-> 3, Uint16 |-> 4, Int32 |-> 5, Uint32 |-> 6, Int64 |-> 7,
  Uint64 |-> 8, String |-> 9, ByteArray |-> 10, Int16Array |-> 11, Uint16Array |-> 12, Int32Array |-> 13,
  Uint32Array |-> 14, Int64Array |-> 15, Uint64Array |-> 16, StringArray |-> 17, HrTime |-> 18,
  NvList |-> 19, NvListArray |-> 20, BooleanValue |-> 21, Int8 |-> 22, Uint8 |-> 23, BooleanArray |-> 24,
  Int8Array |-> 25, Uint8Array |-> 26, Double |-> 27]
Codes(names) == {Types[x] : x \in names}
\* How the value is laid out.
Wide == Codes({"Int64", "Uint64", "HrTime", "Double"})
Single == Codes({"Byte", "Int16", "Uint16", "Int32", "Uint32", "BooleanValue", "Int8", "Uint8"})
Text == Codes({"String", "ByteArray"})
WideArray == Codes({"Int64Array", "Uint64Array"})
is_fixed_width_array == WideArray \cup Codes({"BooleanArray", "Int8Array", "Uint8Array",
  "Int16Array", "Uint16Array", "Int32Array", "Uint32Array"})
ToTheEnd == Codes({"StringArray", "NvList", "NvListArray"})
Arrays == is_fixed_width_array \cup Codes({"StringArray", "NvListArray"})
\* The largest word a narrow number may be: XDR gives them all 32 bits.
Largest(type) ==
  CASE type \in Codes({"BooleanValue", "BooleanArray"}) -> 1
    [] type \in Codes({"Byte", "Uint8", "Uint8Array"}) -> 255
    [] type \in Codes({"Int8", "Int8Array"}) -> 127
    [] type \in Codes({"Int16", "Int16Array"}) -> 32767
    [] type \in Codes({"Uint16", "Uint16Array"}) -> 65535
    [] OTHER -> 2147483647

Word(o) == doc.words[o + 1]
WordsOf(o, n) == SubSeq(doc.words, o + 1, o + n)
TextWords(bytes) == (bytes + 3) \div 4
Window(lo, hi) == [lo |-> lo, hi |-> hi]
Within(w, v) == v.lo <= w.lo /\ w.lo <= w.hi /\ w.hi <= v.hi
-----------------------------------------------------------------------------
\* from_partial: the version and the flags in front of a list.
Flags == 0..2
from_partial(w) ==
  IF w.hi - w.lo >= 2 /\ Word(w.lo) = 0 /\ Word(w.lo + 1) \in Flags
  THEN [ok |-> TRUE, list |-> Window(w.lo + 2, w.hi)]
  ELSE [ok |-> FALSE, list |-> Window(w.lo, w.lo)]

\* check_data_type_count_and_get_array_size: Boolean has no value, arrays any
\* number of them.
check_count(type, count) ==
  CASE type = Types.Boolean -> count = 0
    [] type \in Arrays \cup {Types.ByteArray} -> TRUE
    [] OTHER -> count = 1

\* The words of a value at v, if rem bytes of the pair are left.
ValueWords(type, count, v, rem) ==
  CASE type = Types.Boolean -> 0
    [] type \in Single -> 1
    [] type \in Wide -> 2
    [] type \in Text -> 1 + TextWords(Word(v))
    [] type \in WideArray -> 1 + 2 * count
    [] type \in is_fixed_width_array \ WideArray -> 1 + count
    [] type \in ToTheEnd -> rem \div 4

AtEnd(l, o) == o = l.hi \/ (l.hi - o >= 2 /\ Word(o) = 0 /\ Word(o + 1) = 0)
AfterEnd(l, o) == IF o = l.hi THEN o ELSE o + 2

\* next_pair_result at offset o of list l, where the list does not end:
\* sizes, name, type, count and value, which take the size that is stored.
NameWords(o) == TextWords(Word(o + 2))
NameFits(l, o) == o + 3 <= l.hi /\ Word(o + 2) <= 4 * (l.hi - o)
TypeAt(o) == o + 3 + NameWords(o)
ValueAt(o) == TypeAt(o) + 2
Rem(o) == Word(o) - 4 * (ValueAt(o) - o)
ValueOk(l, o) ==
  LET type == Word(TypeAt(o))
      count == Word(TypeAt(o) + 1)
      v == ValueAt(o)
      n == ValueWords(type, count, v, Rem(o))
  IN /\ type \in Single \cup Text \cup is_fixed_width_array => v < l.hi
     /\ type \in ToTheEnd => Rem(o) % 4 = 0
     /\ v + n <= l.hi
     /\ type \in Single => Word(v) <= Largest(type)
     /\ type = Types.String => \A i \in 1..(n - 1) : Word(v + i) \notin NotText
     /\ type \in is_fixed_width_array => Word(v) = count
     /\ type = Types.NvList => from_partial(Window(v, v + n)).ok
     /\ Word(o) = 4 * (v + n - o)
PairOk(l, o) ==
  /\ l.hi - o >= 3
  /\ NameFits(l, o) /\ ValueAt(o) <= l.hi
  /\ \A i \in 1..NameWords(o) : Word(o + 2 + i) \notin NotText
  /\ Word(TypeAt(o)) \in 1..27
  /\ Rem(o) >= 0
  /\ check_count(Word(TypeAt(o)), Word(TypeAt(o) + 1))
  /\ ValueOk(l, o)

\* Mutants of PairAt: a nested list as long as its whole pair; elements that
\* start at the count in front of them.
PairAt_WholeSize(o) ==
  LET type == Word(TypeAt(o))
      count == Word(TypeAt(o) + 1)
      v == ValueAt(o)
      n == ValueWords(type, count, v, Rem(o))
  IN [name |-> WordsOf(o + 2, 1 + NameWords(o)), type |-> type, count |-> count,
      at |-> Window(v, IF type \in ToTheEnd THEN v + (Word(o) \div 4) ELSE v + n), end |-> v + n]
PairAt_NoPrefix(o) ==
  LET type == Word(TypeAt(o))
      count == Word(TypeAt(o) + 1)
      v == ValueAt(o)
      n == ValueWords(type, count, v, Rem(o))
  IN [name |-> WordsOf(o + 2, 1 + NameWords(o)), type |-> type, count |-> count,
      at |-> Window(v, v + n), end |-> v + n]
\* The pair: its name, and its value as a window, for arrays without the count
\* in front of the elements.
PairAt(o) ==
  LET type == Word(TypeAt(o))
      count == Word(TypeAt(o) + 1)
      v == ValueAt(o)
      n == ValueWords(type, count, v, Rem(o))
      skip == IF type \in is_fixed_width_array THEN 1 ELSE 0
  IN [name |-> WordsOf(o + 2, 1 + NameWords(o)), type |-> type, count |-> count,
      at |-> Window(v + skip, v + n), end |-> v + n]

\* What iterating from the start to the first error or the end gives.
Walk(l) ==
  LET from[o \in l.lo..l.hi] ==
        IF AtEnd(l, o) THEN [ok |-> TRUE, pairs |-> <<>>, end |-> AfterEnd(l, o)]
        ELSE IF ~PairOk(l, o) THEN [ok |-> FALSE, pairs |-> <<>>, end |-> o]
        ELSE LET rest == from[PairAt(o).end] IN [rest EXCEPT !.pairs = <<PairAt(o)>> \o @]
  IN from[l.lo]
-----------------------------------------------------------------------------
NoArray == [type |-> 0, at |-> Window(0, 0), count |-> 0, index |-> 0, off |-> 0,
            elems |-> <<>>, failed |-> FALSE, clean |-> TRUE]
All == Window(0, Len(doc.words))
Known(t) == [known |-> TRUE, pairs |-> t]
Unknown == [known |-> FALSE, pairs |-> <<>>]
NvInit ==
  /\ doc \in Docs
  /\ list = Window(0, 0) /\ parent = Window(0, 0) /\ off = 0 /\ got = <<>>
  /\ node = Known(doc.tree) /\ arr = NoArray /\ resets = 0 /\ nvPc = "bytes"

\* NvList::iter.
Iterate(l, p) == list' = l /\ parent' = p /\ off' = l.lo /\ got' = <<>> /\ arr' = NoArray

\* Encoding XDR, an endian order, which XDR ignores, and two reserved bytes.
HeaderOk == doc.header.encoding = "Xdr" /\ doc.header.endian \in {"Big", "Little"} /\ doc.header.reserved = 0
from_bytes ==
  /\ nvPc = "bytes"
  /\ LET p == from_partial(All)
     IN IF HeaderOk /\ p.ok
        THEN Iterate(p.list, All) /\ nvPc' = "iter"
        ELSE nvPc' = "failed" /\ UNCHANGED <<list, parent, off, got, arr>>
  /\ UNCHANGED <<doc, node, resets>>

\* Mutants of next: a pair too small for its name is passed over by its size;
\* nested lists are checked to their end.
next_SkipsBad ==
  /\ nvPc = "iter"
  /\ IF AtEnd(list, off)
     THEN nvPc' = "end" /\ off' = AfterEnd(list, off) /\ UNCHANGED got
     ELSE IF PairOk(list, off)
     THEN got' = Append(got, PairAt(off)) /\ off' = PairAt(off).end /\ UNCHANGED nvPc
     ELSE IF Word(off) >= 4 /\ NameFits(list, off) /\ Rem(off) < 0 /\ off + (Word(off) \div 4) <= list.hi
     THEN /\ got' = Append(got, [name |-> <<>>, type |-> 0, count |-> 0, at |-> Window(off, off), end |-> off + (Word(off) \div 4)])
          /\ off' = off + (Word(off) \div 4) /\ UNCHANGED nvPc
     ELSE nvPc' = "failed" /\ UNCHANGED <<off, got>>
  /\ UNCHANGED <<doc, parent, list, node, arr, resets>>
next_Deep ==
  /\ nvPc = "iter"
  /\ IF AtEnd(list, off)
     THEN nvPc' = "end" /\ off' = AfterEnd(list, off) /\ UNCHANGED got
     ELSE IF PairOk(list, off)
             /\ (PairAt(off).type = Types.NvList => Walk(from_partial(PairAt(off).at).list).ok)
     THEN got' = Append(got, PairAt(off)) /\ off' = PairAt(off).end /\ UNCHANGED nvPc
     ELSE nvPc' = "failed" /\ UNCHANGED <<off, got>>
  /\ UNCHANGED <<doc, parent, list, node, arr, resets>>
next ==
  /\ nvPc = "iter"
  /\ IF AtEnd(list, off)
     THEN nvPc' = "end" /\ off' = AfterEnd(list, off) /\ UNCHANGED <<got, arr>>
     ELSE IF PairOk(list, off)
     THEN LET p == PairAt(off)
          IN /\ got' = Append(got, p) /\ off' = p.end /\ UNCHANGED nvPc
             /\ arr' = IF p.type \in Arrays
                       THEN [NoArray EXCEPT !.type = p.type, !.at = p.at, !.count = p.count, !.off = p.at.lo]
                       ELSE NoArray
     ELSE nvPc' = "failed" /\ UNCHANGED <<off, got, arr>>
  /\ UNCHANGED <<doc, parent, list, node, resets>>

\* NvListIterator::reset.
reset ==
  /\ nvPc \in {"iter", "end"} /\ resets < MaxResets
  /\ off' = list.lo /\ got' = <<>> /\ arr' = NoArray /\ nvPc' = "iter" /\ resets' = resets + 1
  /\ UNCHANGED <<doc, parent, list, node>>

\* The program takes the nested list it was given last.
enter ==
  /\ nvPc = "iter" /\ got # <<>> /\ got[Len(got)].type = Types.NvList
  /\ Iterate(from_partial(got[Len(got)].at).list, got[Len(got)].at)
  /\ node' = IF doc.hurt = NoWord /\ node.known THEN Known(node.pairs[Len(got)].val) ELSE Unknown
  /\ UNCHANGED <<doc, resets, nvPc>>

\* NvArrayIterator::next of numbers and strings: the elements follow each
\* other.  The program stops at an error (failed), as nv_child_guids does.
ElementWords ==
  IF arr.type \in WideArray THEN 2
  ELSE IF arr.type = Types.StringArray /\ arr.off < arr.at.hi THEN 1 + TextWords(Word(arr.off)) ELSE 1
ElementOk ==
  /\ arr.off + ElementWords <= arr.at.hi
  /\ arr.type = Types.StringArray => \A i \in 1..(ElementWords - 1) : Word(arr.off + i) \notin NotText
  /\ arr.type \in is_fixed_width_array \ WideArray => Word(arr.off) <= Largest(arr.type)
array_next ==
  /\ nvPc = "iter" /\ arr.type \in Arrays \ {Types.NvListArray}
  /\ arr.index < arr.count /\ ~arr.failed
  /\ arr' = IF ElementOk
            THEN [arr EXCEPT !.index = @ + 1, !.off = @ + ElementWords,
                             !.elems = Append(@, WordsOf(arr.off, ElementWords))]
            ELSE [arr EXCEPT !.failed = TRUE]
  /\ UNCHANGED <<doc, parent, list, off, got, node, resets, nvPc>>

\* NvArrayIterator::next of lists: the element is iterated over to find where
\* it ends.
ListElement(at) ==
  LET p == from_partial(at)
      w == Walk(p.list)
  IN IF p.ok /\ w.ok THEN [ok |-> TRUE, at |-> Window(at.lo, w.end)] ELSE [ok |-> FALSE, at |-> at]
array_next_list ==
  /\ nvPc = "iter" /\ arr.type = Types.NvListArray /\ arr.index < arr.count /\ ~arr.failed
  /\ LET e == ListElement(Window(arr.off, arr.at.hi))
     IN arr' = IF e.ok THEN [arr EXCEPT !.index = @ + 1, !.off = e.at.hi, !.elems = Append(@, e.at)]
               ELSE [arr EXCEPT !.failed = TRUE]
  /\ UNCHANGED <<doc, parent, list, off, got, node, resets, nvPc>>
\* NvArrayIterator::reset sets the index alone: the decoder stays where it is.
array_reset ==
  /\ nvPc = "iter" /\ arr.index > 0 /\ ~arr.failed /\ resets < MaxResets
  /\ arr' = [arr EXCEPT !.index = 0, !.elems = <<>>, !.clean = FALSE]
  /\ resets' = resets + 1
  /\ UNCHANGED <<doc, parent, list, off, got, node, nvPc>>
\* The program takes the element it was given last.
enter_element ==
  /\ nvPc = "iter" /\ arr.type = Types.NvListArray /\ arr.elems # <<>>
  /\ LET e == arr.elems[Len(arr.elems)]
     IN /\ Iterate(from_partial(e).list, e)
        /\ node' = IF doc.hurt = NoWord /\ node.known /\ arr.clean
                   THEN Known(node.pairs[Len(got)].val[arr.index]) ELSE Unknown
  /\ UNCHANGED <<doc, resets, nvPc>>

NvNext ==
  \/ from_bytes \/ next \/ reset \/ enter
  \/ array_next \/ array_next_list \/ array_reset \/ enter_element
-----------------------------------------------------------------------------
\* nv.rs from_bytes_clamped windows: whatever the sizes in the data say, the
\* iterator stays in its list, every list or array that is handed out lies in
\* the pair it was found in, that in its list and that in the data.
WindowsNest ==
  nvPc \in {"iter", "end"} =>
    /\ Within(list, parent) /\ Within(parent, All)
    /\ list.lo <= off /\ off <= list.hi
    /\ \A i \in DOMAIN got : Within(got[i].at, Window(list.lo, got[i].end)) /\ got[i].end <= off
    /\ arr # NoArray => Within(arr.at, list) /\ arr.at.lo <= arr.off /\ arr.off <= arr.at.hi
    /\ \A i \in DOMAIN arr.elems : arr.type = Types.NvListArray  => Within(arr.elems[i], arr.at)

\* The value of a pair as it was encoded: <<>> for what is gone into.
Scalar(p) == IF p.type \in ToTheEnd \cup is_fixed_width_array THEN <<>>
             ELSE WordsOf(p.at.lo, p.at.hi - p.at.lo)
Same(p, t) == p.name = t.name /\ p.type = t.type
              /\ (p.type \notin ToTheEnd \cup is_fixed_width_array => Scalar(p) = t.val)
              /\ (p.type \in Arrays => p.count = Len(t.val))

\* nv.rs NvListIterator, NvArrayIterator: undamaged data is read as the list
\* that was encoded: every pair in order with its name, type and value, at
\* every depth and again after a reset, and every element of its arrays.
ReadsTheTree ==
  doc.hurt = NoWord /\ HeaderOk /\ nvPc # "bytes" =>
    /\ nvPc # "failed"
    /\ node.known /\ arr.clean =>
         /\ Len(got) <= Len(node.pairs)
         /\ \A i \in DOMAIN got : Same(got[i], node.pairs[i])
         /\ nvPc = "end" => Len(got) = Len(node.pairs)
         /\ arr.type \in Arrays \ {Types.NvListArray} => \A i \in DOMAIN arr.elems : arr.elems[i] = node.pairs[Len(got)].val[i]
         /\ ~arr.failed

\* nv.rs next_pair_result: a pair that is returned moves the iterator on by
\* its sizes, name length, type and count at least, so that no data, whatever
\* its sizes say, keeps a loop over a list going.
PairsAdvance ==
  [][nvPc = "iter" /\ list' = list /\ Len(got') > Len(got) => off' >= off + 5]_nvVars

\* nv.rs next_pair_result (skip of a nested list by the size of its pair):
\* damage inside a nested list or array of lists, behind its version and
\* flags, changes nothing of the list around it: that is read to its end with
\* all its pairs.  Damage elsewhere leaves the pairs in front of it as they
\* were.
Lists == Codes({"NvList", "NvListArray"})
Holds(p) == p.type \in Lists /\ p.at.lo + 2 <= doc.hurt /\ doc.hurt < p.at.hi
FailedOnNested == /\ NameFits(list, off) /\ ValueAt(off) + 2 <= doc.hurt
                  /\ Word(TypeAt(off)) \in Lists /\ doc.hurt < off + (Word(off) \div 4)
DamageContained ==
  doc.hurt # NoWord /\ HeaderOk /\ parent = All =>
    /\ \A i \in DOMAIN got : got[i].end <= doc.hurt \/ Holds(got[i])
                             => i <= Len(doc.tree) /\ Same(got[i], doc.tree[i])
    /\ nvPc = "failed" => ~FailedOnNested
    /\ nvPc = "end" /\ (\E i \in DOMAIN got : Holds(got[i]))
         => Len(got) = Len(doc.tree) /\ \A i \in DOMAIN got : Same(got[i], doc.tree[i])
=============================================================================
