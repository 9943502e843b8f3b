--------------------------- MODULE MCBinaryCursor ---------------------------
(***************************************************************************)
(* Two values of every kind in a buffer of 12 bytes, then three calls.     *)
(***************************************************************************)
EXTENDS BinaryCursor
P(op, v, n) == [op |-> op, v |-> v, n |-> n]
a == {0, 5, 6}
MCPuts ==
  {P("bool", {0}, 0), P("u8", {0, 7}, 0), P("u8", {3}, 0), P("i8", {1, 7}, 0), P("u16", {2, 15}, 0),
   P("i16", {15}, 0), P("i16", {7}, 0), P("u32", {0, 8, 31}, 0), P("u64", {63}, 0), P("zeros", {}, 4),
   P("bytes_n", {0, 15}, 3), P("str_n", a, 4), P("str", a, 1), P("str", {}, 0), P("bytes", {7, 8}, 2)}
=============================================================================
