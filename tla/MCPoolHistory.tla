--------------------------- MODULE MCPoolHistory ----------------------------
(* PoolHistory for TLC: a mirror of A and B and a spare C.  ashift 16 is     *)
(* above the largest slot shift, so a label has two 8 KiB slots.             *)
EXTENDS PoolHistory

MCDevices == <<"A", "B", "C">>
MCTree == <<"A", "B">>
MCUnderstood == {}
MCRefused == {}
MCPools == {}
MCBlank == [state |-> "badsum", missing |-> {}, mistyped |-> {}, guid |-> "A",
            features |-> {}, vdev_children |-> 1, type |-> "mirror", nparity |-> 1,
            expand |-> FALSE, ashift |-> 16, children |-> <<>>]
=============================================================================
