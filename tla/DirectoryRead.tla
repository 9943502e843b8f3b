--------------------------- MODULE DirectoryRead ----------------------------
(***************************************************************************)
(* dataset.rs: a directory (or any object that is a ZAP) is read in two    *)
(* parts, its dnode out of the object set and then its entries or one of   *)
(* them.  list_dir, and every step of open_dataset, child_dataset_names    *)
(* and resolve_path, is this sequence.                                     *)
(***************************************************************************)
EXTENDS ObjectRead, ZapWalk

CONSTANT ZapObjects   \* dnodes with the ZAP under them

vars == <<dnVars, zapVars>>

Init == \E o \in ZapObjects : DnStart(o[1]) /\ ZapStart(o[2])

read_object_dnode == DnNext /\ UNCHANGED zapVars
zap_call == dnPc = "done" /\ dnResult.ok /\ ZapNext /\ UNCHANGED dnVars

Next == read_object_dnode \/ zap_call
Spec == Init /\ [][Next]_vars
FairSpec == Spec /\ WF_vars(Next)

Returned == dnPc = "done" /\ (dnResult.ok => zapPc = "done")
-----------------------------------------------------------------------------
\* dataset.rs list_dir, walk.rs MAX_ZAP_LEAF_BLOCKS: the call returns, whatever
\* the chains and blocks of the object look like.
DirectoryReadReturns == <>Returned
=============================================================================
