------------------------------ MODULE ZfsCalls ------------------------------
(***************************************************************************)
(* lib.rs impl Zfs: one call of the read API, either datasets() or one of  *)
(* the calls that take a dataset and a path.  Calls take &mut self, so no  *)
(* two of them overlap and none sees the state of another.                 *)
(***************************************************************************)
EXTENDS PathLookup, DatasetList

vars == <<pathVars, listVars>>

NoPathCall ==
  /\ world = Absent /\ call = Absent /\ pc = "idle" /\ names = <<>>
  /\ dir_obj = Absent /\ value = 0 /\ result = Pending
NoListing == dsl = Absent /\ out = <<>> /\ queue = <<>> /\ parent = <<>>
             /\ children = <<>> /\ listPc = "idle"

Init == (PathInit /\ NoListing) \/ (ListInit /\ NoPathCall)

path_call == PathNext /\ UNCHANGED listVars
datasets == ListNext /\ UNCHANGED pathVars
Next == path_call \/ datasets

Spec == Init /\ [][Next]_vars
FairSpec == Spec /\ WF_vars(Next)
-----------------------------------------------------------------------------
\* lib.rs, dataset.rs: every call returns; datasets() although the DSL
\* directories may form cycles ("cannot drive unbounded work").
CallReturns == <>(pc = "done" \/ listPc = "done")
=============================================================================
