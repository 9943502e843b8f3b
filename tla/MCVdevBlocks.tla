---------------------------- MODULE MCVdevBlocks ----------------------------
(***************************************************************************)
(* The two questions about vdev.rs in one run: behaviours of VdevRead with *)
(* RaidzStripe returned, and behaviours of RaidzStripe with VdevRead       *)
(* returned.  A call that has returned takes no step.                      *)
(***************************************************************************)
EXTENDS MCVdevRead, MCRaidzStripe

StripeReturned ==
  /\ req = [width |-> 3, ashift |-> 9, offset |-> 0, psize |-> 1]
  /\ cols = raidz_map(req.offset, req.ashift, req.width, 1, req.psize)
ReadReturned ==
  /\ layout = Copies("Single", 1) /\ bp = [Base EXCEPT !.kind = "Encrypted"] /\ salt = TRUE
  /\ pc = "done" /\ di = 1 /\ ci = 1 /\ colbufs = <<>> /\ last = NoResult
  /\ result = Err("UnsupportedFeature", "encryption") /\ tried = {} /\ intact = FALSE

VdevInit == \/ Init /\ StripeReturned
            \/ StripeInit /\ ReadReturned
VdevNext == \/ Next /\ UNCHANGED stripeVars
            \/ StripeNext /\ UNCHANGED vars
VdevSpec == VdevInit /\ [][VdevNext]_<<vars, stripeVars>> /\ WF_vars(Next /\ UNCHANGED stripeVars)
=============================================================================
