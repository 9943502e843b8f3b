----------------------------- MODULE MCFormats ------------------------------
(***************************************************************************)
(* The two questions about phys/ encoders in one run: RecordCodec on its   *)
(* records with an encoder that was refused, and BinaryCursor with a       *)
(* record that is done.                                                    *)
(***************************************************************************)
EXTENDS MCRecordCodec, MCBinaryCursor

CursorRefused == /\ format = "Big" /\ cursorPc = "refused" /\ script = <<>> /\ buf = {} /\ at = 0
                 /\ NoDecoder
CodecDone == /\ item = [kind |-> "none"] /\ read = Ok(None) /\ codecPc = "done"
             /\ bytes = Nothing /\ back = Nothing

FormatsInit == \/ CodecInit /\ CursorRefused
               \/ CursorInit /\ CodecDone
FormatsNext == \/ CodecNext /\ UNCHANGED cursorVars
               \/ CursorNext /\ UNCHANGED codecVars
FormatsSpec == FormatsInit /\ [][FormatsNext]_<<codecVars, cursorVars>>
=============================================================================
