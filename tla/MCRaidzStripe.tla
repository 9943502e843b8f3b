--------------------------- MODULE MCRaidzStripe ----------------------------
(* RaidzStripe for TLC: every width up to 5, ashifts at, inside and outside *)
(* the accepted range, enough offsets to start on every child twice and     *)
(* enough sizes for no, one and several full rows with every remainder.     *)
EXTENDS RaidzStripe

CONSTANT NPsizes, NOffsets

MCWidths == 1 .. 5
MCAshifts == {8, 9, 10, 11, 17}
MCOffsets == 0 .. NOffsets
MCPsizes == 1 .. NPsizes
=============================================================================
