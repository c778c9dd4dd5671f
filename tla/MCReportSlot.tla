---------------------------- MODULE MCReportSlot ----------------------------
(***************************************************************************)
(* ReportSlot on a small heap: five blocks, so that the fifth would be     *)
(* used if the protocol ever needed it.                                    *)
(***************************************************************************)
EXTENDS ReportSlot, TLC

Blocks == Permutations(Addr)

=============================================================================
