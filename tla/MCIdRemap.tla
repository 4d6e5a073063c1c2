----------------------------- MODULE MCIdRemap -----------------------------
(* IdRemap on a small instance: a window's cursor after other values, a GC's
   resources with others before and between them. *)
EXTENDS IdRemap

MCMasks == {{}, {14}, {1, 14}, {9, 10, 14}, {13, 14}, {11, 12, 19}}
=============================================================================
