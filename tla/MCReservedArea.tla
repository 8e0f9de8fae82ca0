--------------------------- MODULE MCReservedArea ---------------------------
(***************************************************************************)
(* Model checking of ReservedArea.  Neither values nor blocks are declared *)
(* symmetric: a property is temporal, and the scan goes through the blocks *)
(* in order.                                                               *)
(***************************************************************************)
EXTENDS ReservedArea, TLC

CONSTANTS v1, v2
=============================================================================
