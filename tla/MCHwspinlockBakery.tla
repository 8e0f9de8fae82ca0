------------------------ MODULE MCHwspinlockBakery ------------------------
(***************************************************************************)
(* Model checking of HwspinlockBakery.  The constants are given in the     *)
(* configurations; the instances are small because the words of the cores  *)
(* only matter relative to each other.  Positions are ordered, so cores    *)
(* are not symmetric.                                                      *)
(***************************************************************************)
EXTENDS HwspinlockBakery
=============================================================================
