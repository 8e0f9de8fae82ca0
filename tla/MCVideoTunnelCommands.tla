----------------------- MODULE MCVideoTunnelCommands -----------------------
(***************************************************************************)
(* Model checking of VideoTunnelCommands: consumers are exchangeable, as   *)
(* both may leave and die.                                                 *)
(***************************************************************************)
EXTENDS VideoTunnelCommands, TLC

CONSTANTS p, c1, c2

\* Everything is sent to consumers that stay or die by a producer that comes
\* and goes; only the mode, or only the status, is sent while everybody does.
AllUses ==
  {[leavers |-> {p}, kinds |-> AllKinds],
   [leavers |-> {p, c1, c2}, kinds |-> GameKinds],
   [leavers |-> {p, c1, c2}, kinds |-> StatusKinds]}

\* A producer that shows and hides the picture of one consumer.
StatusOnly == {[leavers |-> {}, kinds |-> StatusKinds]}

Exchanged == Permutations(Consumers)
=============================================================================
