--------------------------- MODULE MCVideoTunnelIds ---------------------------
(***************************************************************************)
(* Model checking of VideoTunnelIds: sessions, the ways they use tunnels,  *)
(* and the symmetry of the instances, which are memory addresses.          *)
(* Sessions differ in their roles and are not exchanged.                   *)
(***************************************************************************)
EXTENDS VideoTunnelIds, TLC

CONSTANTS p1, c1, c2, n1, n2, n3

\* Two sessions allocate and free ids.  All connect to the ids at any time,
\* before they are allocated and after they were freed too.
Sharing ==
  [owners |-> {p1, c1}, freers |-> {p1, c1}, closers |-> {},
   known |-> [s \in Sessions |-> IF s = p1 THEN {0} ELSE {MIN_VIDEO_TUNNEL_ID}],
   overfull |-> FALSE]

\* More ids are asked for than there are, by sessions that die, and that free
\* their ids and leave their tunnels when they like.
Dying ==
  [owners |-> {p1, c1}, freers |-> {p1}, closers |-> {c1, c2},
   known |-> [s \in Sessions |-> IF s = c2 THEN {MIN_VIDEO_TUNNEL_ID} ELSE {}],
   overfull |-> TRUE]

\* All sessions have one id built in, and ask for more than there are.
AskingForMore ==
  [owners |-> {p1, c1}, freers |-> {}, closers |-> {},
   known |-> [s \in Sessions |-> {0}], overfull |-> TRUE]

SharingOrDying == {Sharing, Dying}
OnlyAskingForMore == {AskingForMore}

Addresses == Permutations(Instances)
===============================================================================
