---------------------------- MODULE MCVideoTunnel ----------------------------
(***************************************************************************)
(* Model checking of VideoTunnel: the sessions and the threads that make   *)
(* calls on them.  No symmetry is used: an exchange of two sessions would  *)
(* have to exchange their threads too, and slots are taken lowest first.   *)
(***************************************************************************)
EXTENDS VideoTunnel, TLC

CONSTANTS p1, p2, c1, t1, t2, t3

\* One thread for each session.
OnePair == (t1 :> p1) @@ (t2 :> c1)
TwoProducers == (t1 :> p1) @@ (t2 :> c1) @@ (t3 :> p2)
=============================================================================
