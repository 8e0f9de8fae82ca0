-------------------------- MODULE MCVframeProviders --------------------------
(***************************************************************************)
(* Model checking of VframeProviders: a path of two providers and clients  *)
(* of each kind.                                                           *)
(***************************************************************************)
EXTENDS VframeProviders, TLC

CONSTANTS g, a, n, p2

\* A table for both providers, and one that gets full.
MCTables == {[slots |-> 2, tooLong |-> 0], [slots |-> 1, tooLong |-> 1]}

MCClosed == -100000
MCUpstream == [c \in {g, a, n} |-> p2]
=============================================================================
