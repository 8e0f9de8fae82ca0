---------------------------- MODULE MCMediaKeeper ----------------------------
(***************************************************************************)
(* Model checking of MediaKeeper: two layers and a list of two slots.      *)
(***************************************************************************)
EXTENDS MediaKeeper

CONSTANTS monitor, writer, u1, u2, h1, h2, h3

\* Undisturbed, with more memory than the list has slots.
Clean ==
  [holders |-> {u1, u2}, handles |-> {h1, h2, h3}, rekeep |-> FALSE, interrupt |-> FALSE,
   forced |-> {}]

\* Two layers keep the same memory; one layer is disturbed by interrupts, or
\* the freeing is forced.
KeptAgain == [Clean EXCEPT !.handles = {h1, h2}, !.rekeep = TRUE]
Interrupted == [Clean EXCEPT !.holders = {u1}, !.handles = {h1, h2}, !.interrupt = TRUE]
Unused == [Clean EXCEPT !.holders = {u1}, !.handles = {h1, h2}, !.forced = {2}]
Everything == [Clean EXCEPT !.holders = {u1}, !.handles = {h1}, !.forced = {1}]

MCUses == {Clean, KeptAgain, Interrupted, Unused, Everything}
=============================================================================
