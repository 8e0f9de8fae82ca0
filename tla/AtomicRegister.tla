--------------------------- MODULE AtomicRegister ---------------------------
(***************************************************************************)
(* What the reserved area of the flash promises to the users of one kind   *)
(* of information (environment, keys, device tree, bad block table): a     *)
(* register that a save changes at once or not at all, whenever the power  *)
(* is lost.  The promise is suspended while the save is at risk, that is,  *)
(* after it has erased the only copy, or after the flash has failed.       *)
(***************************************************************************)
CONSTANTS Values, None

VARIABLES
  value,      \* what a restart would find
  pending,    \* the value of the save in progress, or None
  returned,   \* the value of the last save that returned with success
  atRisk

vars == <<value, pending, returned, atRisk>>

Init == value = None /\ pending = None /\ returned = None /\ atRisk = FALSE

\* A save begins; it may be one that gives up the old value first.
Begin(v) ==
  /\ pending = None /\ pending' = v
  /\ atRisk' \in {atRisk, TRUE}
  /\ UNCHANGED <<value, returned>>

\* The one moment at which the new value replaces the old one; the save may
\* return with success in the same step, but never before.
Commit ==
  /\ pending # None /\ value' = pending
  /\ \/ pending' = None /\ returned' = pending /\ atRisk' = FALSE
     \/ UNCHANGED <<pending, returned, atRisk>>

\* The save ends without success, or the power is lost: value is what it is.
Abandon ==
  /\ pending' = None /\ atRisk' \in {atRisk, FALSE}
  /\ UNCHANGED <<value, returned>>

\* Nothing is promised of the value while it is at risk.
Lose ==
  /\ atRisk /\ value' \in Values \cup {None}
  /\ atRisk' \in BOOLEAN
  /\ pending' \in Values \cup {None} /\ returned' \in Values \cup {None}

\* The flash fails for the first time.
Fail ==
  /\ atRisk' = TRUE
  /\ pending' \in {pending, None} /\ value' \in Values \cup {None}
  /\ UNCHANGED returned

Next == (\E v \in Values : Begin(v)) \/ Commit \/ Abandon \/ Lose \/ Fail

Spec == Init /\ [][Next]_vars
=============================================================================
