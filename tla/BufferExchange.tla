--------------------------- MODULE BufferExchange ---------------------------
(***************************************************************************)
(* What a video tunnel promises about its buffers, without slots, statuses,*)
(* file descriptors or locks.  A buffer is with the producer, on its way   *)
(* to the consumer, held by a consumer, or on its way back, and never in   *)
(* two of these places.  Buffers travel in order in both directions, and   *)
(* only the sides that are present move them.                              *)
(***************************************************************************)
EXTENDS Integers, Sequences, Functions

CONSTANT Buffers

VARIABLES
  present,    \* which of "producer" and "consumer" are there
  outgoing,   \* buffers on their way to the consumer, oldest first
  held,       \* buffers a consumer was given
  returning   \* buffers on their way back, oldest first

vars == <<present, outgoing, held, returning>>

TypeOK ==
  /\ present \subseteq {"producer", "consumer"}
  /\ outgoing \in Seq(Buffers) /\ returning \in Seq(Buffers)
  /\ held \subseteq Buffers

Init == present = {} /\ outgoing = <<>> /\ held = {} /\ returning = <<>>

Idle == Buffers \ (Range(outgoing) \cup held \cup Range(returning))
-----------------------------------------------------------------------------
Submit(b) ==
  /\ "producer" \in present /\ b \in Idle
  /\ outgoing' = Append(outgoing, b)
  /\ UNCHANGED <<present, held, returning>>

Collect ==
  /\ "producer" \in present /\ returning # <<>>
  /\ returning' = Tail(returning)
  /\ UNCHANGED <<present, outgoing, held>>

\* The producer takes back what is still on its way out.
Recall ==
  /\ "producer" \in present
  /\ returning' = returning \o outgoing /\ outgoing' = <<>>
  /\ UNCHANGED <<present, held>>

Take ==
  /\ "consumer" \in present /\ outgoing # <<>>
  /\ held' = held \cup {Head(outgoing)} /\ outgoing' = Tail(outgoing)
  /\ UNCHANGED <<present, returning>>

\* The consumer cannot take a buffer, which goes back at once.
Decline ==
  /\ "consumer" \in present /\ outgoing # <<>>
  /\ returning' = Append(returning, Head(outgoing)) /\ outgoing' = Tail(outgoing)
  /\ UNCHANGED <<present, held>>

\* A buffer that is given back goes to the producer, goes out once more when
\* nothing newer does, or is just idle again when its producer has gone.
GiveBack(b) ==
  /\ "consumer" \in present /\ b \in held
  /\ held' = held \ {b}
  /\ \/ /\ "producer" \in present
        /\ returning' = Append(returning, b) /\ UNCHANGED outgoing
     \/ /\ "producer" \in present /\ outgoing = <<>>
        /\ outgoing' = <<b>> /\ UNCHANGED returning
     \/ UNCHANGED <<outgoing, returning>>
  /\ UNCHANGED present

Join(role) ==
  /\ present' = present \cup {role}
  /\ UNCHANGED <<outgoing, held, returning>>

\* Nothing is on its way to a producer that has left.
ProducerLeaves ==
  /\ present' = present \ {"producer"} /\ returning' = <<>>
  /\ UNCHANGED <<outgoing, held>>

\* What was on its way to a consumer stays, goes back, or becomes idle.
ConsumerLeaves ==
  /\ present' = present \ {"consumer"}
  /\ \/ UNCHANGED <<outgoing, returning>>
     \/ outgoing' = <<>> /\ returning' = returning \o outgoing
     \/ outgoing' = <<>> /\ UNCHANGED returning
  /\ UNCHANGED held

\* An exchange that is left by everybody forgets its buffers.
Reset ==
  present' = {} /\ outgoing' = <<>> /\ held' = {} /\ returning' = <<>>

Next ==
  \/ \E b \in Buffers : Submit(b) \/ GiveBack(b)
  \/ Collect \/ Recall \/ Take \/ Decline
  \/ \E role \in {"producer", "consumer"} : Join(role)
  \/ ProducerLeaves \/ ConsumerLeaves \/ Reset

Spec == Init /\ [][Next]_vars
-----------------------------------------------------------------------------
\* A buffer is in one place, and once.
OnePlace ==
  /\ IsInjective(outgoing) /\ IsInjective(returning)
  /\ Range(outgoing) \cap Range(returning) = {}
  /\ held \cap (Range(outgoing) \cup Range(returning)) = {}
=============================================================================
