-------------------------- MODULE HwspinlockBakery --------------------------
(***************************************************************************)
(* drivers/hwspinlock/hwspinlock_bakery.c: one hardware spinlock shared by *)
(* the cores of the chip (Linux and firmware cores), taken with Lamport's  *)
(* bakery algorithm over words of device memory.  A step is one access to  *)
(* another core's word, with the local computation that follows it: the    *)
(* accesses are ordered (devm_ioremap maps the words as device memory) and *)
(* each is single-copy atomic.                                             *)
(*                                                                         *)
(* lock_data[i] is three functions here: booted[i] is FALSE while the word *)
(* still holds HWSPINLOCK_DEFAULT_VALUE, choosing[i] is bit 0 and          *)
(* number[i] is bits 1-15.  A store to the word changes them together.     *)
(***************************************************************************)
EXTENDS Integers

CONSTANTS
  BakeryCpus,   \* aml_spinlock->bakery_cpus
  Tickets,      \* tickets a word can hold: 2^15 in bakery_ticket_number
  Hoisted       \* TRUE: the build keeps the load of a busy-wait loop out of
                \* the loop (lock_data is neither volatile nor READ_ONCE)

ASSUME BakeryCpusAssumption == BakeryCpus \in 2..256   \* pos is 8 bits of PRIORITY
ASSUME TicketsAssumption == Tickets \in Nat /\ Tickets >= 2
ASSUME HoistedAssumption == Hoisted \in BOOLEAN

VARIABLES
  booted, choosing, number,       \* the words of struct bakery_lock
  pc, they, my_ticket, their_ticket,  \* a core inside trylock or unlock
  ahead,     \* history: the cores whose ticket was out when core i came
  wrapped    \* history: some ticket did not fit its 15 bits

vars == <<booted, choosing, number, pc, they, my_ticket, their_ticket, ahead, wrapped>>

CPU == 0..(BakeryCpus - 1)

\* Faulty stores: the field is not masked, or is one ticket too narrow.
UnmaskedTicket(ticket) == ticket
NarrowTicket(ticket) == ticket % (Tickets - 1)

\* A ticket as make_bakery_data stores it: masked to its field.
Masked(ticket) == ticket % Tickets

\* Lower values win; ties between equal tickets go to the lower position.
PRIORITY(ticket, pos) == ticket * 256 + pos

\* Cores whose ticket is out and that have not released the lock.
Contending == {"wait", "spin", "stuck", "cs"}
-----------------------------------------------------------------------------
TypeOK ==
  /\ booted \in [CPU -> BOOLEAN]
  /\ choosing \in [CPU -> BOOLEAN]
  /\ number \in [CPU -> 0..(Tickets - 1)]
  /\ pc \in [CPU -> {"off", "idle", "ticket", "wait", "spin", "stuck", "cs", "assert"}]
  /\ they \in [CPU -> 0..BakeryCpus]
  /\ my_ticket \in [CPU -> 0..Tickets]
  /\ their_ticket \in [CPU -> 0..(Tickets - 1)]
  /\ ahead \in [CPU -> SUBSET CPU]
  /\ wrapped \in BOOLEAN

Init ==
  /\ booted = [i \in CPU |-> FALSE]
  /\ choosing = [i \in CPU |-> FALSE]
  /\ number = [i \in CPU |-> 0]
  /\ pc = [i \in CPU |-> "off"]
  /\ they = [i \in CPU |-> 0]
  /\ my_ticket = [i \in CPU |-> 0]
  /\ their_ticket = [i \in CPU |-> 0]
  /\ ahead = [i \in CPU |-> {}]
  /\ wrapped = FALSE

\* Probe: the core clears its word, which until then reads as "no such CPU".
Probe(i) ==
  /\ pc[i] = "off"
  /\ booted' = [booted EXCEPT ![i] = TRUE]
  /\ pc' = [pc EXCEPT ![i] = "idle"]
  /\ UNCHANGED <<choosing, number, they, my_ticket, their_ticket, ahead, wrapped>>

\* Entry of trylock: the word says "choosing".
Choose(i) ==
  /\ pc[i] = "idle"
  /\ number[i] = 0            \* assert: no recursive acquisition
  /\ choosing' = [choosing EXCEPT ![i] = TRUE]
  /\ pc' = [pc EXCEPT ![i] = "ticket"]
  /\ they' = [they EXCEPT ![i] = 0]
  /\ my_ticket' = [my_ticket EXCEPT ![i] = 0]
  /\ ahead' = [ahead EXCEPT ![i] = {j \in CPU : pc[j] \in Contending \ {"cs"}}]
  /\ UNCHANGED <<booted, number, their_ticket, wrapped>>

\* Faulty scan: the tickets of the others are not looked at.
NoScan(i) == my_ticket[i]

\* The highest ticket seen once the word of core they[i] is read.
HighestSeen(i) ==
  IF they[i] # i /\ booted[they[i]] /\ number[they[i]] > my_ticket[i]
  THEN number[they[i]] ELSE my_ticket[i]

\* One round of the loop that looks for the highest ticket.
ReadTicket(i) ==
  /\ pc[i] = "ticket" /\ they[i] \in CPU
  /\ my_ticket' = [my_ticket EXCEPT ![i] = HighestSeen(i)]
  /\ they' = [they EXCEPT ![i] = @ + 1]
  /\ UNCHANGED <<booted, choosing, number, pc, their_ticket, ahead, wrapped>>

\* The word gets the ticket: masked, while my_ticket keeps every bit.
PublishTicket(i) ==
  /\ pc[i] = "ticket" /\ they[i] = BakeryCpus
  /\ my_ticket' = [my_ticket EXCEPT ![i] = @ + 1]
  /\ choosing' = [choosing EXCEPT ![i] = FALSE]
  /\ number' = [number EXCEPT ![i] = Masked(my_ticket[i] + 1)]
  /\ wrapped' = (wrapped \/ my_ticket[i] + 1 >= Tickets)
  /\ pc' = [pc EXCEPT ![i] = "wait"]
  /\ they' = [they EXCEPT ![i] = 0]
  /\ UNCHANGED <<booted, their_ticket, ahead>>

\* Faulty comparisons: tickets without positions, ties lost or won by both.
TicketLower(i) == number[they[i]] # 0 /\ number[they[i]] < my_ticket[i]
TicketNotHigher(i) == number[they[i]] # 0 /\ number[they[i]] <= my_ticket[i]

\* The other core has a ticket of higher priority (a lower value) than core i.
Outranked(i) ==
  /\ number[they[i]] # 0
  /\ PRIORITY(number[they[i]], they[i]) < PRIORITY(my_ticket[i], i)

Absent(i) == they[i] = i \/ ~booted[they[i]]

\* One round of the loop over the contenders: the other core is skipped,
\* found choosing, given way to, or passed.
PassContender(i) ==
  /\ pc[i] = "wait" /\ they[i] \in CPU
  /\ Absent(i) \/ (~choosing[they[i]] /\ ~Outranked(i))
  /\ they' = [they EXCEPT ![i] = @ + 1]
  /\ UNCHANGED <<booted, choosing, number, pc, my_ticket, their_ticket, ahead, wrapped>>

GiveWay(i) ==
  /\ pc[i] = "wait" /\ they[i] \in CPU
  /\ ~Absent(i) /\ ~choosing[they[i]] /\ Outranked(i)
  /\ their_ticket' = [their_ticket EXCEPT ![i] = number[they[i]]]
  /\ pc' = [pc EXCEPT ![i] = "spin"]
  /\ UNCHANGED <<booted, choosing, number, they, my_ticket, ahead, wrapped>>

\* The spin on a changed ticket ends: the next contender is looked at.
TicketChanged(i) ==
  /\ pc[i] = "spin"
  /\ number[they[i]] # their_ticket[i]
  /\ they' = [they EXCEPT ![i] = @ + 1]
  /\ their_ticket' = [their_ticket EXCEPT ![i] = 0]
  /\ pc' = [pc EXCEPT ![i] = "wait"]
  /\ UNCHANGED <<booted, choosing, number, my_ticket, ahead, wrapped>>

\* A loop compiled with its load hoisted tests the first value for ever.
SpinOnStaleLoad(i) ==
  /\ Hoisted
  /\ \/ pc[i] = "wait" /\ they[i] \in CPU /\ ~Absent(i) /\ choosing[they[i]]
     \/ pc[i] = "spin" /\ number[they[i]] = their_ticket[i]
  /\ pc' = [pc EXCEPT ![i] = "stuck"]
  /\ UNCHANGED <<booted, choosing, number, they, my_ticket, their_ticket, ahead, wrapped>>

\* The loop is over: trylock returns true and its locals are gone.
Acquire(i) ==
  /\ pc[i] = "wait" /\ they[i] = BakeryCpus
  /\ pc' = [pc EXCEPT ![i] = "cs"]
  /\ they' = [they EXCEPT ![i] = 0]
  /\ my_ticket' = [my_ticket EXCEPT ![i] = 0]
  /\ ahead' = [j \in CPU |-> ahead[j] \ {i}]
  /\ UNCHANGED <<booted, choosing, number, their_ticket, wrapped>>

Unlock(i) ==
  /\ pc[i] = "cs" /\ number[i] # 0
  /\ number' = [number EXCEPT ![i] = 0]
  /\ choosing' = [choosing EXCEPT ![i] = FALSE]
  /\ pc' = [pc EXCEPT ![i] = "idle"]
  /\ ahead' = [ahead EXCEPT ![i] = {}]
  /\ UNCHANGED <<booted, they, my_ticket, their_ticket, wrapped>>

\* The assertion of unlock fails: __assert loops for ever.
UnlockAssert(i) ==
  /\ pc[i] = "cs" /\ number[i] = 0
  /\ pc' = [pc EXCEPT ![i] = "assert"]
  /\ UNCHANGED <<booted, choosing, number, they, my_ticket, their_ticket, ahead, wrapped>>

\* What a core does on its own once it is inside trylock or holds the lock.
Run(i) ==
  \/ ReadTicket(i) \/ PublishTicket(i)
  \/ PassContender(i) \/ GiveWay(i) \/ TicketChanged(i) \/ SpinOnStaleLoad(i)
  \/ Acquire(i) \/ Unlock(i) \/ UnlockAssert(i)

Next == \E i \in CPU : Probe(i) \/ Choose(i) \/ Run(i)

\* A core inside the lock code keeps executing, and critical sections end;
\* no core has to be caught in a loop.
Fairness == \A i \in CPU : WF_vars(Run(i) /\ pc'[i] # "stuck")

Spec == Init /\ [][Next]_vars
FairSpec == Spec /\ Fairness
-----------------------------------------------------------------------------
(***************************************************************************)
(* Properties                                                              *)
(***************************************************************************)
\* Two cores never hold the lock at once, however often the ticket field
\* has been reused: what "Bakery Algorithm for mutual exclusion" promises.
AlwaysExclusive ==
  \A i, j \in CPU : pc[i] = "cs" /\ pc[j] = "cs" => i = j

\* The same as long as no ticket outgrew its 15-bit field.
MutualExclusion == ~wrapped => AlwaysExclusive

\* The lock is handed over in the order of arrival: a core whose ticket was
\* out before another core entered trylock gets the lock first.
FirstComeFirstServed ==
  ~wrapped => \A i \in CPU : pc[i] = "cs" => ahead[i] = {}

\* Neither assertion of the code fails: trylock finds no ticket of its own
\* and unlock finds one.
AssertionsHold ==
  ~wrapped => \A i \in CPU : /\ pc[i] = "idle" => number[i] = 0
                             /\ pc[i] = "cs" => number[i] # 0

\* A core that enters trylock obtains the lock, provided tickets never wrap and
\* no core is caught in a loop that was compiled with its load hoisted: no core
\* is overtaken for ever and no two wait for each other.
EveryTrylockReturns ==
  \A i \in CPU :
    pc[i] = "ticket" ~> (pc[i] = "cs" \/ wrapped \/ \E j \in CPU : pc[j] = "stuck")
=============================================================================
