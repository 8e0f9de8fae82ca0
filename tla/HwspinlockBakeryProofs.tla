----------------------- MODULE HwspinlockBakeryProofs -----------------------
(***************************************************************************)
(* Proofs about HwspinlockBakery, for every number of cores, every width   *)
(* of the ticket field and both ways of compiling the busy-wait loops.     *)
(*                                                                         *)
(* The argument: once core i has passed core j in its loop over the        *)
(* contenders, j cannot hold a ticket of higher priority until i releases; *)
(* if j is still choosing, then either it has not read i's ticket yet or   *)
(* what it has seen is at least that ticket, so the one it will publish is *)
(* higher.  Two cores in the critical section would have passed each       *)
(* other.  All of it holds only while no ticket has outgrown its field.    *)
(***************************************************************************)
EXTENDS HwspinlockBakery, TLAPS

\* Core i is done with core j in its loop over the contenders.
Passed(i, j) ==
  \/ pc[i] = "cs"
  \/ pc[i] \in {"wait", "spin", "stuck"} /\ j < they[i]

\* Core j is choosing and has seen the ticket of core i, or one as high.
SawTicket(j, i) == pc[j] = "ticket" /\ i < they[j] => my_ticket[j] >= number[i]

\* Core j is no obstacle to core i, which has its ticket out.
Behind(j, i) ==
  /\ pc[j] \in Contending => PRIORITY(number[i], i) < PRIORITY(number[j], j)
  /\ SawTicket(j, i)

\* What the word of a core holds at each place of its own program.
OwnWord(i) ==
  /\ pc[i] = "off" <=> ~booted[i]
  /\ pc[i] = "ticket" <=> choosing[i]
  /\ pc[i] \in {"off", "idle", "ticket"} => number[i] = 0
  /\ pc[i] \in {"ticket", "wait", "spin", "stuck"} => they[i] \in 0..BakeryCpus
  /\ pc[i] = "ticket" => my_ticket[i] < Tickets
  /\ pc[i] = "spin" => they[i] \in CPU /\ they[i] # i /\ their_ticket[i] # 0

OwnTicket(i) ==
  /\ pc[i] \in Contending => number[i] # 0
  /\ pc[i] \in {"wait", "spin", "stuck"} => my_ticket[i] = number[i]
  /\ pc[i] # "assert"

Order(i, j) ==
  /\ Passed(i, j) => Behind(j, i)
  /\ pc[i] = "spin" /\ they[i] = j => number[j] = their_ticket[i] \/ Behind(j, i)

\* The cores that were there before core i are still waiting, ahead of it.
Queue(i) ==
  /\ pc[i] \notin {"ticket"} \cup Contending => ahead[i] = {}
  /\ \A j \in ahead[i] :
       /\ pc[j] \in {"wait", "spin", "stuck"}
       /\ SawTicket(i, j)
       /\ pc[i] \in Contending => number[j] < number[i]

IInv ==
  /\ TypeOK
  /\ \A i \in CPU : OwnWord(i)
  /\ ~wrapped => /\ \A i \in CPU : OwnTicket(i) /\ Queue(i)
                 /\ \A i, j \in CPU : i # j => Order(i, j)
-----------------------------------------------------------------------------
USE BakeryCpusAssumption, TicketsAssumption, HoistedAssumption

\* A ticket that fits its field is stored unchanged; any other one is cut.
LEMMA MaskedTicket ==
  \A t \in 0..Tickets : /\ Masked(t) \in 0..(Tickets - 1)
                        /\ t < Tickets => Masked(t) = t
  BY DEF Masked

\* The priority order: by ticket, then by position.
LEMMA PriorityOrder ==
  \A t, u \in Nat, i, j \in CPU :
    PRIORITY(t, i) < PRIORITY(u, j) <=> t < u \/ (t = u /\ i < j)
  BY DEF PRIORITY, CPU

\* The loops over the cores stay within lock_data.
LEMMA NextPosition == \A p \in CPU : p \in Nat /\ p + 1 \in 0..BakeryCpus
  BY DEF CPU

\* The initial state, with every core off, satisfies the invariant.
LEMMA InitIInv == Init => IInv
<1> SUFFICES ASSUME Init PROVE IInv
  OBVIOUS
<1>1. TypeOK
  <2>1. booted \in [CPU -> BOOLEAN] /\ choosing \in [CPU -> BOOLEAN]
    BY Zenon DEF Init
  <2>2. ahead \in [CPU -> SUBSET CPU] /\ wrapped \in BOOLEAN
    BY DEF Init
  <2>3. /\ number \in [CPU -> 0..(Tickets - 1)]
        /\ my_ticket \in [CPU -> 0..Tickets]
        /\ their_ticket \in [CPU -> 0..(Tickets - 1)]
        /\ they \in [CPU -> 0..BakeryCpus]
    BY DEF Init
  <2>4. pc \in [CPU -> {"off", "idle", "ticket", "wait", "spin", "stuck", "cs", "assert"}]
    BY DEF Init
  <2> QED
    BY <2>1, <2>2, <2>3, <2>4 DEF TypeOK
<1>2. \A i \in CPU : OwnWord(i)
  BY DEF Init, OwnWord
<1>3. \A i \in CPU : OwnTicket(i) /\ Queue(i)
  BY DEF Init, OwnTicket, Queue, Contending
<1>4. \A i, j \in CPU : Order(i, j)
  BY DEF Init, Order, Passed
<1> QED
  BY <1>1, <1>2, <1>3, <1>4 DEF IInv

\* Every step keeps the types of the variables.
LEMMA TypeStep == TypeOK /\ (\A i \in CPU : OwnWord(i)) /\ [Next]_vars => TypeOK'
<1> SUFFICES ASSUME TypeOK, \A i \in CPU : OwnWord(i), [Next]_vars PROVE TypeOK'
  OBVIOUS
<1>1. CASE UNCHANGED vars
  BY <1>1 DEF vars, TypeOK
<1>2. ASSUME NEW i \in CPU, Probe(i) PROVE TypeOK'
  BY <1>2 DEF Probe, TypeOK
<1>3. ASSUME NEW i \in CPU, Choose(i) PROVE TypeOK'
  BY <1>3 DEF Choose, TypeOK
<1>4. ASSUME NEW i \in CPU, ReadTicket(i) PROVE TypeOK'
  BY <1>4, NextPosition DEF ReadTicket, HighestSeen, TypeOK
<1>5. ASSUME NEW i \in CPU, PublishTicket(i) PROVE TypeOK'
  BY <1>5, MaskedTicket DEF PublishTicket, TypeOK, OwnWord
<1>6. ASSUME NEW i \in CPU, PassContender(i) PROVE TypeOK'
  BY <1>6, NextPosition DEF PassContender, TypeOK
<1>7. ASSUME NEW i \in CPU, GiveWay(i) PROVE TypeOK'
  BY <1>7 DEF GiveWay, TypeOK
<1>8. ASSUME NEW i \in CPU, TicketChanged(i) PROVE TypeOK'
  BY <1>8, NextPosition DEF TicketChanged, TypeOK, OwnWord
<1>9. ASSUME NEW i \in CPU, SpinOnStaleLoad(i) PROVE TypeOK'
  BY <1>9 DEF SpinOnStaleLoad, TypeOK
<1>10. ASSUME NEW i \in CPU, Acquire(i) PROVE TypeOK'
  BY <1>10 DEF Acquire, TypeOK
<1>11. ASSUME NEW i \in CPU, Unlock(i) PROVE TypeOK'
  BY <1>11 DEF Unlock, TypeOK
<1>12. ASSUME NEW i \in CPU, UnlockAssert(i) PROVE TypeOK'
  BY <1>12 DEF UnlockAssert, TypeOK
<1> QED
  BY <1>1, <1>2, <1>3, <1>4, <1>5, <1>6, <1>7, <1>8, <1>9, <1>10, <1>11, <1>12
     DEF Next, Run

\* Every step keeps each core's word in agreement with its place in the code.
LEMMA OwnWordStep ==
  ASSUME TypeOK, TypeOK', \A i \in CPU : OwnWord(i), [Next]_vars, NEW j \in CPU
  PROVE  OwnWord(j)'
<1>1. CASE UNCHANGED vars
  BY <1>1 DEF vars, OwnWord, TypeOK
<1>2. ASSUME NEW k \in CPU, Probe(k) PROVE OwnWord(j)'
  BY <1>2 DEF Probe, OwnWord, TypeOK
<1>3. ASSUME NEW k \in CPU, Choose(k) PROVE OwnWord(j)'
  BY <1>3 DEF Choose, OwnWord, TypeOK
<1>4. ASSUME NEW k \in CPU, ReadTicket(k) PROVE OwnWord(j)'
  BY <1>4, NextPosition DEF ReadTicket, OwnWord, TypeOK, HighestSeen
<1>5. ASSUME NEW k \in CPU, PublishTicket(k) PROVE OwnWord(j)'
  BY <1>5, MaskedTicket DEF PublishTicket, OwnWord, TypeOK
<1>6. ASSUME NEW k \in CPU, PassContender(k) PROVE OwnWord(j)'
  BY <1>6, NextPosition DEF PassContender, OwnWord, TypeOK
<1>7. ASSUME NEW k \in CPU, GiveWay(k) PROVE OwnWord(j)'
  BY <1>7 DEF GiveWay, OwnWord, TypeOK, Absent, Outranked
<1>8. ASSUME NEW k \in CPU, TicketChanged(k) PROVE OwnWord(j)'
  BY <1>8, NextPosition DEF TicketChanged, OwnWord, TypeOK
<1>9. ASSUME NEW k \in CPU, SpinOnStaleLoad(k) PROVE OwnWord(j)'
  BY <1>9 DEF SpinOnStaleLoad, OwnWord, TypeOK
<1>10. ASSUME NEW k \in CPU, Acquire(k) PROVE OwnWord(j)'
  BY <1>10 DEF Acquire, OwnWord, TypeOK
<1>11. ASSUME NEW k \in CPU, Unlock(k) PROVE OwnWord(j)'
  BY <1>11 DEF Unlock, OwnWord, TypeOK
<1>12. ASSUME NEW k \in CPU, UnlockAssert(k) PROVE OwnWord(j)'
  BY <1>12 DEF UnlockAssert, OwnWord, TypeOK
<1> QED
  BY <1>1, <1>2, <1>3, <1>4, <1>5, <1>6, <1>7, <1>8, <1>9, <1>10, <1>11, <1>12
     DEF Next, Run

\* While no ticket wraps, a core that has published holds a ticket and its
\* word shows it.
LEMMA OwnTicketStep ==
  ASSUME TypeOK, TypeOK', \A i \in CPU : OwnWord(i) /\ OwnTicket(i), ~wrapped',
         [Next]_vars, NEW j \in CPU
  PROVE  OwnTicket(j)'
<1>1. CASE UNCHANGED vars
  BY <1>1 DEF vars, OwnTicket, OwnWord, TypeOK, Contending
<1>2. ASSUME NEW k \in CPU, Probe(k) PROVE OwnTicket(j)'
  BY <1>2 DEF Probe, OwnTicket, OwnWord, TypeOK, Contending
<1>3. ASSUME NEW k \in CPU, Choose(k) PROVE OwnTicket(j)'
  BY <1>3 DEF Choose, OwnTicket, OwnWord, TypeOK, Contending
<1>4. ASSUME NEW k \in CPU, ReadTicket(k) PROVE OwnTicket(j)'
  BY <1>4 DEF ReadTicket, OwnTicket, OwnWord, TypeOK, Contending, HighestSeen
<1>5. ASSUME NEW k \in CPU, PublishTicket(k) PROVE OwnTicket(j)'
  BY <1>5, MaskedTicket DEF PublishTicket, OwnTicket, OwnWord, TypeOK, Contending
<1>6. ASSUME NEW k \in CPU, PassContender(k) PROVE OwnTicket(j)'
  BY <1>6 DEF PassContender, OwnTicket, OwnWord, TypeOK, Contending
<1>7. ASSUME NEW k \in CPU, GiveWay(k) PROVE OwnTicket(j)'
  BY <1>7 DEF GiveWay, OwnTicket, OwnWord, TypeOK, Contending
<1>8. ASSUME NEW k \in CPU, TicketChanged(k) PROVE OwnTicket(j)'
  BY <1>8 DEF TicketChanged, OwnTicket, OwnWord, TypeOK, Contending
<1>9. ASSUME NEW k \in CPU, SpinOnStaleLoad(k) PROVE OwnTicket(j)'
  BY <1>9 DEF SpinOnStaleLoad, OwnTicket, OwnWord, TypeOK, Contending
<1>10. ASSUME NEW k \in CPU, Acquire(k) PROVE OwnTicket(j)'
  BY <1>10 DEF Acquire, OwnTicket, OwnWord, TypeOK, Contending
<1>11. ASSUME NEW k \in CPU, Unlock(k) PROVE OwnTicket(j)'
  BY <1>11 DEF Unlock, OwnTicket, OwnWord, TypeOK, Contending
<1>12. ASSUME NEW k \in CPU, UnlockAssert(k) PROVE OwnTicket(j)'
  BY <1>12 DEF UnlockAssert, OwnTicket, OwnWord, TypeOK, Contending
<1> QED
  BY <1>1, <1>2, <1>3, <1>4, <1>5, <1>6, <1>7, <1>8, <1>9, <1>10, <1>11, <1>12
     DEF Next, Run

\* While no ticket wraps, a core that has been passed stays behind.
LEMMA OrderStep ==
  ASSUME TypeOK, TypeOK', \A i \in CPU : OwnWord(i) /\ OwnTicket(i), ~wrapped',
         [Next]_vars, NEW i \in CPU, NEW j \in CPU, i # j, Order(i, j)
  PROVE  Order(i, j)'
<1>1. CASE UNCHANGED vars
  BY <1>1, NextPosition DEF vars, Order, Passed, Behind, SawTicket, OwnTicket, OwnWord, TypeOK, Contending
<1>2. ASSUME NEW k \in CPU, Probe(k) PROVE Order(i, j)'
  BY <1>2, NextPosition, PriorityOrder DEF Probe, Order, Passed, Behind, SawTicket, OwnTicket, OwnWord, TypeOK, Contending
<1>3. ASSUME NEW k \in CPU, Choose(k) PROVE Order(i, j)'
  BY <1>3, NextPosition, PriorityOrder DEF Choose, Order, Passed, Behind, SawTicket, OwnTicket, OwnWord, TypeOK, Contending
<1>4. ASSUME NEW k \in CPU, ReadTicket(k) PROVE Order(i, j)'
  BY <1>4, NextPosition, PriorityOrder DEF ReadTicket, Order, Passed, Behind, SawTicket, OwnTicket, OwnWord, TypeOK, Contending, HighestSeen
<1>5. ASSUME NEW k \in CPU, PublishTicket(k) PROVE Order(i, j)'
  BY <1>5, MaskedTicket, NextPosition, PriorityOrder DEF PublishTicket, Order, Passed, Behind, SawTicket, OwnTicket, OwnWord, TypeOK, Contending
<1>6. ASSUME NEW k \in CPU, PassContender(k) PROVE Order(i, j)'
  BY <1>6, NextPosition, PriorityOrder DEF PassContender, Order, Passed, Behind, SawTicket, OwnTicket, OwnWord, TypeOK, Contending, Absent, Outranked
<1>7. ASSUME NEW k \in CPU, GiveWay(k) PROVE Order(i, j)'
  BY <1>7, NextPosition, PriorityOrder DEF GiveWay, Order, Passed, Behind, SawTicket, OwnTicket, OwnWord, TypeOK, Contending, Absent, Outranked
<1>8. ASSUME NEW k \in CPU, TicketChanged(k) PROVE Order(i, j)'
  BY <1>8, NextPosition, PriorityOrder DEF TicketChanged, Order, Passed, Behind, SawTicket, OwnTicket, OwnWord, TypeOK, Contending
<1>9. ASSUME NEW k \in CPU, SpinOnStaleLoad(k) PROVE Order(i, j)'
  BY <1>9, NextPosition, PriorityOrder DEF SpinOnStaleLoad, Order, Passed, Behind, SawTicket, OwnTicket, OwnWord, TypeOK, Contending
<1>10. ASSUME NEW k \in CPU, Acquire(k) PROVE Order(i, j)'
  BY <1>10, NextPosition, PriorityOrder DEF Acquire, Order, Passed, Behind, SawTicket, OwnTicket, OwnWord, TypeOK, Contending
<1>11. ASSUME NEW k \in CPU, Unlock(k) PROVE Order(i, j)'
  BY <1>11, NextPosition, PriorityOrder DEF Unlock, Order, Passed, Behind, SawTicket, OwnTicket, OwnWord, TypeOK, Contending
<1>12. ASSUME NEW k \in CPU, UnlockAssert(k) PROVE Order(i, j)'
  BY <1>12, NextPosition, PriorityOrder DEF UnlockAssert, Order, Passed, Behind, SawTicket, OwnTicket, OwnWord, TypeOK, Contending
<1> QED
  BY <1>1, <1>2, <1>3, <1>4, <1>5, <1>6, <1>7, <1>8, <1>9, <1>10, <1>11, <1>12
     DEF Next, Run

\* While no ticket wraps, the cores that came first stay ahead.
LEMMA QueueStep ==
  ASSUME TypeOK, TypeOK', \A i \in CPU : OwnWord(i) /\ OwnTicket(i) /\ Queue(i),
         ~wrapped', [Next]_vars, NEW j \in CPU
  PROVE  Queue(j)'
<1>1. CASE UNCHANGED vars
  BY <1>1, NextPosition DEF vars, Queue, SawTicket, OwnTicket, OwnWord, TypeOK, Contending
<1>2. ASSUME NEW k \in CPU, Probe(k) PROVE Queue(j)'
  BY <1>2, NextPosition DEF Probe, Queue, SawTicket, OwnTicket, OwnWord, TypeOK, Contending
<1>3. ASSUME NEW k \in CPU, Choose(k) PROVE Queue(j)'
  BY <1>3, NextPosition DEF Choose, Queue, SawTicket, OwnTicket, OwnWord, TypeOK, Contending
<1>4. ASSUME NEW k \in CPU, ReadTicket(k) PROVE Queue(j)'
  <2>1. /\ ahead' = ahead /\ pc' = pc /\ number' = number
        /\ pc[k] = "ticket" /\ they[k] \in CPU
    BY <1>4 DEF ReadTicket
  <2>2. ASSUME NEW m \in ahead[j] PROVE SawTicket(j, m)'
    <3>1. m \in CPU /\ pc[m] \in {"wait", "spin", "stuck"} /\ booted[m] /\ SawTicket(j, m)
      BY DEF Queue, OwnWord, TypeOK
    <3>2. CASE k # j
      BY <1>4, <3>1, <3>2, <2>1 DEF ReadTicket, SawTicket, TypeOK
    <3>3. CASE k = j /\ they[j] = m
      <4>1. my_ticket'[j] = HighestSeen(j)
        BY <1>4, <3>3 DEF ReadTicket, TypeOK
      <4>2. HighestSeen(j) >= number[m]
        BY <3>1, <3>3, <2>1 DEF HighestSeen, TypeOK
      <4> QED
        BY <4>1, <4>2, <2>1 DEF SawTicket
    <3>4. CASE k = j /\ they[j] # m
      <4>1. my_ticket'[j] = HighestSeen(j) /\ they'[j] = they[j] + 1
        BY <1>4, <3>4 DEF ReadTicket, TypeOK
      <4>2. HighestSeen(j) >= my_ticket[j]
        BY <3>4, <2>1 DEF HighestSeen, TypeOK
      <4>3. m < they'[j] => m < they[j]
        BY <4>1, <3>1, <3>4, <2>1, NextPosition
      <4> QED
        BY <4>1, <4>2, <4>3, <3>1, <3>4, <2>1 DEF SawTicket, TypeOK
    <3> QED
      BY <3>2, <3>3, <3>4
  <2> QED
    BY <2>1, <2>2 DEF Queue, Contending
<1>5. ASSUME NEW k \in CPU, PublishTicket(k) PROVE Queue(j)'
  BY <1>5, MaskedTicket, NextPosition DEF PublishTicket, Queue, SawTicket, OwnTicket, OwnWord, TypeOK, Contending
<1>6. ASSUME NEW k \in CPU, PassContender(k) PROVE Queue(j)'
  BY <1>6, NextPosition DEF PassContender, Queue, SawTicket, OwnTicket, OwnWord, TypeOK, Contending
<1>7. ASSUME NEW k \in CPU, GiveWay(k) PROVE Queue(j)'
  BY <1>7, NextPosition DEF GiveWay, Queue, SawTicket, OwnTicket, OwnWord, TypeOK, Contending
<1>8. ASSUME NEW k \in CPU, TicketChanged(k) PROVE Queue(j)'
  BY <1>8, NextPosition DEF TicketChanged, Queue, SawTicket, OwnTicket, OwnWord, TypeOK, Contending
<1>9. ASSUME NEW k \in CPU, SpinOnStaleLoad(k) PROVE Queue(j)'
  BY <1>9, NextPosition DEF SpinOnStaleLoad, Queue, SawTicket, OwnTicket, OwnWord, TypeOK, Contending
<1>10. ASSUME NEW k \in CPU, Acquire(k) PROVE Queue(j)'
  BY <1>10, NextPosition DEF Acquire, Queue, SawTicket, OwnTicket, OwnWord, TypeOK, Contending
<1>11. ASSUME NEW k \in CPU, Unlock(k) PROVE Queue(j)'
  BY <1>11, NextPosition DEF Unlock, Queue, SawTicket, OwnTicket, OwnWord, TypeOK, Contending
<1>12. ASSUME NEW k \in CPU, UnlockAssert(k) PROVE Queue(j)'
  BY <1>12, NextPosition DEF UnlockAssert, Queue, SawTicket, OwnTicket, OwnWord, TypeOK, Contending
<1> QED
  BY <1>1, <1>2, <1>3, <1>4, <1>5, <1>6, <1>7, <1>8, <1>9, <1>10, <1>11, <1>12
     DEF Next, Run

\* The invariant is inductive.
LEMMA StepIInv == IInv /\ [Next]_vars => IInv'
<1> SUFFICES ASSUME IInv, [Next]_vars PROVE IInv'
  OBVIOUS
<1>1. TypeOK'
  BY TypeStep DEF IInv
<1>2. ASSUME NEW i \in CPU PROVE OwnWord(i)'
  BY <1>1, OwnWordStep DEF IInv
<1>3. ~wrapped' => ~wrapped
  BY DEF Next, Run, vars, Probe, Choose, ReadTicket, PublishTicket, PassContender,
         GiveWay, TicketChanged, SpinOnStaleLoad, Acquire, Unlock, UnlockAssert
<1>4. ASSUME ~wrapped', NEW i \in CPU PROVE OwnTicket(i)' /\ Queue(i)'
  BY <1>1, <1>3, <1>4, OwnTicketStep, QueueStep DEF IInv
<1>5. ASSUME ~wrapped', NEW i \in CPU, NEW j \in CPU, i # j PROVE Order(i, j)'
  BY <1>1, <1>3, <1>5, OrderStep DEF IInv
<1> QED
  BY <1>1, <1>2, <1>4, <1>5 DEF IInv

\* The inductive invariant gives the properties: two cores in the critical
\* section would each have a smaller priority value than the other.
LEMMA IInvSafe ==
  IInv => MutualExclusion /\ FirstComeFirstServed /\ AssertionsHold
<1> SUFFICES ASSUME IInv, ~wrapped
             PROVE  /\ AlwaysExclusive
                    /\ \A i \in CPU : pc[i] = "cs" => ahead[i] = {}
                    /\ \A i \in CPU : /\ pc[i] = "idle" => number[i] = 0
                                      /\ pc[i] = "cs" => number[i] # 0
  BY DEF MutualExclusion, FirstComeFirstServed, AssertionsHold
<1>1. ASSUME NEW i \in CPU, NEW j \in CPU, pc[i] = "cs", pc[j] \in Contending, i # j
      PROVE  PRIORITY(number[i], i) < PRIORITY(number[j], j)
  BY <1>1 DEF IInv, Order, Passed, Behind
<1>2. AlwaysExclusive
  <2> SUFFICES ASSUME NEW i \in CPU, NEW j \in CPU, pc[i] = "cs", pc[j] = "cs", i # j
               PROVE  FALSE
    BY DEF AlwaysExclusive
  <2>1. /\ PRIORITY(number[i], i) < PRIORITY(number[j], j)
        /\ PRIORITY(number[j], j) < PRIORITY(number[i], i)
    BY <1>1 DEF Contending
  <2> QED
    BY <2>1, PriorityOrder, NextPosition DEF IInv, TypeOK
<1>3. ASSUME NEW i \in CPU, pc[i] = "cs", NEW j \in ahead[i] PROVE FALSE
  <2>1. j \in CPU /\ pc[j] \in Contending /\ number[j] < number[i] /\ i # j
    BY <1>3 DEF IInv, Queue, TypeOK, Contending
  <2>2. PRIORITY(number[i], i) < PRIORITY(number[j], j)
    BY <1>1, <1>3, <2>1
  <2> QED
    BY <2>1, <2>2, PriorityOrder, NextPosition DEF IInv, TypeOK
<1>4. ASSUME NEW i \in CPU
      PROVE  (pc[i] = "idle" => number[i] = 0) /\ (pc[i] = "cs" => number[i] # 0)
  BY DEF IInv, OwnWord, OwnTicket, Contending
<1> QED
  BY <1>2, <1>3, <1>4

\* Every reachable state satisfies the inductive invariant.
LEMMA Invariance == Spec => []IInv
  BY InitIInv, StepIInv, PTL DEF Spec

\* The variables of the lock always have their types: in particular every
\* ticket in memory fits its field.
THEOREM BakeryTypes == Spec => []TypeOK
<1>1. IInv => TypeOK
  BY DEF IInv
<1> QED
  BY <1>1, Invariance, PTL

\* No two cores hold the lock at once while tickets fit their field.
THEOREM BakeryMutualExclusion == Spec => []MutualExclusion
  BY IInvSafe, Invariance, PTL

\* The lock is granted in the order of arrival while tickets fit their field.
THEOREM BakeryFirstComeFirstServed == Spec => []FirstComeFirstServed
  BY IInvSafe, Invariance, PTL

\* The assertions of trylock and unlock hold while tickets fit their field.
THEOREM BakeryAssertions == Spec => []AssertionsHold
  BY IInvSafe, Invariance, PTL
=============================================================================
