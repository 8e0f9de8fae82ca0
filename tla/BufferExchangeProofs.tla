------------------------ MODULE BufferExchangeProofs ------------------------
(***************************************************************************)
(* Proofs about BufferExchange, for any set of buffers.                    *)
(***************************************************************************)
EXTENDS BufferExchange, SequenceTheorems, TLAPS

\* Two sequences of distinct elements that share none make one.
LEMMA ConcatDistinct ==
  ASSUME NEW S, NEW q \in Seq(S), NEW r \in Seq(S),
         IsInjective(q), IsInjective(r), Range(q) \cap Range(r) = {}
  PROVE  /\ q \o r \in Seq(S) /\ Len(q \o r) = Len(q) + Len(r)
         /\ IsInjective(q \o r)
         /\ Range(q \o r) = Range(q) \cup Range(r)
<1>1. /\ q \o r \in Seq(S) /\ Len(q \o r) = Len(q) + Len(r)
      /\ \A i \in 1..(Len(q) + Len(r)) :
           (q \o r)[i] = IF i <= Len(q) THEN q[i] ELSE r[i - Len(q)]
  BY ConcatProperties
<1>2. IsInjective(q \o r)
  <2> DEFINE qr == q \o r
  <2>1. DOMAIN qr = 1..(Len(q) + Len(r)) /\ Len(q) \in Nat /\ Len(r) \in Nat
    BY <1>1
  <2>2. \A i \in 1..Len(q), j \in 1..Len(r) : q[i] # r[j]
    BY DEF Range
  <2>3. ASSUME NEW a \in 1..(Len(q) + Len(r)), NEW b \in 1..(Len(q) + Len(r)), qr[a] = qr[b]
        PROVE  a = b
    <3>1. CASE a <= Len(q) /\ b <= Len(q)
      BY <3>1, <2>1, <2>3, <1>1 DEF IsInjective
    <3>2. CASE a > Len(q) /\ b > Len(q)
      <4>1. /\ a - Len(q) \in 1..Len(r) /\ b - Len(q) \in 1..Len(r)
            /\ r[a - Len(q)] = r[b - Len(q)]
        BY <3>2, <2>1, <2>3, <1>1
      <4>2. a - Len(q) = b - Len(q)
        BY <4>1 DEF IsInjective
      <4> QED
        BY <4>2, <2>1
    <3>3. CASE a <= Len(q) /\ b > Len(q)
      <4>1. a \in 1..Len(q) /\ b - Len(q) \in 1..Len(r)
        BY <3>3, <2>1
      <4>2. q[a] = r[b - Len(q)]
        BY <3>3, <2>1, <2>3, <1>1
      <4> QED
        BY <4>1, <4>2, <2>2
    <3>4. CASE a > Len(q) /\ b <= Len(q)
      <4>1. b \in 1..Len(q) /\ a - Len(q) \in 1..Len(r)
        BY <3>4, <2>1
      <4>2. q[b] = r[a - Len(q)]
        BY <3>4, <2>1, <2>3, <1>1
      <4> QED
        BY <4>1, <4>2, <2>2
    <3> QED
      BY <2>1, <3>1, <3>2, <3>3, <3>4
  <2> HIDE DEF qr
  <2>4. IsInjective(qr)
    BY <2>1, <2>3 DEF IsInjective
  <2> QED
    BY <2>4 DEF qr
<1>3. Range(q \o r) = Range(q) \cup Range(r)
  BY RangeConcatenation
<1> QED
  BY <1>1, <1>2, <1>3

\* A new element goes to the end.
LEMMA AppendDistinct ==
  ASSUME NEW S, NEW q \in Seq(S), NEW x \in S, IsInjective(q), x \notin Range(q)
  PROVE  /\ q \o <<x>> \in Seq(S)
         /\ IsInjective(q \o <<x>>)
         /\ Range(q \o <<x>>) = Range(q) \cup {x}
<1> DEFINE r == <<x>>
<1>1. r \in Seq(S) /\ IsInjective(r) /\ Range(r) = {x}
  BY DEF IsInjective, Range
<1>2. Range(q) \cap Range(r) = {}
  BY <1>1
<1> HIDE DEF r
<1>3. q \o r \in Seq(S) /\ IsInjective(q \o r) /\ Range(q \o r) = Range(q) \cup Range(r)
  BY <1>1, <1>2, ConcatDistinct
<1> QED
  BY <1>1, <1>3 DEF r

\* Taking the first element.
LEMMA TakeFirst ==
  ASSUME NEW S, NEW q \in Seq(S), q # <<>>, IsInjective(q)
  PROVE  /\ Head(q) \in S /\ Head(q) \in Range(q)
         /\ Tail(q) \in Seq(S)
         /\ IsInjective(Tail(q))
         /\ Range(Tail(q)) = Range(q) \ {Head(q)}
<1>1. /\ Len(q) \in Nat \ {0} /\ DOMAIN q = 1..Len(q)
      /\ Head(q) = q[1]
      /\ Tail(q) \in Seq(S)
      /\ Len(Tail(q)) = Len(q) - 1 /\ DOMAIN Tail(q) = 1..(Len(q) - 1)
      /\ \A i \in 1..(Len(q) - 1) : Tail(q)[i] = q[i + 1]
  BY HeadTailProperties
<1>2. IsInjective(Tail(q))
  BY <1>1 DEF IsInjective
<1>3. Range(Tail(q)) = Range(q) \ {Head(q)}
  <2>1. \A x \in Range(Tail(q)) : x \in Range(q) /\ x # Head(q)
    BY <1>1 DEF IsInjective, Range
  <2>2. ASSUME NEW i \in 1..Len(q), q[i] # Head(q) PROVE q[i] \in Range(Tail(q))
    <3> DEFINE j == i - 1
    <3>1. i # 1
      BY <1>1, <2>2
    <3>2. j \in 1..(Len(q) - 1) /\ j + 1 = i
      BY <1>1, <3>1
    <3> HIDE DEF j
    <3>3. Tail(q)[j] = q[i]
      BY <1>1, <3>2
    <3> QED
      BY <1>1, <3>2, <3>3 DEF Range
  <2>3. \A y \in Range(q) : \E i \in 1..Len(q) : y = q[i]
    BY <1>1 DEF Range
  <2>4. \A y \in Range(q) : y # Head(q) => y \in Range(Tail(q))
    BY <2>2, <2>3
  <2> QED
    BY <2>1, <2>4
<1>4. Head(q) \in Range(q) /\ Head(q) \in S
  BY <1>1 DEF Range
<1> QED
  BY <1>1, <1>2, <1>3, <1>4
-----------------------------------------------------------------------------

\* Types and places together are inductive.
Inv == TypeOK /\ OnePlace

\* Buffers that are submitted are idle, those given back were held, and the
\* others travel as they are: a step leaves every buffer in one place.
LEMMA StepOnePlace == Inv /\ [Next]_vars => Inv'
<1> SUFFICES ASSUME Inv, [Next]_vars PROVE Inv'
  OBVIOUS
<1> USE DEF Inv, TypeOK, OnePlace
<1>1. CASE UNCHANGED vars
  BY <1>1 DEF vars
<1>2. ASSUME NEW b \in Buffers, Submit(b) PROVE Inv'
  <2>1. b \notin Range(outgoing) /\ b \notin Range(returning) /\ b \notin held
    BY <1>2 DEF Submit, Idle
  <2>2. outgoing' = outgoing \o <<b>>
    BY <1>2, AppendIsConcat DEF Submit
  <2>3. outgoing' \in Seq(Buffers) /\ IsInjective(outgoing')
        /\ Range(outgoing') = Range(outgoing) \cup {b}
    BY <2>1, <2>2, AppendDistinct
  <2> QED
    BY <1>2, <2>1, <2>3 DEF Submit
<1>3. CASE Collect
  <2>1. returning' \in Seq(Buffers) /\ IsInjective(returning')
        /\ Range(returning') \subseteq Range(returning)
    BY <1>3, TakeFirst DEF Collect
  <2> QED
    BY <1>3, <2>1 DEF Collect
<1>4. ASSUME returning' = returning \o outgoing, outgoing' = <<>>, UNCHANGED held,
             present' \subseteq present
      PROVE  Inv'
  <2>1. returning' \in Seq(Buffers) /\ IsInjective(returning')
        /\ Range(returning') = Range(returning) \cup Range(outgoing)
    BY <1>4, ConcatDistinct
  <2>2. IsInjective(<<>>) /\ Range(<<>>) = {}
    BY DEF IsInjective, Range
  <2> QED
    BY <1>4, <2>1, <2>2
<1>5. CASE Take
  <2>1. /\ Head(outgoing) \in Buffers /\ Head(outgoing) \in Range(outgoing)
        /\ outgoing' \in Seq(Buffers) /\ IsInjective(outgoing')
        /\ Range(outgoing') = Range(outgoing) \ {Head(outgoing)}
    BY <1>5, TakeFirst DEF Take
  <2> QED
    BY <1>5, <2>1 DEF Take
<1>6. CASE Decline
  <2>1. /\ Head(outgoing) \in Buffers /\ Head(outgoing) \in Range(outgoing)
        /\ outgoing' \in Seq(Buffers) /\ IsInjective(outgoing')
        /\ Range(outgoing') = Range(outgoing) \ {Head(outgoing)}
    BY <1>6, TakeFirst DEF Decline
  <2>2. Head(outgoing) \notin Range(returning) /\ returning' = returning \o <<Head(outgoing)>>
    BY <1>6, <2>1, AppendIsConcat DEF Decline
  <2>3. /\ returning' \in Seq(Buffers) /\ IsInjective(returning')
        /\ Range(returning') = Range(returning) \cup {Head(outgoing)}
    BY <2>1, <2>2, AppendDistinct
  <2> QED
    BY <1>6, <2>1, <2>3 DEF Decline
<1>7. ASSUME NEW b \in Buffers, GiveBack(b) PROVE Inv'
  <2>1. /\ b \in held /\ held' = held \ {b} /\ UNCHANGED present
        /\ b \notin Range(outgoing) /\ b \notin Range(returning)
    BY <1>7 DEF GiveBack
  <2>2. CASE returning' = Append(returning, b) /\ UNCHANGED outgoing
    <3>1. returning' = returning \o <<b>>
      BY <2>2, AppendIsConcat
    <3>2. /\ returning' \in Seq(Buffers) /\ IsInjective(returning')
          /\ Range(returning') = Range(returning) \cup {b}
      BY <2>1, <3>1, AppendDistinct
    <3> QED
      BY <2>1, <2>2, <3>2
  <2>3. CASE outgoing' = <<b>> /\ UNCHANGED returning
    <3>1. <<b>> \in Seq(Buffers) /\ IsInjective(<<b>>) /\ Range(<<b>>) = {b}
      BY DEF IsInjective, Range
    <3> QED
      BY <2>1, <2>3, <3>1
  <2>4. CASE UNCHANGED <<outgoing, returning>>
    BY <2>1, <2>4
  <2> QED
    BY <1>7, <2>2, <2>3, <2>4 DEF GiveBack
<1>8. ASSUME \/ outgoing' = outgoing \/ outgoing' = <<>>,
             \/ returning' = returning \/ returning' = <<>>,
             held' \subseteq held, present' \subseteq {"producer", "consumer"}
      PROVE  Inv'
  <2>1. <<>> \in Seq(Buffers) /\ IsInjective(<<>>) /\ Range(<<>>) = {}
    BY DEF IsInjective, Range
  <2> QED
    BY <1>8, <2>1
<1>9. CASE Recall
  BY <1>4, <1>9 DEF Recall
<1>10. ASSUME NEW role \in {"producer", "consumer"}, Join(role) PROVE Inv'
  BY <1>8, <1>10 DEF Join
<1>11. CASE ProducerLeaves
  BY <1>8, <1>11 DEF ProducerLeaves
<1>12. CASE ConsumerLeaves
  <2>1. present' \subseteq present
    BY <1>12 DEF ConsumerLeaves
  <2> QED
    BY <1>4, <1>8, <1>12, <2>1 DEF ConsumerLeaves
<1>13. CASE Reset
  BY <1>8, <1>13 DEF Reset
<1> QED
  BY <1>1, <1>2, <1>3, <1>5, <1>6, <1>7, <1>9, <1>10, <1>11, <1>12, <1>13 DEF Next

\* In an exchange every buffer is in one place, and in a direction once: with
\* TunnelImplementsExchange, so is every slot of a tunnel.
THEOREM ExchangeOnePlace == Spec => []OnePlace
<1>1. Init => Inv
  BY DEF Init, Inv, TypeOK, OnePlace, IsInjective, Range
<1>2. Inv => OnePlace
  BY DEF Inv
<1> QED
  BY <1>1, <1>2, StepOnePlace, PTL DEF Spec
=============================================================================
