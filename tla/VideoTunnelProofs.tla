-------------------------- MODULE VideoTunnelProofs --------------------------
(***************************************************************************)
(* Proofs about VideoTunnel, for any sessions, threads and pool size, as   *)
(* long as a session makes one call at a time.                             *)
(***************************************************************************)
EXTENDS VideoTunnel, SequenceTheorems, FiniteSetTheorems, TLAPS

\* What is proved of the exchange, for the tunnel as one.
ExchangeProofs == INSTANCE BufferExchangeProofs WITH
  Buffers <- Slots,
  present <- {role \in {"producer", "consumer"} :
                (IF role = "producer" THEN producer ELSE consumer) # None},
  outgoing <- to_consumer,
  held <- {s \in Slots : status[s] = "acquire"},
  returning <- to_producer

\* A session is used by one thread: what the clients of the driver do, and
\* what a slot picked by vt_get_free_buffer relies on.
OneCallAtATime ==
  \A t, u \in Threads : SessionOf[t] = SessionOf[u] => t = u

USE SessionAssumption, PoolAssumption DEF loanVars

\* Both modules mean the same by a sequence of distinct elements.
LEMMA SameNotions ==
  /\ \A f : ExchangeProofs!IsInjective(f) <=> IsInjective(f)
  /\ \A f : ExchangeProofs!Range(f) = Range(f)
BY DEF IsInjective, Range, ExchangeProofs!IsInjective, ExchangeProofs!Range

\* Two sequences of distinct elements that share none make one.
LEMMA ConcatDistinct ==
  ASSUME NEW S, NEW q \in Seq(S), NEW r \in Seq(S),
         IsInjective(q), IsInjective(r), Range(q) \cap Range(r) = {}
  PROVE  /\ q \o r \in Seq(S) /\ Len(q \o r) = Len(q) + Len(r)
         /\ IsInjective(q \o r)
         /\ Range(q \o r) = Range(q) \cup Range(r)
BY SameNotions, ExchangeProofs!ConcatDistinct

\* A new element goes to the end.
LEMMA AppendDistinct ==
  ASSUME NEW S, NEW q \in Seq(S), NEW x \in S, IsInjective(q), x \notin Range(q)
  PROVE  /\ q \o <<x>> \in Seq(S)
         /\ IsInjective(q \o <<x>>)
         /\ Range(q \o <<x>>) = Range(q) \cup {x}
BY SameNotions, ExchangeProofs!AppendDistinct

\* Taking the first element.
LEMMA TakeFirst ==
  ASSUME NEW S, NEW q \in Seq(S), q # <<>>, IsInjective(q)
  PROVE  /\ Head(q) \in S /\ Head(q) \in Range(q)
         /\ Tail(q) \in Seq(S)
         /\ IsInjective(Tail(q))
         /\ Range(Tail(q)) = Range(q) \ {Head(q)}
BY SameNotions, ExchangeProofs!TakeFirst

\* A fifo of distinct slots has room for all the slots that are not in it.
LEMMA FifoHasRoom ==
  ASSUME NEW q \in Seq(Slots), IsInjective(q)
  PROVE  Len(q) <= VT_POOL_SIZE
<1>1. IsFiniteSet(Slots) /\ Cardinality(Slots) = VT_POOL_SIZE
  BY FS_Interval DEF Slots
<1>2. q \in Injection(1..Len(q), Slots)
  BY DEF Injection
<1>3. Cardinality(1..Len(q)) <= Cardinality(Slots)
  BY <1>1, <1>2, FS_Injection
<1>4. Cardinality(1..Len(q)) = Len(q)
  BY FS_Interval
<1> QED
  BY <1>1, <1>3, <1>4

\* Two fifos of distinct slots that share none fit into one.
LEMMA PutAll ==
  ASSUME NEW q \in Seq(Slots), NEW r \in Seq(Slots),
         IsInjective(q), IsInjective(r), Range(q) \cap Range(r) = {}
  PROVE  /\ Put(q, r) = q \o r
         /\ Put(q, r) \in Seq(Slots)
         /\ IsInjective(Put(q, r))
         /\ Range(Put(q, r)) = Range(q) \cup Range(r)
<1>1. /\ q \o r \in Seq(Slots) /\ Len(q \o r) = Len(q) + Len(r)
      /\ IsInjective(q \o r) /\ Range(q \o r) = Range(q) \cup Range(r)
  BY ConcatDistinct
<1>2. Len(q \o r) <= VT_POOL_SIZE
  BY <1>1, FifoHasRoom
<1>3. Put(q, r) = q \o r
  BY <1>1, <1>2 DEF Put
<1> QED
  BY <1>1, <1>3

\* A slot that is in no fifo can be put into one.
LEMMA PutOne ==
  ASSUME NEW q \in Seq(Slots), NEW s \in Slots, IsInjective(q), s \notin Range(q)
  PROVE  /\ Put(q, <<s>>) = q \o <<s>>
         /\ Put(q, <<s>>) \in Seq(Slots)
         /\ IsInjective(Put(q, <<s>>))
         /\ Range(Put(q, <<s>>)) = Range(q) \cup {s}
<1>1. <<s>> \in Seq(Slots) /\ IsInjective(<<s>>) /\ Range(<<s>>) = {s}
  BY DEF IsInjective, Range
<1>2. Range(q) \cap Range(<<s>>) = {}
  BY <1>1
<1> QED
  BY <1>1, <1>2, PutAll

-----------------------------------------------------------------------------
(* The inductive invariant.  A session inside a call stays connected, which *)
(* makes the thread that has picked a slot the only one that picks slots.   *)

\* The test at the entry of a call still holds inside it.
InCalls ==
  \A t \in Threads :
    /\ pc[t] \in {"queue", "fill", "dequeue", "pop", "cancel"} => producer = SessionOf[t]
    /\ pc[t] \in {"acquire", "release"} => consumer = SessionOf[t]

\* A picked slot holds a buffer and is in nobody's way.
Filling ==
  \A t \in Threads :
    pc[t] = "fill" => /\ status[picked[t]] \in {"free", "dequeue"}
                      /\ file_buffer[picked[t]] /\ ~file_fence[picked[t]]

\* Pointers that are followed later are set now.
Pointers ==
  \A s \in Slots : /\ status[s] \in {"queue", "acquire"} => file_buffer[s]
                   /\ status[s] = "queue" => ~file_fence[s]

TunnelInv ==
  TypeOK /\ StatusTellsFifo /\ InCalls /\ Filling /\ Pointers /\ ReferencesBalanced

\* Nothing but the places of the threads and the files of the consumers changes.
SameBuffers == UNCHANGED <<fifoVars, slotVars, fileVars, picked>>

\* The initial state, a tunnel nobody has connected to.
LEMMA TunnelInit == Init => TunnelInv
<1> SUFFICES ASSUME Init PROVE TunnelInv
  OBVIOUS
<1>1. TypeOK
  <2>1. /\ current \in [Slots -> BOOLEAN]
        /\ file_buffer \in [Slots -> BOOLEAN] /\ file_fence \in [Slots -> BOOLEAN]
        /\ file_ref \in [Slots -> BOOLEAN] /\ fence_ref \in [Slots -> BOOLEAN]
    BY Zenon DEF Init
  <2>2. 0 \in Slots
    BY DEF Slots
  <2>3. /\ picked \in [Threads -> Slots]
        /\ view \in [Consumers -> [Fds -> Slots \cup {None}]]
        /\ pc \in [Threads -> Calls \cup {"out", "fill", "pop"}]
    BY <2>2 DEF Init
  <2>4. /\ status \in [Slots -> {"queue", "dequeue", "acquire", "release", "free"}]
        /\ session_pro \in [Slots -> Producers \cup {None}]
        /\ buffer_fd_con \in [Slots -> Fds \cup {NoFd}]
    BY DEF Init
  <2>5. /\ producer \in Producers \cup {None} /\ consumer \in Consumers \cup {None}
        /\ need_refresh \in BOOLEAN /\ lent \subseteq Slots /\ unreported \subseteq Slots
    BY DEF Init
  <2>6. to_consumer \in Seq(Slots) /\ to_producer \in Seq(Slots)
    BY EmptySeq DEF Init
  <2> QED
    BY <2>1, <2>3, <2>4, <2>5, <2>6 DEF TypeOK
<1>2. StatusTellsFifo
  BY DEF Init, StatusTellsFifo, IsInjective, Range
<1>3. InCalls /\ Filling /\ Pointers /\ ReferencesBalanced
  BY DEF Init, InCalls, Filling, Pointers, ReferencesBalanced
<1> QED
  BY <1>1, <1>2, <1>3 DEF TunnelInv

\* A step that changes no buffer and leaves no call keeps the invariant, if
\* the sessions inside calls stay connected.
LEMMA SameBuffersStep ==
  ASSUME TunnelInv, TypeOK', SameBuffers, InCalls',
         \A t \in Threads : pc'[t] = "fill" <=> pc[t] = "fill"
  PROVE  TunnelInv'
<1>1. StatusTellsFifo'
  BY DEF TunnelInv, StatusTellsFifo, SameBuffers, fifoVars, slotVars
<1>2. Filling'
  BY DEF TunnelInv, Filling, SameBuffers, slotVars, fileVars
<1>3. Pointers' /\ ReferencesBalanced'
  BY DEF TunnelInv, Pointers, ReferencesBalanced, SameBuffers, slotVars, fileVars
<1> QED
  BY <1>1, <1>2, <1>3 DEF TunnelInv

\* Entering a call, giving up, and asking for a refresh.
LEMMA QuietCallStep ==
  ASSUME TunnelInv, NEW t \in Threads,
         \/ \E call \in Calls : Enter(t, call)
         \/ QueueNoSlot(t) \/ DequeueWait(t) \/ DequeueGiveUp(t) \/ AcquireGiveUp(t)
         \/ Refresh(t) \/ \E fd \in Fds : ReleaseUnknown(t, fd)
  PROVE  TunnelInv'
<1> USE DEF Goto, Return, TunnelInv, tunnelVars
<1>1. /\ SameBuffers /\ UNCHANGED <<producer, consumer, loanVars, view>>
      /\ need_refresh' \in BOOLEAN
  BY DEF SameBuffers, Enter, QueueNoSlot, DequeueWait, DequeueGiveUp,
         AcquireGiveUp, Refresh, ReleaseUnknown, TypeOK
<1>2. \E where \in Calls \cup {"out", "pop"} : pc' = [pc EXCEPT ![t] = where]
  BY DEF Enter, QueueNoSlot, DequeueWait, DequeueGiveUp, AcquireGiveUp, Refresh,
         ReleaseUnknown
<1>3. TypeOK'
  BY <1>1, <1>2 DEF TypeOK, SameBuffers, fifoVars, slotVars, fileVars
<1>4. pc[t] # "fill" /\ \A u \in Threads : pc'[u] = "fill" <=> pc[u] = "fill"
  BY DEF Enter, QueueNoSlot, DequeueWait, DequeueGiveUp, AcquireGiveUp, Refresh,
         ReleaseUnknown, TypeOK, AllCalls
<1>5. InCalls'
  BY <1>1 DEF InCalls, Enter, QueueNoSlot, DequeueWait, DequeueGiveUp, AcquireGiveUp,
         Refresh, ReleaseUnknown, TypeOK, AllCalls
<1> QED
  BY <1>1, <1>3, <1>4, <1>5, SameBuffersStep

\* Connecting changes no buffer but the connection ids and the loan.
LEMMA ConnectStep ==
  ASSUME TunnelInv, NEW t \in Threads, ConnectProducer(t) \/ ConnectConsumer(t)
  PROVE  TunnelInv'
<1>1. TypeOK'
  <2>1. /\ producer' \in Producers \cup {None} /\ consumer' \in Consumers \cup {None}
        /\ need_refresh' \in BOOLEAN
        /\ lent' \subseteq Slots /\ unreported' \subseteq Slots
    BY DEF TunnelInv, TypeOK, ConnectProducer, ConnectConsumer, NewConnection, tunnelVars
  <2>2. current' \in [Slots -> BOOLEAN]
    <3>1. CASE ConnectProducer(t)
      BY <3>1, Zenon DEF ConnectProducer, NewConnection
    <3>2. CASE ConnectConsumer(t)
      BY <3>2 DEF TunnelInv, TypeOK, ConnectConsumer, slotVars
    <3> QED
      BY <3>1, <3>2
  <2>3. UNCHANGED <<fifoVars, status, session_pro, buffer_fd_con, fileVars, pc, picked, view>>
    BY DEF ConnectProducer, ConnectConsumer, slotVars
  <2> QED
    BY <2>1, <2>2, <2>3 DEF TunnelInv, TypeOK, fifoVars, fileVars
<1>2. UNCHANGED <<fifoVars, status, fileVars, pc, picked>>
  BY DEF ConnectProducer, ConnectConsumer, slotVars
<1>3. InCalls'
  BY DEF TunnelInv, TypeOK, InCalls, ConnectProducer, ConnectConsumer, Sessions
<1>4. StatusTellsFifo' /\ Pointers'
  BY <1>2 DEF TunnelInv, StatusTellsFifo, Pointers, fifoVars, fileVars
<1>5. Filling' /\ ReferencesBalanced'
  BY <1>2 DEF TunnelInv, Filling, ReferencesBalanced, fileVars
<1> QED
  BY <1>1, <1>3, <1>4, <1>5 DEF TunnelInv

\* vt_get_free_buffer and the file put into the slot it returns.
LEMMA QueuePickStep ==
  ASSUME OneCallAtATime, TunnelInv, NEW t \in Threads, NEW s \in Slots, QueuePick(t, s)
  PROVE  TunnelInv'
<1> USE DEF TunnelInv
<1> PICK valid \in BOOLEAN :
      /\ file_buffer' = [file_buffer EXCEPT ![s] = valid]
      /\ file_ref' = [file_ref EXCEPT ![s] = valid]
      /\ pc' = [pc EXCEPT ![t] = IF valid THEN "fill" ELSE "out"]
  BY DEF QueuePick, Goto
<1>1. /\ pc[t] = "queue" /\ status[s] \in {"free", "dequeue"}
      /\ file_fence' = [file_fence EXCEPT ![s] = FALSE]
      /\ buffer_fd_con' = [buffer_fd_con EXCEPT ![s] = NoFd]
      /\ picked' = [picked EXCEPT ![t] = s]
      /\ UNCHANGED <<tunnelVars, fifoVars, status, session_pro, current, fence_ref, loanVars, view>>
  BY DEF QueuePick, IsLowest, Reusable, FdCleared
<1>2. TypeOK'
  BY <1>1 DEF TypeOK, tunnelVars, fifoVars
<1>3. StatusTellsFifo'
  BY <1>1 DEF StatusTellsFifo, fifoVars
<1>4. InCalls'
  BY <1>1 DEF InCalls, TypeOK, tunnelVars
<1>5. \A u \in Threads : u # t => pc[u] # "fill"
  BY <1>1 DEF InCalls, OneCallAtATime
<1>6. Filling'
  BY <1>1, <1>5 DEF Filling, TypeOK
<1>7. Pointers'
  BY <1>1 DEF Pointers, TypeOK
<1>8. ReferencesBalanced'
  <2> SUFFICES ASSUME NEW x \in Slots
               PROVE  /\ file_ref'[x] <=> \/ status'[x] = "queue"
                                          \/ \E u \in Threads : pc'[u] = "fill" /\ picked'[u] = x
                      /\ status'[x] = "queue" => file_buffer'[x]
                      /\ fence_ref'[x] <=> status'[x] = "release" /\ file_fence'[x]
    BY DEF ReferencesBalanced
  <2>1. /\ file_ref[x] <=> \/ status[x] = "queue"
                           \/ \E u \in Threads : pc[u] = "fill" /\ picked[u] = x
        /\ fence_ref[x] <=> status[x] = "release" /\ file_fence[x]
    BY DEF ReferencesBalanced
  <2>2. (\E u \in Threads : pc'[u] = "fill" /\ picked'[u] = x) <=> x = s /\ valid
    BY <1>1, <1>5 DEF TypeOK
  <2>3. ~ \E u \in Threads : pc[u] = "fill" /\ picked[u] = x
    BY <1>1, <1>5
  <2>4. file_ref'[x] <=> status'[x] = "queue" \/ (x = s /\ valid)
    BY <1>1, <2>1, <2>3 DEF TypeOK
  <2>5. fence_ref'[x] <=> status'[x] = "release" /\ file_fence'[x]
    BY <1>1, <2>1 DEF TypeOK
  <2>6. status'[x] = "queue" => file_buffer'[x]
    BY <1>1 DEF TypeOK, Pointers
  <2> QED
    BY <2>2, <2>4, <2>5, <2>6
<1> QED
  BY <1>2, <1>3, <1>4, <1>6, <1>7, <1>8

\* The filled slot is queued.
LEMMA QueuePutStep ==
  ASSUME OneCallAtATime, TunnelInv, NEW t \in Threads, QueuePut(t)
  PROVE  TunnelInv'
<1> USE DEF TunnelInv
<1> DEFINE s == picked[t]
<1>1. /\ pc[t] = "fill" /\ s \in Slots /\ s \notin Range(to_consumer)
      /\ status[s] \in {"free", "dequeue"} /\ file_buffer[s] /\ ~file_fence[s]
      /\ producer = SessionOf[t] /\ SessionOf[t] \in Producers
  BY DEF QueuePut, TypeOK, Filling, StatusTellsFifo, InCalls, Sessions
<1>2. /\ status' = [status EXCEPT ![s] = "queue"]
      /\ session_pro' = [session_pro EXCEPT ![s] = SessionOf[t]]
      /\ current' = [current EXCEPT ![s] = TRUE]
      /\ buffer_fd_con' = [buffer_fd_con EXCEPT ![s] = NoFd]
      /\ to_consumer' = Put(to_consumer, <<s>>)
      /\ lent' = lent \cup {s} /\ unreported' = unreported \ {s}
      /\ pc' = [pc EXCEPT ![t] = "out"] /\ picked' = [picked EXCEPT ![t] = 0]
      /\ UNCHANGED <<tunnelVars, to_producer, fileVars, view>>
  BY DEF QueuePut, Goto, FdCleared
<1> HIDE DEF s
<1>3. /\ to_consumer' \in Seq(Slots) /\ IsInjective(to_consumer')
      /\ Range(to_consumer') = Range(to_consumer) \cup {s}
  BY <1>1, <1>2, PutOne DEF TypeOK, StatusTellsFifo
<1>4. TypeOK'
  <2>1. 0 \in Slots
    BY DEF Slots
  <2> QED
    BY <1>1, <1>2, <1>3, <2>1 DEF TypeOK, tunnelVars, fileVars
<1>5. StatusTellsFifo'
  BY <1>1, <1>2, <1>3 DEF StatusTellsFifo, TypeOK
<1>6. InCalls'
  BY <1>2 DEF InCalls, TypeOK, tunnelVars
<1>7. \A u \in Threads : u # t => pc[u] # "fill"
  BY <1>1 DEF InCalls, OneCallAtATime
<1>8. Filling' /\ Pointers'
  BY <1>1, <1>2, <1>7 DEF Filling, Pointers, TypeOK, fileVars
<1>9. ReferencesBalanced'
  <2> SUFFICES ASSUME NEW x \in Slots
               PROVE  /\ file_ref'[x] <=> \/ status'[x] = "queue"
                                          \/ \E u \in Threads : pc'[u] = "fill" /\ picked'[u] = x
                      /\ status'[x] = "queue" => file_buffer'[x]
                      /\ fence_ref'[x] <=> status'[x] = "release" /\ file_fence'[x]
    BY DEF ReferencesBalanced
  <2>1. /\ file_ref[x] <=> \/ status[x] = "queue"
                           \/ \E u \in Threads : pc[u] = "fill" /\ picked[u] = x
        /\ fence_ref[x] <=> status[x] = "release" /\ file_fence[x]
    BY DEF ReferencesBalanced
  <2>2. (\E u \in Threads : pc[u] = "fill" /\ picked[u] = x) <=> x = s
    BY <1>1, <1>7 DEF s
  <2>3. ~ \E u \in Threads : pc'[u] = "fill" /\ picked'[u] = x
    BY <1>2, <1>7 DEF TypeOK
  <2>4. file_ref'[x] <=> status'[x] = "queue"
    BY <1>1, <1>2, <2>1, <2>2 DEF TypeOK, fileVars
  <2>5. fence_ref'[x] <=> status'[x] = "release" /\ file_fence'[x]
    BY <1>1, <1>2, <2>1 DEF TypeOK, fileVars
  <2>6. status'[x] = "queue" => file_buffer'[x]
    BY <1>8 DEF Pointers
  <2> QED
    BY <2>3, <2>4, <2>5, <2>6
<1> QED
  BY <1>4, <1>5, <1>6, <1>8, <1>9
-----------------------------------------------------------------------------
(* The other steps move slots that nobody fills.                            *)

\* Nothing happens to slot x that its status tells.
Unmoved(x) ==
  /\ status'[x] = status[x] \/ {status[x], status'[x]} \subseteq {"free", "dequeue"}
  /\ file_fence'[x] = file_fence[x]
  /\ file_ref'[x] = file_ref[x] /\ fence_ref'[x] = fence_ref[x]

\* Slot x goes on, and its references go with it.
Moved(x) ==
  /\ status[x] \in {"queue", "acquire", "release"}
  /\ status'[x] \in {"queue", "acquire"} => file_buffer[x]
  /\ status'[x] = "queue" => ~file_fence'[x]
  /\ file_ref'[x] <=> status'[x] = "queue"
  /\ fence_ref'[x] <=> status'[x] = "release" /\ file_fence'[x]

\* A step that moves slots between their places, each with its file and
\* fence references, keeps the whole invariant.
LEMMA MoveStep ==
  ASSUME TunnelInv, TypeOK', StatusTellsFifo', InCalls',
         UNCHANGED <<picked, file_buffer>>,
         \A u \in Threads : pc'[u] = "fill" <=> pc[u] = "fill",
         \A x \in Slots : Unmoved(x) \/ Moved(x)
  PROVE  TunnelInv'
<1>1. Filling'
  <2> SUFFICES ASSUME NEW u \in Threads, pc[u] = "fill"
               PROVE  /\ status'[picked[u]] \in {"free", "dequeue"}
                      /\ file_buffer[picked[u]] /\ ~file_fence'[picked[u]]
    BY DEF Filling
  <2>1. /\ picked[u] \in Slots /\ status[picked[u]] \in {"free", "dequeue"}
        /\ file_buffer[picked[u]] /\ ~file_fence[picked[u]]
    BY DEF TunnelInv, TypeOK, Filling
  <2>2. Unmoved(picked[u])
    BY <2>1 DEF Moved
  <2> QED
    BY <2>1, <2>2 DEF Unmoved
<1>2. Pointers'
  BY DEF TunnelInv, Pointers, Unmoved, Moved
<1>3. ReferencesBalanced'
  <2> SUFFICES ASSUME NEW x \in Slots
               PROVE  /\ file_ref'[x] <=> \/ status'[x] = "queue"
                                          \/ \E u \in Threads : pc[u] = "fill" /\ picked[u] = x
                      /\ status'[x] = "queue" => file_buffer[x]
                      /\ fence_ref'[x] <=> status'[x] = "release" /\ file_fence'[x]
    BY DEF ReferencesBalanced
  <2>1. /\ file_ref[x] <=> \/ status[x] = "queue"
                           \/ \E u \in Threads : pc[u] = "fill" /\ picked[u] = x
        /\ status[x] = "queue" => file_buffer[x]
        /\ fence_ref[x] <=> status[x] = "release" /\ file_fence[x]
    BY DEF TunnelInv, ReferencesBalanced
  <2>2. CASE Unmoved(x)
    BY <2>1, <2>2 DEF Unmoved
  <2>3. CASE Moved(x)
    <3>1. ~ \E u \in Threads : pc[u] = "fill" /\ picked[u] = x
      BY <2>3 DEF Moved, TunnelInv, Filling
    <3> QED
      BY <2>3, <3>1 DEF Moved
  <2> QED
    BY <2>2, <2>3
<1> QED
  BY <1>1, <1>2, <1>3 DEF TunnelInv

\* A call that is not queueing a buffer returns.
LEMMA ReturnsFrom ==
  ASSUME TunnelInv, NEW t \in Threads, pc[t] # "fill",
         pc' = [pc EXCEPT ![t] = "out"], UNCHANGED <<producer, consumer>>
  PROVE  /\ InCalls'
         /\ pc' \in [Threads -> Calls \cup {"out", "fill", "pop"}]
         /\ \A u \in Threads : pc'[u] = "fill" <=> pc[u] = "fill"
BY DEF TunnelInv, TypeOK, InCalls

\* vt_get_buffer, dequeued by the producer.
LEMMA DequeuedStep ==
  ASSUME TunnelInv, NEW t \in Threads, NEW s \in Slots, Dequeued(t, s),
         lent' \subseteq Slots, unreported' \subseteq Slots
  PROVE  TunnelInv'
<1> USE DEF TunnelInv
<1>1. /\ pc[t] = "pop" /\ to_producer # <<>> /\ s = Head(to_producer)
      /\ to_producer' = Tail(to_producer)
      /\ status' = [status EXCEPT ![s] = "dequeue"]
      /\ fence_ref' = [fence_ref EXCEPT ![s] = fence_ref[s] /\ ~file_fence[s]]
      /\ pc' = [pc EXCEPT ![t] = "out"]
      /\ UNCHANGED <<tunnelVars, to_consumer, session_pro, current, buffer_fd_con,
                     file_buffer, file_fence, file_ref, picked, view>>
  BY DEF Dequeued, Goto
<1>2. /\ s \in Range(to_producer) /\ status[s] = "release"
      /\ to_producer' \in Seq(Slots) /\ IsInjective(to_producer')
      /\ Range(to_producer') = Range(to_producer) \ {s}
  BY <1>1, TakeFirst DEF TypeOK, StatusTellsFifo
<1>3. /\ InCalls' /\ pc' \in [Threads -> Calls \cup {"out", "fill", "pop"}]
      /\ \A u \in Threads : pc'[u] = "fill" <=> pc[u] = "fill"
  BY <1>1, ReturnsFrom DEF tunnelVars
<1>4. TypeOK'
  BY <1>1, <1>2, <1>3 DEF TypeOK, tunnelVars
<1>5. StatusTellsFifo'
  BY <1>1, <1>2 DEF StatusTellsFifo, TypeOK
<1>6. \A x \in Slots : Unmoved(x) \/ Moved(x)
  BY <1>1, <1>2 DEF Unmoved, Moved, TypeOK, ReferencesBalanced, Filling
<1> QED
  BY <1>1, <1>3, <1>4, <1>5, <1>6, MoveStep

\* A buffer becomes a file of the consumer.
LEMMA AcquireStep ==
  ASSUME TunnelInv, NEW t \in Threads, NEW s \in Slots, NEW fd \in Fds, Acquire(t, s, fd)
  PROVE  TunnelInv'
<1> USE DEF TunnelInv
<1>1. /\ pc[t] = "acquire" /\ to_consumer # <<>> /\ s = Head(to_consumer)
      /\ to_consumer' = Tail(to_consumer)
      /\ status' = [status EXCEPT ![s] = "acquire"]
      /\ buffer_fd_con' = [buffer_fd_con EXCEPT ![s] = fd]
      /\ file_ref' = [file_ref EXCEPT ![s] = FALSE]
      /\ view' = [view EXCEPT ![SessionOf[t]][fd] = s]
      /\ pc' = [pc EXCEPT ![t] = "out"]
      /\ UNCHANGED <<tunnelVars, to_producer, session_pro, current,
                     file_buffer, file_fence, fence_ref, picked, loanVars>>
  BY DEF Acquire, Goto
<1>2. /\ s \in Range(to_consumer) /\ status[s] = "queue"
      /\ to_consumer' \in Seq(Slots) /\ IsInjective(to_consumer')
      /\ Range(to_consumer') = Range(to_consumer) \ {s}
  BY <1>1, TakeFirst DEF TypeOK, StatusTellsFifo
<1>3. /\ InCalls' /\ pc' \in [Threads -> Calls \cup {"out", "fill", "pop"}]
      /\ \A u \in Threads : pc'[u] = "fill" <=> pc[u] = "fill"
  BY <1>1, ReturnsFrom DEF tunnelVars
<1>4. TypeOK'
  BY <1>1, <1>2, <1>3 DEF TypeOK, tunnelVars
<1>5. StatusTellsFifo'
  BY <1>1, <1>2 DEF StatusTellsFifo, TypeOK
<1>6. \A x \in Slots : Unmoved(x) \/ Moved(x)
  <2>1. \A x \in Slots : x # s => Unmoved(x)
    BY <1>1 DEF Unmoved, TypeOK
  <2>2. file_buffer[s] /\ ~fence_ref[s]
    BY <1>2 DEF Pointers, ReferencesBalanced
  <2>3. Moved(s)
    BY <1>1, <1>2, <2>2 DEF Moved, TypeOK
  <2> QED
    BY <2>1, <2>3
<1> QED
  BY <1>1, <1>3, <1>4, <1>5, <1>6, MoveStep

\* A buffer the consumer has no file descriptor for.
LEMMA AcquireNoFdStep ==
  ASSUME TunnelInv, NEW t \in Threads, NEW s \in Slots, AcquireNoFd(t, s)
  PROVE  TunnelInv'
<1> USE DEF TunnelInv
<1>1. /\ pc[t] = "acquire" /\ to_consumer # <<>> /\ s = Head(to_consumer)
      /\ to_consumer' = Tail(to_consumer)
      /\ to_producer' = Put(to_producer, <<s>>)
      /\ status' = [status EXCEPT ![s] = "release"]
      /\ file_ref' = [file_ref EXCEPT ![s] = file_ref[s] /\ ~file_buffer[s]]
      /\ pc' = [pc EXCEPT ![t] = "out"]
      /\ UNCHANGED <<tunnelVars, session_pro, current, buffer_fd_con,
                     file_buffer, file_fence, fence_ref, picked, loanVars, view>>
  BY DEF AcquireNoFd, Goto
<1>2. /\ s \in Range(to_consumer) /\ status[s] = "queue"
      /\ to_consumer' \in Seq(Slots) /\ IsInjective(to_consumer')
      /\ Range(to_consumer') = Range(to_consumer) \ {s}
  BY <1>1, TakeFirst DEF TypeOK, StatusTellsFifo
<1>3. /\ to_producer' \in Seq(Slots) /\ IsInjective(to_producer')
      /\ Range(to_producer') = Range(to_producer) \cup {s}
  BY <1>1, <1>2, PutOne DEF TypeOK, StatusTellsFifo
<1>4. /\ InCalls' /\ pc' \in [Threads -> Calls \cup {"out", "fill", "pop"}]
      /\ \A u \in Threads : pc'[u] = "fill" <=> pc[u] = "fill"
  BY <1>1, ReturnsFrom DEF tunnelVars
<1>5. TypeOK'
  BY <1>1, <1>2, <1>3, <1>4 DEF TypeOK, tunnelVars
<1>6. StatusTellsFifo'
  <2>1. \A x \in Slots : status'[x] = IF x = s THEN "release" ELSE status[x]
    BY <1>1 DEF TypeOK
  <2> QED
    BY <1>2, <1>3, <2>1 DEF StatusTellsFifo
<1>7. \A x \in Slots : Unmoved(x) \/ Moved(x)
  <2>1. \A x \in Slots : x # s => Unmoved(x)
    BY <1>1 DEF Unmoved, TypeOK
  <2>2. file_buffer[s] /\ ~file_fence[s] /\ ~fence_ref[s]
    BY <1>2 DEF Pointers, ReferencesBalanced
  <2>3. Moved(s)
    BY <1>1, <1>2, <2>2 DEF Moved, TypeOK
  <2> QED
    BY <2>1, <2>3
<1> QED
  BY <1>1, <1>4, <1>5, <1>6, <1>7, MoveStep

\* The slot a release finds is an acquired one, in no fifo.
LEMMA FoundSlot ==
  ASSUME TunnelInv, NEW t \in Threads, NEW fd \in Fds, NEW s \in Slots, Found(t, fd, s)
  PROVE  /\ pc[t] = "release" /\ status[s] = "acquire" /\ consumer = SessionOf[t]
         /\ s \notin Range(to_consumer) /\ s \notin Range(to_producer)
         /\ file_buffer[s] /\ ~fence_ref[s]
<1>1. pc[t] = "release" /\ status[s] = "acquire"
  BY DEF Found, IsLowest, Matching
<1> QED
  BY <1>1 DEF TunnelInv, InCalls, StatusTellsFifo, Pointers, ReferencesBalanced

\* A release, whatever becomes of the slot.
LEMMA ReleasedStep ==
  ASSUME TunnelInv, NEW t \in Threads, NEW fd \in Fds, NEW s \in Slots, Released(t, fd, s)
  PROVE  TunnelInv'
<1> USE DEF TunnelInv
<1>1. /\ pc[t] = "release" /\ status[s] = "acquire"
      /\ s \notin Range(to_consumer) /\ s \notin Range(to_producer)
      /\ file_buffer[s] /\ ~fence_ref[s]
  BY FoundSlot DEF Released, ReleaseToNobody, ReleaseToProducer, ReleaseAndRequeue
<1>2. /\ pc' = [pc EXCEPT ![t] = "out"]
      /\ UNCHANGED <<tunnelVars, session_pro, current, file_buffer, picked, loanVars, view>>
  BY DEF Released, ReleaseToNobody, ReleaseToProducer, ReleaseAndRequeue, Goto, fileVars
<1>3. /\ InCalls' /\ pc' \in [Threads -> Calls \cup {"out", "fill", "pop"}]
      /\ \A u \in Threads : pc'[u] = "fill" <=> pc[u] = "fill"
  BY <1>1, <1>2, ReturnsFrom DEF tunnelVars
<1>4. CASE ReleaseToNobody(t, fd, s)
  <2>1. /\ status' = [status EXCEPT ![s] = "free"]
        /\ UNCHANGED <<fifoVars, buffer_fd_con, file_fence, file_ref, fence_ref>>
    BY <1>4 DEF ReleaseToNobody, fileVars
  <2>2. TypeOK'
    BY <1>2, <1>3, <2>1 DEF TypeOK, tunnelVars, fifoVars
  <2>3. StatusTellsFifo'
    BY <1>1, <2>1 DEF StatusTellsFifo, TypeOK, fifoVars
  <2>4. \A x \in Slots : x # s => Unmoved(x)
    BY <2>1 DEF Unmoved, TypeOK
  <2>5. Moved(s)
    BY <1>1, <2>1 DEF Moved, TypeOK, ReferencesBalanced, Filling
  <2> QED
    BY <1>2, <1>3, <2>2, <2>3, <2>4, <2>5, MoveStep
<1>5. CASE ReleaseToProducer(t, fd, s)
  <2> PICK fence \in BOOLEAN :
        /\ file_fence' = [file_fence EXCEPT ![s] = fence]
        /\ fence_ref' = [fence_ref EXCEPT ![s] = fence]
    BY <1>5 DEF ReleaseToProducer
  <2>1. /\ status' = [status EXCEPT ![s] = "release"]
        /\ to_producer' = Put(to_producer, <<s>>)
        /\ UNCHANGED <<to_consumer, buffer_fd_con, file_ref>>
    BY <1>5 DEF ReleaseToProducer
  <2>2. /\ to_producer' \in Seq(Slots) /\ IsInjective(to_producer')
        /\ Range(to_producer') = Range(to_producer) \cup {s}
    BY <1>1, <2>1, PutOne DEF TypeOK, StatusTellsFifo
  <2>3. TypeOK'
    BY <1>2, <1>3, <2>1, <2>2 DEF TypeOK, tunnelVars
  <2>4. StatusTellsFifo'
    <3>1. \A x \in Slots : status'[x] = IF x = s THEN "release" ELSE status[x]
      BY <2>1 DEF TypeOK
    <3> QED
      BY <3>1, <1>1, <2>1, <2>2 DEF StatusTellsFifo
  <2>5. \A x \in Slots : x # s => Unmoved(x)
    BY <2>1 DEF Unmoved, TypeOK
  <2>6. Moved(s)
    <3>1. status'[s] = "release" /\ fence_ref'[s] = fence /\ file_fence'[s] = fence
      BY <2>1 DEF TypeOK
    <3>2. ~file_ref'[s]
      BY <1>1, <2>1 DEF ReferencesBalanced, Filling
    <3> QED
      BY <1>1, <3>1, <3>2 DEF Moved
  <2> QED
    BY <1>2, <1>3, <2>3, <2>4, <2>5, <2>6, MoveStep
<1>6. CASE ReleaseAndRequeue(t, fd, s)
  <2>1. /\ status' = [status EXCEPT ![s] = "queue"]
        /\ buffer_fd_con' = [buffer_fd_con EXCEPT ![s] = NoFd]
        /\ file_fence' = [file_fence EXCEPT ![s] = FALSE]
        /\ file_ref' = [file_ref EXCEPT ![s] = TRUE]
        /\ to_consumer' = Put(to_consumer, <<s>>)
        /\ UNCHANGED <<to_producer, fence_ref>>
    BY <1>6 DEF ReleaseAndRequeue, FdCleared
  <2>2. /\ to_consumer' \in Seq(Slots) /\ IsInjective(to_consumer')
        /\ Range(to_consumer') = Range(to_consumer) \cup {s}
    BY <1>1, <2>1, PutOne DEF TypeOK, StatusTellsFifo
  <2>3. TypeOK'
    BY <1>2, <1>3, <2>1, <2>2 DEF TypeOK, tunnelVars
  <2>4. StatusTellsFifo'
    BY <1>1, <2>1, <2>2 DEF StatusTellsFifo, TypeOK
  <2>5. \A x \in Slots : x # s => Unmoved(x)
    BY <2>1 DEF Unmoved, TypeOK
  <2>6. Moved(s)
    BY <1>1, <2>1 DEF Moved, TypeOK
  <2> QED
    BY <1>2, <1>3, <2>3, <2>4, <2>5, <2>6, MoveStep
<1> QED
  BY <1>4, <1>5, <1>6 DEF Released

\* The producer cancels: the fifo to the consumer is appended to the other.
LEMMA CancelStep ==
  ASSUME TunnelInv, NEW t \in Threads, Cancel(t)
  PROVE  TunnelInv'
<1> USE DEF TunnelInv
<1>1. {s \in Range(to_consumer) : file_buffer[s]} = Range(to_consumer)
  BY DEF StatusTellsFifo, Pointers
<1>2. /\ pc[t] = "cancel" /\ pc' = [pc EXCEPT ![t] = "out"]
      /\ \A x \in Slots :
           /\ status'[x] = IF x \in Range(to_consumer) THEN "release" ELSE status[x]
           /\ file_ref'[x] = IF x \in Range(to_consumer) THEN FALSE ELSE file_ref[x]
      /\ status' \in [Slots -> {"queue", "dequeue", "acquire", "release", "free"}]
      /\ file_ref' \in [Slots -> BOOLEAN]
      /\ to_producer' = Put(to_producer, to_consumer) /\ to_consumer' = <<>>
      /\ UNCHANGED <<tunnelVars, session_pro, current, buffer_fd_con,
                     file_buffer, file_fence, fence_ref, picked, loanVars, view>>
  BY <1>1 DEF Cancel, With, Goto, TypeOK
<1>3. Range(to_producer) \cap Range(to_consumer) = {}
  BY DEF StatusTellsFifo
<1>4. /\ to_producer' \in Seq(Slots) /\ IsInjective(to_producer')
      /\ Range(to_producer') = Range(to_producer) \cup Range(to_consumer)
  BY <1>2, <1>3, PutAll DEF TypeOK, StatusTellsFifo
<1>5. to_consumer' \in Seq(Slots) /\ IsInjective(to_consumer') /\ Range(to_consumer') = {}
  BY <1>2, EmptySeq DEF IsInjective, Range
<1>6. /\ InCalls' /\ pc' \in [Threads -> Calls \cup {"out", "fill", "pop"}]
      /\ \A u \in Threads : pc'[u] = "fill" <=> pc[u] = "fill"
  BY <1>2, ReturnsFrom DEF tunnelVars
<1>7. TypeOK'
  BY <1>2, <1>4, <1>5, <1>6 DEF TypeOK, tunnelVars
<1>8. StatusTellsFifo'
  BY <1>2, <1>4, <1>5 DEF StatusTellsFifo
<1>9. \A x \in Slots : Unmoved(x) \/ Moved(x)
  <2>1. \A x \in Slots : x \notin Range(to_consumer) => Unmoved(x)
    BY <1>2 DEF Unmoved
  <2>2. \A x \in Range(to_consumer) :
          x \in Slots /\ status[x] = "queue" /\ ~file_fence[x] /\ ~fence_ref[x]
    BY DEF StatusTellsFifo, Pointers, ReferencesBalanced
  <2>3. \A x \in Range(to_consumer) : Moved(x)
    BY <1>2, <2>2 DEF Moved
  <2> QED
    BY <2>1, <2>3
<1> QED
  BY <1>2, <1>6, <1>7, <1>8, <1>9, MoveStep

\* The fifo to a producer that leaves is emptied and its slots are free.
LEMMA ReturnedDropped ==
  ASSUME TunnelInv, DropReturned, status' = With(status, Range(to_producer), "free"),
         UNCHANGED <<to_consumer, file_fence, file_ref>>
  PROVE  /\ to_producer' \in Seq(Slots) /\ StatusTellsFifo'
         /\ status' \in [Slots -> {"queue", "dequeue", "acquire", "release", "free"}]
         /\ fence_ref' \in [Slots -> BOOLEAN]
         /\ \A x \in Slots : Unmoved(x) \/ Moved(x)
<1> USE DEF TunnelInv
<1>1. /\ \A x \in Slots : status'[x] = IF x \in Range(to_producer) THEN "free" ELSE status[x]
      /\ status' \in [Slots -> {"queue", "dequeue", "acquire", "release", "free"}]
  BY DEF With, TypeOK
<1>2. fence_ref' \in [Slots -> BOOLEAN]
  BY Zenon DEF DropReturned
<1>3. \A x \in Slots :
        fence_ref'[x] <=> fence_ref[x] /\ ~(x \in Range(to_producer) /\ file_fence[x])
  BY DEF DropReturned
<1>4. to_producer' \in Seq(Slots) /\ IsInjective(to_producer') /\ Range(to_producer') = {}
  BY EmptySeq DEF DropReturned, IsInjective, Range
<1>5. StatusTellsFifo'
  BY <1>1, <1>4 DEF StatusTellsFifo
<1>6. \A x \in Slots : x \notin Range(to_producer) => Unmoved(x)
  BY <1>1, <1>2, <1>3 DEF Unmoved, TypeOK
<1>7. \A x \in Range(to_producer) :
        x \in Slots /\ status[x] = "release" /\ ~file_ref[x] /\ (fence_ref[x] => file_fence[x])
  BY DEF StatusTellsFifo, ReferencesBalanced, Filling
<1>8. \A x \in Range(to_producer) : Moved(x)
  BY <1>1, <1>3, <1>7 DEF Moved
<1> QED
  BY <1>1, <1>2, <1>4, <1>5, <1>6, <1>8

\* The fifo to a consumer that leaves is emptied and its files are put; its
\* slots are free, or go back to the producer.
LEMMA QueuedDropped ==
  ASSUME TunnelInv, DropQueuedFiles, to_consumer' = <<>>,
         UNCHANGED <<file_fence, fence_ref>>,
         \/ /\ status' = With(status, Range(to_consumer), "free")
            /\ UNCHANGED to_producer
         \/ /\ status' = With(status, Range(to_consumer), "release")
            /\ to_producer' = Put(to_producer, to_consumer)
  PROVE  /\ to_consumer' \in Seq(Slots) /\ to_producer' \in Seq(Slots) /\ StatusTellsFifo'
         /\ status' \in [Slots -> {"queue", "dequeue", "acquire", "release", "free"}]
         /\ file_ref' \in [Slots -> BOOLEAN]
         /\ \A x \in Slots : Unmoved(x) \/ Moved(x)
<1> USE DEF TunnelInv
<1>1. /\ \A x \in Slots : /\ x \notin Range(to_consumer) => status'[x] = status[x]
                          /\ x \in Range(to_consumer) => status'[x] \in {"free", "release"}
      /\ status' \in [Slots -> {"queue", "dequeue", "acquire", "release", "free"}]
  BY DEF With, TypeOK
<1>2. file_ref' \in [Slots -> BOOLEAN]
  BY Zenon DEF DropQueuedFiles
<1>3. \A x \in Slots :
        file_ref'[x] <=> file_ref[x] /\ ~(x \in Range(to_consumer) /\ file_buffer[x])
  BY DEF DropQueuedFiles
<1>4. to_consumer' \in Seq(Slots) /\ IsInjective(to_consumer') /\ Range(to_consumer') = {}
  BY EmptySeq DEF IsInjective, Range
<1>5. to_producer' \in Seq(Slots) /\ StatusTellsFifo'
  <2>1. CASE UNCHANGED to_producer /\ status' = With(status, Range(to_consumer), "free")
    <3>1. \A x \in Slots : status'[x] = IF x \in Range(to_consumer) THEN "free" ELSE status[x]
      BY <2>1 DEF With, TypeOK
    <3> QED
      BY <1>4, <2>1, <3>1 DEF StatusTellsFifo, TypeOK
  <2>2. CASE /\ status' = With(status, Range(to_consumer), "release")
             /\ to_producer' = Put(to_producer, to_consumer)
    <3>1. \A x \in Slots : status'[x] = IF x \in Range(to_consumer) THEN "release" ELSE status[x]
      BY <2>2 DEF With, TypeOK
    <3>2. Range(to_producer) \cap Range(to_consumer) = {}
      BY DEF StatusTellsFifo
    <3>3. /\ to_producer' \in Seq(Slots) /\ IsInjective(to_producer')
          /\ Range(to_producer') = Range(to_producer) \cup Range(to_consumer)
      BY <2>2, <3>2, PutAll DEF TypeOK, StatusTellsFifo
    <3> QED
      BY <1>4, <3>1, <3>3 DEF StatusTellsFifo
  <2> QED
    BY <2>1, <2>2
<1>6. \A x \in Slots : x \notin Range(to_consumer) => Unmoved(x)
  BY <1>1, <1>2, <1>3 DEF Unmoved, TypeOK
<1>7. \A x \in Range(to_consumer) : /\ x \in Slots /\ status[x] = "queue" /\ file_buffer[x]
                                    /\ ~file_fence[x] /\ ~fence_ref[x]
  BY DEF StatusTellsFifo, Pointers, ReferencesBalanced
<1>8. \A x \in Range(to_consumer) : Moved(x)
  BY <1>1, <1>3, <1>7 DEF Moved
<1> QED
  BY <1>1, <1>2, <1>4, <1>5, <1>6, <1>8

\* A session leaves while no thread is inside a call of it.
LEMMA LeavesCalls ==
  ASSUME TunnelInv, NEW session \in Sessions, Outside(session), UNCHANGED pc,
         producer' = producer \/ (producer = session /\ producer' = None),
         consumer' = consumer \/ (consumer = session /\ consumer' = None)
  PROVE  InCalls'
BY DEF TunnelInv, InCalls, Outside

\* The loan ends, and the connection ids of a session's buffers are outdated.
LEMMA ConnectionEnds ==
  ASSUME NEW p, NewConnection(p)
  PROVE  current' \in [Slots -> BOOLEAN] /\ lent' = {} /\ unreported' = {}
BY Zenon DEF NewConnection

\* A producer disconnects.
LEMMA DisconnectProducerStep ==
  ASSUME OneCallAtATime, TunnelInv, NEW t \in Threads, DisconnectProducer(t)
  PROVE  TunnelInv'
<1> USE DEF TunnelInv
<1>1. /\ DropReturned /\ status' = With(status, Range(to_producer), "free")
      /\ producer = SessionOf[t] /\ producer' = None /\ pc[t] = "out"
      /\ UNCHANGED <<consumer, need_refresh, to_consumer, session_pro, buffer_fd_con,
                     file_buffer, file_fence, file_ref, pc, picked, view>>
  BY DEF DisconnectProducer
<1>2. current' \in [Slots -> BOOLEAN] /\ lent' = {} /\ unreported' = {}
  BY ConnectionEnds DEF DisconnectProducer
<1>3. Outside(SessionOf[t]) /\ SessionOf[t] \in Sessions
  BY <1>1 DEF Outside, OneCallAtATime, Sessions
<1>4. InCalls'
  BY <1>1, <1>3, LeavesCalls
<1>5. /\ to_producer' \in Seq(Slots) /\ StatusTellsFifo'
      /\ status' \in [Slots -> {"queue", "dequeue", "acquire", "release", "free"}]
      /\ fence_ref' \in [Slots -> BOOLEAN]
      /\ \A x \in Slots : Unmoved(x) \/ Moved(x)
  BY <1>1, ReturnedDropped
<1>6. TypeOK'
  BY <1>1, <1>2, <1>5 DEF TypeOK
<1> QED
  BY <1>1, <1>4, <1>5, <1>6, MoveStep

\* A consumer disconnects.
LEMMA DisconnectConsumerStep ==
  ASSUME OneCallAtATime, TunnelInv, NEW t \in Threads, DisconnectConsumer(t)
  PROVE  TunnelInv'
<1> USE DEF TunnelInv
<1>1. /\ consumer = SessionOf[t] /\ consumer' = None /\ pc[t] = "out" /\ ~need_refresh'
      /\ need_refresh' \in BOOLEAN
      /\ UNCHANGED <<producer, session_pro, current, buffer_fd_con,
                     file_buffer, file_fence, fence_ref, pc, picked, loanVars, view>>
  BY DEF DisconnectConsumer
<1>2. Outside(SessionOf[t]) /\ SessionOf[t] \in Sessions
  BY <1>1 DEF Outside, OneCallAtATime, Sessions
<1>3. InCalls'
  BY <1>1, <1>2, LeavesCalls
<1>4. CASE need_refresh
  <2>1. UNCHANGED <<status, file_ref, fifoVars>>
    BY <1>4 DEF DisconnectConsumer
  <2>2. TypeOK'
    BY <1>1, <2>1 DEF TypeOK, fifoVars
  <2>3. StatusTellsFifo'
    BY <2>1 DEF StatusTellsFifo, fifoVars
  <2>4. \A x \in Slots : Unmoved(x)
    BY <1>1, <2>1 DEF Unmoved
  <2> QED
    BY <1>1, <1>3, <2>2, <2>3, <2>4, MoveStep
<1>5. CASE ~need_refresh
  <2>1. /\ DropQueuedFiles /\ to_consumer' = <<>>
        /\ \/ /\ status' = With(status, Range(to_consumer), "free")
              /\ UNCHANGED to_producer
           \/ /\ status' = With(status, Range(to_consumer), "release")
              /\ to_producer' = Put(to_producer, to_consumer)
    BY <1>5 DEF DisconnectConsumer, TrimmedTo
  <2>2. /\ to_consumer' \in Seq(Slots) /\ to_producer' \in Seq(Slots) /\ StatusTellsFifo'
        /\ status' \in [Slots -> {"queue", "dequeue", "acquire", "release", "free"}]
        /\ file_ref' \in [Slots -> BOOLEAN]
        /\ \A x \in Slots : Unmoved(x) \/ Moved(x)
    BY <1>1, <2>1, QueuedDropped
  <2>3. TypeOK'
    BY <1>1, <2>2 DEF TypeOK
  <2> QED
    BY <1>1, <1>3, <2>2, <2>3, MoveStep
<1> QED
  BY <1>4, <1>5

\* The files of a process that dies are closed, or one file by its consumer.
LEMMA FilesClosed ==
  ASSUME TypeOK,
         \/ \E session \in Sessions : FilesOfDeadProcess(session)
         \/ \E c \in Consumers, fd \in Fds : view' = [view EXCEPT ![c][fd] = None]
  PROVE  view' \in [Consumers -> [Fds -> Slots \cup {None}]]
<1>1. CASE \E session \in Sessions : FilesOfDeadProcess(session)
  <2>1. [f \in Fds |-> None] \in [Fds -> Slots \cup {None}]
    OBVIOUS
  <2>2. view \in [Consumers -> [Fds -> Slots \cup {None}]]
    BY DEF TypeOK
  <2>3. PICK session \in Sessions :
          view' = [c \in Consumers |-> IF c = session THEN [f \in Fds |-> None] ELSE view[c]]
    BY <1>1 DEF FilesOfDeadProcess
  <2> QED
    BY <2>1, <2>2, <2>3
<1>2. CASE \E c \in Consumers, fd \in Fds : view' = [view EXCEPT ![c][fd] = None]
  BY <1>2 DEF TypeOK
<1> QED
  BY <1>1, <1>2

\* A session is closed, by its owner or by the death of its process.
LEMMA CloseStep ==
  ASSUME TunnelInv, NEW session \in Sessions, Close(session)
  PROVE  TunnelInv'
<1> USE DEF TunnelInv
<1>1. Outside(session) /\ UNCHANGED <<pc, picked>>
  BY DEF Close
<1>2. view' \in [Consumers -> [Fds -> Slots \cup {None}]]
  BY FilesClosed DEF Close
<1>3. CASE session = producer /\ consumer # None /\ CloseLeavingPeer(session)
  <2>1. session # consumer
    BY <1>3 DEF TypeOK, Sessions
  <2>2. /\ DropReturned /\ status' = With(status, Range(to_producer), "free")
        /\ NewConnection(session) /\ producer' = None
        /\ UNCHANGED <<consumer, to_consumer, file_ref, need_refresh, session_pro,
                       buffer_fd_con, file_buffer, file_fence>>
    BY <1>3, <2>1 DEF CloseLeavingPeer
  <2>3. InCalls'
    BY <1>1, <1>3, <2>2, LeavesCalls
  <2>4. /\ to_producer' \in Seq(Slots) /\ StatusTellsFifo'
        /\ status' \in [Slots -> {"queue", "dequeue", "acquire", "release", "free"}]
        /\ fence_ref' \in [Slots -> BOOLEAN]
        /\ \A x \in Slots : Unmoved(x) \/ Moved(x)
    BY <2>2, ReturnedDropped
  <2>5. current' \in [Slots -> BOOLEAN] /\ lent' = {} /\ unreported' = {}
    BY <2>2, ConnectionEnds
  <2>6. TypeOK'
    BY <1>1, <1>2, <2>2, <2>4, <2>5 DEF TypeOK
  <2> QED
    BY <1>1, <2>2, <2>3, <2>4, <2>6, MoveStep
<1>4. CASE session = consumer /\ producer # None /\ CloseLeavingPeer(session)
  <2>1. session # producer
    BY <1>4 DEF TypeOK, Sessions
  <2>2. /\ DropQueuedFiles /\ to_consumer' = <<>>
        /\ status' = With(status, Range(to_consumer), "free") /\ consumer' = None
        /\ UNCHANGED <<producer, to_producer, fence_ref, current, loanVars, need_refresh,
                       session_pro, buffer_fd_con, file_buffer, file_fence>>
    BY <1>4, <2>1 DEF CloseLeavingPeer
  <2>3. InCalls'
    BY <1>1, <1>4, <2>2, LeavesCalls
  <2>4. /\ to_consumer' \in Seq(Slots) /\ to_producer' \in Seq(Slots) /\ StatusTellsFifo'
        /\ status' \in [Slots -> {"queue", "dequeue", "acquire", "release", "free"}]
        /\ file_ref' \in [Slots -> BOOLEAN]
        /\ \A x \in Slots : Unmoved(x) \/ Moved(x)
    BY <2>2, QueuedDropped
  <2>5. TypeOK'
    BY <1>1, <1>2, <2>2, <2>4 DEF TypeOK
  <2> QED
    BY <1>1, <2>2, <2>3, <2>4, <2>5, MoveStep
<1>5. CASE CloseLeavingNobody(session)
  <2>1. /\ producer' = None /\ consumer' = None /\ to_consumer' = <<>>
        /\ producer \in {None, session} /\ consumer \in {None, session}
        /\ DropQueuedFiles /\ DropReturned /\ NewConnection(session)
        /\ status' = [s \in Slots |-> "free"]
        /\ UNCHANGED <<need_refresh, session_pro, buffer_fd_con, file_buffer, file_fence>>
    BY <1>5 DEF CloseLeavingNobody
  <2>2. InCalls'
    BY <1>1, <2>1, LeavesCalls
  <2>3. \A t \in Threads : pc[t] # "fill"
    BY <1>1, <2>1 DEF InCalls, Outside, Sessions
  <2>4. /\ to_producer' = <<>>
        /\ file_ref' \in [Slots -> BOOLEAN] /\ fence_ref' \in [Slots -> BOOLEAN]
    BY <2>1, Zenon DEF DropQueuedFiles, DropReturned
  <2>5. \A x \in Slots : status'[x] = "free" /\ ~file_ref'[x] /\ ~fence_ref'[x]
    <3>1. ASSUME NEW x \in Slots PROVE ~file_ref'[x]
      <4>1. file_ref'[x] <=> file_ref[x] /\ ~(x \in Range(to_consumer) /\ file_buffer[x])
        BY <2>1 DEF DropQueuedFiles
      <4> QED
        BY <4>1, <2>3 DEF ReferencesBalanced, StatusTellsFifo
    <3>2. ASSUME NEW x \in Slots PROVE ~fence_ref'[x]
      <4>1. fence_ref'[x] <=> fence_ref[x] /\ ~(x \in Range(to_producer) /\ file_fence[x])
        BY <2>1 DEF DropReturned
      <4> QED
        BY <4>1 DEF ReferencesBalanced, StatusTellsFifo
    <3> QED
      BY <2>1, <3>1, <3>2
  <2>6. StatusTellsFifo'
    BY <2>1, <2>4, <2>5 DEF StatusTellsFifo, IsInjective, Range
  <2>7. TypeOK'
    <3>1. current' \in [Slots -> BOOLEAN] /\ lent' = {} /\ unreported' = {}
      BY <2>1, ConnectionEnds
    <3>2. status' \in [Slots -> {"queue", "dequeue", "acquire", "release", "free"}]
      BY <2>1
    <3>3. to_consumer' \in Seq(Slots) /\ to_producer' \in Seq(Slots)
      BY <2>1, <2>4, EmptySeq
    <3> QED
      BY <1>1, <1>2, <2>1, <2>4, <3>1, <3>2, <3>3 DEF TypeOK
  <2>8. Filling' /\ Pointers' /\ ReferencesBalanced'
    BY <1>1, <2>3, <2>5 DEF Filling, Pointers, ReferencesBalanced
  <2> QED
    BY <2>2, <2>6, <2>7, <2>8
<1>6. CASE CloseUnrelated(session)
  <2>1. UNCHANGED <<tunnelVars, fifoVars, slotVars, fileVars, loanVars>>
    BY <1>6 DEF CloseUnrelated
  <2>2. TypeOK'
    BY <1>1, <1>2, <2>1 DEF TypeOK, tunnelVars, fifoVars, slotVars, fileVars
  <2>3. InCalls' /\ SameBuffers
    BY <1>1, <2>1 DEF InCalls, tunnelVars, SameBuffers
  <2> QED
    BY <1>1, <2>2, <2>3, SameBuffersStep
<1> QED
  BY <1>3, <1>4, <1>5, <1>6 DEF Close, CloseLeavingPeer

\* A consumer closes a file.
LEMMA CloseFdStep ==
  ASSUME TunnelInv, NEW c \in Consumers, NEW fd \in Fds, CloseFd(c, fd)
  PROVE  TunnelInv'
<1> USE DEF TunnelInv
<1>1. /\ view' = [view EXCEPT ![c][fd] = None]
      /\ UNCHANGED <<tunnelVars, fifoVars, slotVars, fileVars, pc, picked, loanVars>>
  BY DEF CloseFd
<1>2. TypeOK'
  BY <1>1, FilesClosed DEF TypeOK, tunnelVars, fifoVars, slotVars, fileVars
<1>3. InCalls' /\ SameBuffers
  BY <1>1 DEF InCalls, tunnelVars, SameBuffers
<1> QED
  BY <1>1, <1>2, <1>3, SameBuffersStep

\* No step at all leaves the invariant.
LEMMA TunnelStep == OneCallAtATime /\ TunnelInv /\ [Next]_vars => TunnelInv'
<1> SUFFICES ASSUME OneCallAtATime, TunnelInv, [Next]_vars PROVE TunnelInv'
  OBVIOUS
<1>1. CASE UNCHANGED vars
  <2>1. TypeOK' /\ InCalls' /\ SameBuffers /\ UNCHANGED pc
    BY <1>1 DEF vars, TunnelInv, TypeOK, InCalls, SameBuffers, tunnelVars, fifoVars,
                slotVars, fileVars
  <2> QED
    BY <2>1, SameBuffersStep
<1>2. ASSUME NEW t \in Threads, \E call \in Calls : Enter(t, call)
      PROVE  TunnelInv'
  BY <1>2, QuietCallStep
<1>3. ASSUME NEW t \in Threads, ProducerCall(t) PROVE TunnelInv'
  <2>1. CASE \E s \in Slots : DequeuePop(t, s) \/ DequeuePrevious(t, s) \/ DequeueNoFd(t, s)
    <3>1. PICK s \in Slots :
            Dequeued(t, s) /\ lent' \in {lent, lent \ {s}} /\ unreported' \in {unreported, unreported \cup {s}}
      BY <2>1 DEF DequeuePop, DequeuePrevious, DequeueNoFd
    <3>2. lent' \subseteq Slots /\ unreported' \subseteq Slots
      BY <3>1 DEF TunnelInv, TypeOK
    <3> QED
      BY <3>1, <3>2, DequeuedStep
  <2> QED
    BY <1>3, <2>1, QuietCallStep, QueuePickStep, QueuePutStep, CancelStep DEF ProducerCall
<1>4. ASSUME NEW t \in Threads, ConsumerCall(t) PROVE TunnelInv'
  <2>1. CASE AcquireGiveUp(t) \/ Refresh(t)
    BY <2>1, QuietCallStep
  <2>2. CASE \E s \in Slots : AcquireNoFd(t, s) \/ \E fd \in Fds : Acquire(t, s, fd)
    BY <2>2, AcquireNoFdStep, AcquireStep
  <2>3. CASE \E fd \in Fds : Release(t, fd)
    BY <2>3, QuietCallStep, ReleasedStep DEF Release, Released
  <2> QED
    BY <1>4, <2>1, <2>2, <2>3 DEF ConsumerCall
<1>5. ASSUME NEW t \in Threads, Connection(t) PROVE TunnelInv'
  BY <1>5, ConnectStep, DisconnectProducerStep, DisconnectConsumerStep DEF Connection
<1> QED
  BY <1>1, <1>2, <1>3, <1>4, <1>5, CloseStep, CloseFdStep DEF Next

\* The variables stay in their types, for every pool size and any sessions.
THEOREM TunnelTypes == OneCallAtATime => (Spec => []TypeOK)
<1> SUFFICES ASSUME OneCallAtATime PROVE Spec => []TypeOK
  OBVIOUS
<1>1. TunnelInv /\ [Next]_vars => TunnelInv'
  BY TunnelStep
<1>2. TunnelInv => TypeOK
  BY DEF TunnelInv
<1> QED
  BY <1>1, <1>2, TunnelInit, PTL DEF Spec

\* The status of a slot says which fifo it is in: the fifos never overflow,
\* a slot is never in two places, and no buffer is queued twice.
THEOREM TunnelStatusTellsFifo == OneCallAtATime => (Spec => []StatusTellsFifo)
<1> SUFFICES ASSUME OneCallAtATime PROVE Spec => []StatusTellsFifo
  OBVIOUS
<1>1. TunnelInv /\ [Next]_vars => TunnelInv'
  BY TunnelStep
<1>2. TunnelInv => StatusTellsFifo
  BY DEF TunnelInv
<1> QED
  BY <1>1, <1>2, TunnelInit, PTL DEF Spec

\* The driver puts every file it holds a reference to exactly once.
THEOREM TunnelReferencesBalanced == OneCallAtATime => (Spec => []ReferencesBalanced)
<1> SUFFICES ASSUME OneCallAtATime PROVE Spec => []ReferencesBalanced
  OBVIOUS
<1>1. TunnelInv /\ [Next]_vars => TunnelInv'
  BY TunnelStep
<1>2. TunnelInv => ReferencesBalanced
  BY DEF TunnelInv
<1> QED
  BY <1>1, <1>2, TunnelInit, PTL DEF Spec
-----------------------------------------------------------------------------
(* No buffer is lost, as long as no consumer dies.                          *)

ConsumersStay == Consumers \cap Closers = {}

\* The slots on loan are those of the connected producer.
Loan ==
  \A s \in lent : /\ s \in unreported \/ status[s] \in {"queue", "acquire", "release"}
                  /\ session_pro[s] = producer /\ current[s] /\ producer # None

\* No step takes a buffer from the producer that queued it, unless the
\* consumer's session is closed.
LEMMA LoanStep ==
  ASSUME OneCallAtATime, ConsumersStay, TunnelInv, Loan, [Next]_vars
  PROVE  Loan'
<1> USE DEF TunnelInv
<1>1. CASE UNCHANGED vars
  BY <1>1 DEF vars, Loan, tunnelVars, slotVars
<1>2. CASE UNCHANGED <<producer, status, session_pro, current, loanVars>>
  BY <1>2 DEF Loan
<1>3. ASSUME NEW t \in Threads,
             \/ \E call \in Calls : Enter(t, call)
             \/ QueueNoSlot(t) \/ DequeueWait(t) \/ DequeueGiveUp(t) \/ AcquireGiveUp(t)
             \/ Refresh(t) \/ \E fd \in Fds : ReleaseUnknown(t, fd)
             \/ \E s \in Slots : QueuePick(t, s)
             \/ ConnectConsumer(t)
      PROVE  Loan'
  <2>1. UNCHANGED <<producer, status, session_pro, current, loanVars>>
    BY <1>3 DEF Enter, Return, QueueNoSlot, DequeueWait, DequeueGiveUp, AcquireGiveUp,
                Refresh, ReleaseUnknown, QueuePick, ConnectConsumer, tunnelVars, slotVars
  <2> QED
    BY <1>2, <2>1
<1>4. ASSUME NEW t \in Threads, QueuePut(t) PROVE Loan'
  <2>1. picked[t] \in Slots /\ producer = SessionOf[t] /\ SessionOf[t] # None
    BY <1>4 DEF QueuePut, TypeOK, InCalls, Sessions
  <2>2. /\ status' = [status EXCEPT ![picked[t]] = "queue"]
        /\ session_pro' = [session_pro EXCEPT ![picked[t]] = SessionOf[t]]
        /\ current' = [current EXCEPT ![picked[t]] = TRUE]
        /\ lent' = lent \cup {picked[t]} /\ unreported' = unreported \ {picked[t]}
        /\ producer' = producer
    BY <1>4 DEF QueuePut, tunnelVars
  <2> QED
    BY <2>1, <2>2 DEF Loan, TypeOK
<1>5. ASSUME NEW t \in Threads, NEW s \in Slots,
             DequeuePop(t, s) \/ DequeuePrevious(t, s) \/ DequeueNoFd(t, s)
      PROVE  Loan'
  <2>1. /\ producer = SessionOf[t] /\ status' = [status EXCEPT ![s] = "dequeue"]
        /\ UNCHANGED <<producer, session_pro, current>>
    BY <1>5 DEF DequeuePop, DequeuePrevious, DequeueNoFd, Dequeued, InCalls, tunnelVars
  <2>2. \/ lent' = lent \ {s} /\ unreported' = unreported
        \/ lent' = lent /\ unreported' = unreported /\ s \notin lent
        \/ lent' = lent /\ unreported' = unreported \cup {s}
    BY <1>5, <2>1 DEF DequeuePop, DequeuePrevious, DequeueNoFd, OfConnection, Loan
  <2> QED
    BY <2>1, <2>2 DEF Loan, TypeOK
<1>6. ASSUME NEW t \in Threads, NEW s \in Slots,
             AcquireNoFd(t, s) \/ \E fd \in Fds : Acquire(t, s, fd)
      PROVE  Loan'
  <2>1. /\ \E to \in {"acquire", "release"} : status' = [status EXCEPT ![s] = to]
        /\ UNCHANGED <<producer, session_pro, current, loanVars>>
    BY <1>6 DEF AcquireNoFd, Acquire, tunnelVars
  <2> QED
    BY <2>1 DEF Loan, TypeOK
<1>7. ASSUME NEW t \in Threads, NEW fd \in Fds, NEW s \in Slots, Released(t, fd, s)
      PROVE  Loan'
  <2>1. UNCHANGED <<producer, session_pro, current, loanVars>>
    BY <1>7 DEF Released, ReleaseToNobody, ReleaseToProducer, ReleaseAndRequeue, tunnelVars
  <2>2. \/ ProducerGone(s) /\ status' = [status EXCEPT ![s] = "free"]
        \/ \E to \in {"release", "queue"} : status' = [status EXCEPT ![s] = to]
    BY <1>7 DEF Released, ReleaseToNobody, ReleaseToProducer, ReleaseAndRequeue
  <2>3. ProducerGone(s) => s \notin lent
    BY DEF ProducerGone, Loan
  <2> QED
    BY <2>1, <2>2, <2>3 DEF Loan, TypeOK
<1>8. ASSUME NEW t \in Threads, Cancel(t) PROVE Loan'
  <2>1. /\ \A s \in Slots : status'[s] \in {status[s], "release"}
        /\ UNCHANGED <<producer, session_pro, current, loanVars>>
    BY <1>8 DEF Cancel, With, TypeOK, tunnelVars
  <2> QED
    BY <2>1 DEF Loan, TypeOK
<1>9. ASSUME NEW p, NewConnection(p) PROVE Loan'
  BY <1>9 DEF NewConnection, Loan
<1>10. ASSUME NEW t \in Threads, DisconnectConsumer(t) PROVE Loan'
  <2>1. UNCHANGED <<producer, session_pro, current, loanVars>>
    BY <1>10 DEF DisconnectConsumer
  <2>2. \A s \in Slots : status'[s] = status[s] \/ (producer # None => status'[s] = "release")
    BY <1>10 DEF DisconnectConsumer, With, TrimmedTo, TypeOK
  <2> QED
    BY <2>1, <2>2 DEF Loan, TypeOK
<1>11. ASSUME NEW session \in Sessions, Close(session) PROVE Loan'
  <2>1. CASE CloseLeavingPeer(session)
    <3>1. session \notin Consumers
      BY <1>11 DEF Close, ConsumersStay
    <3>2. NewConnection(session)
      BY <2>1, <3>1 DEF CloseLeavingPeer, TypeOK
    <3> QED
      BY <1>9, <3>2
  <2>2. CASE CloseLeavingNobody(session)
    BY <1>9, <2>2 DEF CloseLeavingNobody
  <2>3. CASE CloseUnrelated(session)
    BY <1>2, <2>3 DEF CloseUnrelated, tunnelVars, slotVars
  <2> QED
    BY <1>11, <2>1, <2>2, <2>3 DEF Close
<1>12. ASSUME NEW c \in Consumers, NEW fd \in Fds, CloseFd(c, fd) PROVE Loan'
  BY <1>2, <1>12 DEF CloseFd, tunnelVars, slotVars
<1> QED
  <2>1. ASSUME NEW t \in Threads, ProducerCall(t) PROVE Loan'
    BY <1>3, <1>4, <1>5, <1>8, <2>1 DEF ProducerCall
  <2>2. ASSUME NEW t \in Threads, ConsumerCall(t) PROVE Loan'
    BY <1>3, <1>6, <1>7, <2>2 DEF ConsumerCall, Release, Released
  <2>3. ASSUME NEW t \in Threads, Connection(t) PROVE Loan'
    BY <1>3, <1>9, <1>10, <2>3 DEF Connection, ConnectProducer, DisconnectProducer
  <2> QED
    BY <1>1, <1>3, <1>11, <1>12, <2>1, <2>2, <2>3 DEF Next

\* A producer that stays connected is handed back every buffer it queued, as
\* long as consumers disconnect instead of dying.
THEOREM TunnelNoBufferLost == OneCallAtATime /\ ConsumersStay => (Spec => []NoBufferLost)
<1> SUFFICES ASSUME OneCallAtATime, ConsumersStay PROVE Spec => []NoBufferLost
  OBVIOUS
<1>1. Init => TunnelInv /\ Loan
  BY TunnelInit DEF Init, Loan
<1>2. (TunnelInv /\ Loan) /\ [Next]_vars => (TunnelInv /\ Loan)'
  BY TunnelStep, LoanStep
<1>3. Loan => NoBufferLost
  BY DEF Loan, NoBufferLost
<1> QED
  BY <1>1, <1>2, <1>3, PTL DEF Spec
-----------------------------------------------------------------------------
(* The tunnel implements the exchange of buffers.                           *)

\* The mapping of VideoTunnel's variables to those of BufferExchange.
Present == {role \in {"producer", "consumer"} :
              (IF role = "producer" THEN producer ELSE consumer) # None}
Held == {s \in Slots : status[s] = "acquire"}

\* What the mapping says of a state, and when it does not change.
LEMMA Mapping ==
  /\ "producer" \in Present <=> producer # None
  /\ "consumer" \in Present <=> consumer # None
  /\ Present \subseteq {"producer", "consumer"}
  /\ (UNCHANGED <<producer, consumer>> => Present' = Present)
  /\ (UNCHANGED status => Held' = Held)
BY DEF Present, Held

\* A step that moves no buffer and changes no connection is a stuttering one.
LEMMA ExchangeStutters ==
  ASSUME UNCHANGED <<producer, consumer, fifoVars>>, Held' = Held
  PROVE  UNCHANGED Exchange!vars
BY Mapping DEF Exchange!vars, Present, Held, fifoVars

\* Putting a slot into a fifo it is not in appends it.
LEMMA PutIsAppend ==
  ASSUME NEW q \in Seq(Slots), NEW s \in Slots, IsInjective(q), s \notin Range(q)
  PROVE  Put(q, <<s>>) = Append(q, s)
BY PutOne, AppendIsConcat

\* The producer leaves, with nothing on its way to it.
LEMMA ProducerLeavesStep ==
  ASSUME TunnelInv, producer' = None, DropReturned,
         status' = With(status, Range(to_producer), "free"),
         UNCHANGED <<consumer, to_consumer>>
  PROVE  Exchange!ProducerLeaves
<1>1. Present' = Present \ {"producer"}
  BY DEF Present
<1>2. Held' = Held
  BY DEF TunnelInv, TypeOK, StatusTellsFifo, Held, With
<1> QED
  BY <1>1, <1>2 DEF Exchange!ProducerLeaves, Present, Held, DropReturned

\* The consumer leaves; what was on its way stays, is dropped or goes back.
LEMMA ConsumerLeavesStep ==
  ASSUME TunnelInv, consumer' = None, UNCHANGED producer,
         \/ UNCHANGED <<to_consumer, to_producer, status>>
         \/ /\ to_consumer' = <<>> /\ UNCHANGED to_producer
            /\ status' = With(status, Range(to_consumer), "free")
         \/ /\ to_consumer' = <<>> /\ to_producer' = Put(to_producer, to_consumer)
            /\ status' = With(status, Range(to_consumer), "release")
  PROVE  Exchange!ConsumerLeaves
<1>1. Present' = Present \ {"consumer"}
  BY DEF Present
<1>2. Held' = Held
  BY DEF TunnelInv, TypeOK, StatusTellsFifo, Held, With
<1>3. Put(to_producer, to_consumer) = to_producer \o to_consumer
  BY PutAll DEF TunnelInv, TypeOK, StatusTellsFifo
<1> QED
  BY <1>1, <1>2, <1>3 DEF Exchange!ConsumerLeaves, Present, Held

\* Queueing a buffer submits it, dequeueing collects it, cancelling recalls.
LEMMA ProducerImplements ==
  ASSUME TunnelInv, NEW t \in Threads, ProducerCall(t)
  PROVE  [Exchange!Next]_(Exchange!vars)
<1> USE DEF TunnelInv
<1>1. pc[t] \in {"fill", "pop", "cancel"} => producer # None
  BY DEF InCalls, TypeOK, Sessions
<1>2. CASE QueueNoSlot(t) \/ DequeueWait(t) \/ DequeueGiveUp(t) \/ \E s \in Slots : QueuePick(t, s)
  <2>1. UNCHANGED <<producer, consumer, fifoVars, status>>
    BY <1>2 DEF QueueNoSlot, DequeueWait, DequeueGiveUp, QueuePick, Return, tunnelVars, slotVars
  <2> QED
    BY <2>1, ExchangeStutters, Mapping
<1>3. CASE QueuePut(t)
  <2> DEFINE s == picked[t]
  <2>1. /\ s \in Slots /\ status[s] \in {"free", "dequeue"} /\ producer # None
        /\ to_consumer' = Put(to_consumer, <<s>>)
        /\ status' = [status EXCEPT ![s] = "queue"]
        /\ UNCHANGED <<tunnelVars, to_producer>>
    BY <1>1, <1>3 DEF QueuePut, TypeOK, Filling
  <2> HIDE DEF s
  <2>2. /\ s \notin Range(to_consumer) /\ s \notin Range(to_producer) /\ s \notin Held
        /\ Present' = Present /\ "producer" \in Present /\ Held' = Held
    BY <2>1, Mapping DEF StatusTellsFifo, Held, TypeOK, tunnelVars
  <2>3. to_consumer' = Append(to_consumer, s)
    BY <2>1, <2>2, PutIsAppend DEF TypeOK, StatusTellsFifo
  <2>4. Exchange!Submit(s)
    <3>1. s \in Exchange!Idle
      BY <2>1, <2>2 DEF Exchange!Idle, Exchange!Range, Range, Held
    <3> QED
      BY <2>1, <2>2, <2>3, <3>1 DEF Exchange!Submit, Present, Held
  <2> QED
    BY <2>1, <2>4 DEF Exchange!Next
<1>4. ASSUME NEW s \in Slots, Dequeued(t, s) PROVE [Exchange!Next]_(Exchange!vars)
  <2>1. /\ producer # None /\ to_producer # <<>> /\ s = Head(to_producer)
        /\ to_producer' = Tail(to_producer) /\ status' = [status EXCEPT ![s] = "dequeue"]
        /\ UNCHANGED <<tunnelVars, to_consumer>>
    BY <1>1, <1>4 DEF Dequeued
  <2>2. status[s] = "release"
    BY <2>1, TakeFirst DEF TypeOK, StatusTellsFifo
  <2>3. Present' = Present /\ "producer" \in Present /\ Held' = Held
    BY <2>1, <2>2, Mapping DEF Held, TypeOK, tunnelVars
  <2>4. Exchange!Collect
    BY <2>1, <2>3 DEF Exchange!Collect, Present, Held
  <2> QED
    BY <2>4 DEF Exchange!Next
<1>5. CASE Cancel(t)
  <2>1. /\ producer # None /\ to_producer' = Put(to_producer, to_consumer)
        /\ to_consumer' = <<>> /\ UNCHANGED tunnelVars
        /\ status' = With(status, {s \in Range(to_consumer) : file_buffer[s]}, "release")
    BY <1>1, <1>5 DEF Cancel
  <2>2. Held' = Held
    BY <2>1 DEF Held, With, TypeOK, StatusTellsFifo
  <2>3. Present' = Present /\ "producer" \in Present
    BY <2>1, Mapping DEF tunnelVars
  <2>4. to_producer' = to_producer \o to_consumer
    BY <2>1, PutAll DEF TypeOK, StatusTellsFifo
  <2>5. Exchange!Recall
    BY <2>1, <2>2, <2>3, <2>4 DEF Exchange!Recall, Present, Held
  <2> QED
    BY <2>5 DEF Exchange!Next
<1> QED
  BY <1>2, <1>3, <1>4, <1>5 DEF ProducerCall, DequeuePop, DequeuePrevious, DequeueNoFd

\* Acquiring a buffer takes it or declines it, and releasing gives it back.
LEMMA ConsumerImplements ==
  ASSUME TunnelInv, NEW t \in Threads, ConsumerCall(t)
  PROVE  [Exchange!Next]_(Exchange!vars)
<1> USE DEF TunnelInv
<1>1. pc[t] \in {"acquire", "release"} => consumer # None
  BY DEF InCalls, TypeOK, Sessions
<1>2. CASE AcquireGiveUp(t) \/ Refresh(t) \/ \E fd \in Fds : ReleaseUnknown(t, fd)
  <2>1. UNCHANGED <<producer, consumer, fifoVars, status>>
    BY <1>2 DEF AcquireGiveUp, Refresh, ReleaseUnknown, Return, tunnelVars, slotVars
  <2> QED
    BY <2>1, ExchangeStutters, Mapping
<1>3. ASSUME NEW s \in Slots, NEW fd \in Fds, Acquire(t, s, fd)
      PROVE  [Exchange!Next]_(Exchange!vars)
  <2>1. /\ consumer # None /\ to_consumer # <<>> /\ s = Head(to_consumer)
        /\ to_consumer' = Tail(to_consumer) /\ status' = [status EXCEPT ![s] = "acquire"]
        /\ UNCHANGED <<tunnelVars, to_producer>>
    BY <1>1, <1>3 DEF Acquire
  <2>2. Present' = Present /\ "consumer" \in Present /\ Held' = Held \cup {s}
    BY <2>1, Mapping DEF Held, TypeOK, tunnelVars
  <2>3. Exchange!Take
    BY <2>1, <2>2 DEF Exchange!Take, Present, Held
  <2> QED
    BY <2>3 DEF Exchange!Next
<1>4. ASSUME NEW s \in Slots, AcquireNoFd(t, s) PROVE [Exchange!Next]_(Exchange!vars)
  <2>1. /\ consumer # None /\ to_consumer # <<>> /\ s = Head(to_consumer)
        /\ to_consumer' = Tail(to_consumer) /\ status' = [status EXCEPT ![s] = "release"]
        /\ to_producer' = Put(to_producer, <<s>>) /\ UNCHANGED tunnelVars
    BY <1>1, <1>4 DEF AcquireNoFd
  <2>2. status[s] = "queue" /\ s \notin Range(to_producer)
    BY <2>1, TakeFirst DEF TypeOK, StatusTellsFifo
  <2>3. Present' = Present /\ "consumer" \in Present /\ Held' = Held
    BY <2>1, <2>2, Mapping DEF Held, TypeOK, tunnelVars
  <2>4. to_producer' = Append(to_producer, s)
    BY <2>1, <2>2, PutIsAppend DEF TypeOK, StatusTellsFifo
  <2>5. Exchange!Decline
    BY <2>1, <2>3, <2>4 DEF Exchange!Decline, Present, Held
  <2> QED
    BY <2>5 DEF Exchange!Next
<1>5. ASSUME NEW s \in Slots, NEW fd \in Fds, Released(t, fd, s)
      PROVE  [Exchange!Next]_(Exchange!vars)
  <2>1. /\ status[s] = "acquire" /\ consumer # None /\ s \notin Range(to_consumer)
        /\ s \notin Range(to_producer)
    BY <1>1, <1>5, FoundSlot DEF Released, ReleaseToNobody, ReleaseToProducer, ReleaseAndRequeue
  <2>2. /\ UNCHANGED tunnelVars
        /\ \E to \in {"free", "release", "queue"} : status' = [status EXCEPT ![s] = to]
    BY <1>5 DEF Released, ReleaseToNobody, ReleaseToProducer, ReleaseAndRequeue
  <2>3. /\ Present' = Present /\ "consumer" \in Present
        /\ s \in Held /\ Held' = Held \ {s}
    BY <2>1, <2>2, Mapping DEF Held, TypeOK, tunnelVars
  <2>4. \/ /\ "producer" \in Present
           /\ to_producer' = Append(to_producer, s) /\ UNCHANGED to_consumer
        \/ /\ "producer" \in Present /\ to_consumer = <<>>
           /\ to_consumer' = <<s>> /\ UNCHANGED to_producer
        \/ UNCHANGED <<to_consumer, to_producer>>
    <3>1. CASE ReleaseToNobody(t, fd, s)
      BY <3>1 DEF ReleaseToNobody, fifoVars
    <3>2. CASE ReleaseToProducer(t, fd, s)
      <4>1. /\ producer # None /\ to_producer' = Put(to_producer, <<s>>)
            /\ UNCHANGED to_consumer
        BY <3>2 DEF ReleaseToProducer, ProducerGone
      <4>2. to_producer' = Append(to_producer, s)
        BY <2>1, <4>1, PutIsAppend DEF TypeOK, StatusTellsFifo
      <4> QED
        BY <4>1, <4>2, Mapping
    <3>3. CASE ReleaseAndRequeue(t, fd, s)
      <4>1. /\ producer # None /\ to_consumer = <<>> /\ to_consumer' = Put(to_consumer, <<s>>)
            /\ UNCHANGED to_producer
        BY <3>3 DEF ReleaseAndRequeue, ProducerGone, Redisplay
      <4>2. to_consumer' = Append(to_consumer, s)
        BY <2>1, <4>1, PutIsAppend DEF TypeOK, StatusTellsFifo
      <4>3. to_consumer' = <<s>>
        BY <4>1, <4>2
      <4> QED
        BY <4>1, <4>3, Mapping
    <3> QED
      BY <1>5, <3>1, <3>2, <3>3 DEF Released
  <2>5. Exchange!GiveBack(s)
    BY <2>3, <2>4 DEF Exchange!GiveBack, Present, Held
  <2> QED
    BY <2>5 DEF Exchange!Next
<1> QED
  <2>1. CASE \E fd \in Fds : Release(t, fd)
    BY <1>2, <1>5, <2>1 DEF Release, Released
  <2> QED
    BY <1>2, <1>3, <1>4, <2>1 DEF ConsumerCall

\* Connections join and leave the exchange.
LEMMA ConnectionImplements ==
  ASSUME TunnelInv, NEW t \in Threads, Connection(t)
  PROVE  [Exchange!Next]_(Exchange!vars)
<1> USE DEF TunnelInv
<1>1. CASE ConnectProducer(t)
  <2>1. /\ producer' # None /\ UNCHANGED <<consumer, fifoVars, status>>
    BY <1>1 DEF ConnectProducer, Sessions
  <2>2. Present' = Present \cup {"producer"} /\ Held' = Held
    BY <2>1, Mapping DEF Present
  <2>3. Exchange!Join("producer")
    BY <2>1, <2>2 DEF Exchange!Join, Present, Held, fifoVars
  <2> QED
    BY <2>3 DEF Exchange!Next
<1>2. CASE ConnectConsumer(t)
  <2>1. /\ consumer' # None /\ UNCHANGED <<producer, fifoVars, status>>
    BY <1>2 DEF ConnectConsumer, Sessions, slotVars
  <2>2. Present' = Present \cup {"consumer"} /\ Held' = Held
    BY <2>1, Mapping DEF Present
  <2>3. Exchange!Join("consumer")
    BY <2>1, <2>2 DEF Exchange!Join, Present, Held, fifoVars
  <2> QED
    BY <2>3 DEF Exchange!Next
<1>3. CASE DisconnectProducer(t)
  <2>1. /\ producer' = None /\ DropReturned
        /\ status' = With(status, Range(to_producer), "free")
        /\ UNCHANGED <<consumer, to_consumer>>
    BY <1>3 DEF DisconnectProducer
  <2>2. Exchange!ProducerLeaves
    BY <2>1, ProducerLeavesStep
  <2> QED
    BY <2>2 DEF Exchange!Next
<1>4. CASE DisconnectConsumer(t)
  <2>1. /\ consumer' = None /\ UNCHANGED producer
        /\ \/ UNCHANGED <<to_consumer, to_producer, status>>
           \/ /\ to_consumer' = <<>> /\ UNCHANGED to_producer
              /\ status' = With(status, Range(to_consumer), "free")
           \/ /\ to_consumer' = <<>> /\ to_producer' = Put(to_producer, to_consumer)
              /\ status' = With(status, Range(to_consumer), "release")
    BY <1>4 DEF DisconnectConsumer, TrimmedTo, fifoVars
  <2>2. Exchange!ConsumerLeaves
    BY <2>1, ConsumerLeavesStep
  <2> QED
    BY <2>2 DEF Exchange!Next
<1> QED
  BY <1>1, <1>2, <1>3, <1>4 DEF Connection

\* So does the death of a process, and the last one resets the exchange.
LEMMA CloseImplements ==
  ASSUME TunnelInv, NEW session \in Sessions, Close(session)
  PROVE  [Exchange!Next]_(Exchange!vars)
<1> USE DEF TunnelInv
<1>1. CASE CloseLeavingPeer(session)
  <2>1. \/ /\ producer' = None /\ DropReturned
           /\ status' = With(status, Range(to_producer), "free")
           /\ UNCHANGED <<consumer, to_consumer>>
        \/ /\ consumer' = None /\ to_consumer' = <<>> /\ UNCHANGED <<producer, to_producer>>
           /\ status' = With(status, Range(to_consumer), "free")
    BY <1>1 DEF CloseLeavingPeer
  <2>2. Exchange!ProducerLeaves \/ Exchange!ConsumerLeaves
    BY <2>1, ProducerLeavesStep, ConsumerLeavesStep
  <2> QED
    BY <2>2 DEF Exchange!Next
<1>2. CASE CloseLeavingNobody(session)
  <2>1. /\ producer' = None /\ consumer' = None /\ to_consumer' = <<>> /\ to_producer' = <<>>
        /\ status' = [s \in Slots |-> "free"]
    BY <1>2 DEF CloseLeavingNobody, DropReturned
  <2>2. Present' = {} /\ Held' = {}
    BY <2>1 DEF Present, Held
  <2>3. Exchange!Reset
    BY <2>1, <2>2 DEF Exchange!Reset, Present, Held
  <2> QED
    BY <2>3 DEF Exchange!Next
<1>3. CASE CloseUnrelated(session)
  <2>1. UNCHANGED <<producer, consumer, fifoVars, status>>
    BY <1>3 DEF CloseUnrelated, tunnelVars, slotVars
  <2> QED
    BY <2>1, ExchangeStutters, Mapping
<1> QED
  BY <1>1, <1>2, <1>3 DEF Close

\* Every step of the tunnel is a step of the exchange, or changes nothing
\* the exchange can see.
LEMMA NextImplements ==
  TunnelInv /\ [Next]_vars => [Exchange!Next]_(Exchange!vars)
<1> SUFFICES ASSUME TunnelInv, [Next]_vars PROVE [Exchange!Next]_(Exchange!vars)
  OBVIOUS
<1>1. CASE \/ UNCHANGED vars
           \/ \E t \in Threads, call \in Calls : Enter(t, call)
           \/ \E c \in Consumers, fd \in Fds : CloseFd(c, fd)
  <2>1. UNCHANGED <<producer, consumer, fifoVars, status>>
    BY <1>1 DEF vars, Enter, CloseFd, tunnelVars, slotVars
  <2> QED
    BY <2>1, ExchangeStutters, Mapping
<1> QED
  BY <1>1, ProducerImplements, ConsumerImplements, ConnectionImplements, CloseImplements
     DEF Next

\* Whatever the sessions do, connect, disconnect or die, the tunnel behaves
\* like an exchange: buffers stay in order, in one place, and are moved only
\* by sides that are present.
THEOREM TunnelImplementsExchange == OneCallAtATime => (Spec => ImplementsExchange)
<1> SUFFICES ASSUME OneCallAtATime PROVE Spec => ImplementsExchange
  OBVIOUS
<1>1. TunnelInv /\ [Next]_vars => TunnelInv'
  BY TunnelStep
<1>2. Init => Exchange!Init
  BY DEF Init, Exchange!Init
<1> QED
  BY <1>1, <1>2, TunnelInit, NextImplements, PTL DEF Spec, ImplementsExchange, Exchange!Spec

\* And so a slot of a tunnel is in one place: with the producer, in one of the
\* fifos, once, or with a consumer.
THEOREM TunnelOnePlace == OneCallAtATime => (Spec => []Exchange!OnePlace)
<1>1. ExchangeProofs!Spec => []ExchangeProofs!OnePlace
  BY ExchangeProofs!ExchangeOnePlace
<1>2. ExchangeProofs!OnePlace => Exchange!OnePlace
  BY DEF Exchange!OnePlace, ExchangeProofs!OnePlace, Exchange!IsInjective, Exchange!Range,
         ExchangeProofs!IsInjective, ExchangeProofs!Range
<1>3. Exchange!Init => ExchangeProofs!Init
  BY DEF Exchange!Init, ExchangeProofs!Init
<1>4. [Exchange!Next]_(Exchange!vars) => [ExchangeProofs!Next]_(ExchangeProofs!vars)
  <2>1. UNCHANGED Exchange!vars => UNCHANGED ExchangeProofs!vars
    BY DEF Exchange!vars, ExchangeProofs!vars
  <2>2. Exchange!Idle = ExchangeProofs!Idle
    BY DEF Exchange!Idle, ExchangeProofs!Idle, Exchange!Range, ExchangeProofs!Range
  <2>3. ASSUME Exchange!Next PROVE ExchangeProofs!Next
    <3>1. \A b \in Slots : Exchange!Submit(b) \/ Exchange!GiveBack(b) =>
                            ExchangeProofs!Submit(b) \/ ExchangeProofs!GiveBack(b)
      BY <2>2 DEF Exchange!Submit, ExchangeProofs!Submit, Exchange!GiveBack,
                  ExchangeProofs!GiveBack
    <3>2. Exchange!Collect \/ Exchange!Recall \/ Exchange!Take \/ Exchange!Decline =>
            ExchangeProofs!Collect \/ ExchangeProofs!Recall \/ ExchangeProofs!Take
              \/ ExchangeProofs!Decline
      BY DEF Exchange!Collect, ExchangeProofs!Collect, Exchange!Recall, ExchangeProofs!Recall,
             Exchange!Take, ExchangeProofs!Take, Exchange!Decline, ExchangeProofs!Decline
    <3>3. /\ \A role \in {"producer", "consumer"} :
               Exchange!Join(role) => ExchangeProofs!Join(role)
          /\ Exchange!ProducerLeaves => ExchangeProofs!ProducerLeaves
          /\ Exchange!ConsumerLeaves => ExchangeProofs!ConsumerLeaves
          /\ Exchange!Reset => ExchangeProofs!Reset
      BY DEF Exchange!Join, ExchangeProofs!Join, Exchange!ProducerLeaves,
             ExchangeProofs!ProducerLeaves, Exchange!ConsumerLeaves,
             ExchangeProofs!ConsumerLeaves, Exchange!Reset, ExchangeProofs!Reset
    <3> QED
      BY <2>3, <3>1, <3>2, <3>3 DEF Exchange!Next, ExchangeProofs!Next
  <2> QED
    BY <2>1, <2>3
<1> QED
  BY <1>1, <1>2, <1>3, <1>4, TunnelImplementsExchange, PTL
     DEF ImplementsExchange, Exchange!Spec, ExchangeProofs!Spec
-----------------------------------------------------------------------------
(* A release acts on the buffer its file came from, where one consumer uses *)
(* the tunnel and keeps the files of the buffers it has acquired.           *)

OneConsumer == \A c, d \in Consumers : c = d

\* A queued slot is no file yet, and an acquired one is the consumer's file.
FilesKnown ==
  \A s \in Slots :
    /\ status[s] = "queue" => buffer_fd_con[s] = NoFd
    /\ status[s] = "acquire" =>
         buffer_fd_con[s] \in Fds /\ \A c \in Consumers : view[c][buffer_fd_con[s]] = s

\* Steps in which no slot becomes queued or acquired, and none changes its file.
LEMMA FilesKept ==
  ASSUME FilesKnown, UNCHANGED <<buffer_fd_con, view>>,
         \A s \in Slots : status'[s] \in {"queue", "acquire"} => status'[s] = status[s]
  PROVE  FilesKnown'
BY DEF FilesKnown

\* A slot that leaves the consumer, or is on its way to it again, is no file.
LEMMA FileForgotten ==
  ASSUME TypeOK, FilesKnown, NEW s \in Slots, NEW to \in {"queue", "dequeue", "free"},
         status' = [status EXCEPT ![s] = to], buffer_fd_con' = FdCleared(s), UNCHANGED view
  PROVE  FilesKnown'
<1>1. /\ status'[s] = to /\ buffer_fd_con'[s] = NoFd
      /\ \A r \in Slots \ {s} : status'[r] = status[r] /\ buffer_fd_con'[r] = buffer_fd_con[r]
  BY DEF TypeOK, FdCleared
<1> QED
  BY <1>1 DEF FilesKnown

\* A file number that is given out was not the number of another buffer.
LEMMA AcquireFiles ==
  ASSUME OneConsumer, TunnelInv, FilesKnown,
         NEW t \in Threads, NEW s \in Slots, NEW fd \in Fds, Acquire(t, s, fd)
  PROVE  FilesKnown'
<1> USE DEF TunnelInv
<1> DEFINE c == SessionOf[t]
<1>1. c \in Consumers
  BY DEF Acquire, InCalls, TypeOK, Sessions
<1>2. status[s] = "queue" /\ buffer_fd_con[s] = NoFd
  <2>1. s \in Range(to_consumer)
    <3>1. to_consumer \in Seq(Slots) /\ to_consumer # <<>> /\ s = Head(to_consumer)
      BY DEF Acquire, TypeOK
    <3>2. 1 \in DOMAIN to_consumer /\ s = to_consumer[1]
      BY <3>1
    <3> QED
      BY <3>2 DEF Range
  <2> QED
    BY <2>1 DEF StatusTellsFifo, FilesKnown
<1>3. view[c][fd] = None
  BY <1>2 DEF Acquire, IsLowest, FreeFds
<1>4. /\ status' = [status EXCEPT ![s] = "acquire"]
      /\ buffer_fd_con' = [buffer_fd_con EXCEPT ![s] = fd]
      /\ view' = [view EXCEPT ![c][fd] = s]
  BY DEF Acquire
<1>5. /\ status'[s] = "acquire" /\ buffer_fd_con'[s] = fd
      /\ \A r \in Slots \ {s} : status'[r] = status[r] /\ buffer_fd_con'[r] = buffer_fd_con[r]
  BY <1>4 DEF TypeOK
<1>6. view'[c][fd] = s /\ \A f \in Fds \ {fd} : view'[c][f] = view[c][f]
  BY <1>1, <1>4 DEF TypeOK
<1>7. \A d \in Consumers : d = c
  BY <1>1 DEF OneConsumer
<1>8. fd # NoFd
  BY DEF Fds, NoFd
<1>9. ASSUME NEW r \in Slots
      PROVE  /\ status'[r] = "queue" => buffer_fd_con'[r] = NoFd
             /\ status'[r] = "acquire" =>
                  buffer_fd_con'[r] \in Fds /\ \A d \in Consumers : view'[d][buffer_fd_con'[r]] = r
  <2>1. CASE r = s
    BY <1>5, <1>6, <1>7, <2>1
  <2>2. CASE r # s
    <3>1. status[r] = "acquire" => buffer_fd_con[r] \in Fds /\ view[c][buffer_fd_con[r]] = r
      BY <1>1 DEF FilesKnown
    <3>2. status[r] = "acquire" => buffer_fd_con[r] # fd
      BY <1>3, <3>1
    <3> QED
      BY <1>5, <1>6, <1>7, <2>2, <3>1, <3>2 DEF FilesKnown
  <2> QED
    BY <2>1, <2>2
<1> QED
  BY <1>9 DEF FilesKnown

\* No step loses track of an acquired slot's file, unless the consumer dies or
\* abandons buffers.
LEMMA FilesStep ==
  ASSUME OneCallAtATime, OneConsumer, ConsumersStay, ~Abandon, TunnelInv, FilesKnown,
         [Next]_vars
  PROVE  FilesKnown'
<1> USE DEF TunnelInv
<1>1. CASE UNCHANGED <<status, buffer_fd_con, view>>
  BY <1>1, FilesKept
<1>2. ASSUME NEW t \in Threads,
             \/ \E call \in Calls : Enter(t, call)
             \/ QueueNoSlot(t) \/ DequeueWait(t) \/ DequeueGiveUp(t) \/ AcquireGiveUp(t)
             \/ Refresh(t) \/ \E fd \in Fds : ReleaseUnknown(t, fd)
             \/ ConnectConsumer(t) \/ ConnectProducer(t)
      PROVE  FilesKnown'
  <2>1. UNCHANGED <<status, buffer_fd_con, view>>
    BY <1>2 DEF Enter, Return, QueueNoSlot, DequeueWait, DequeueGiveUp, AcquireGiveUp, Refresh,
                ReleaseUnknown, ConnectConsumer, ConnectProducer, slotVars
  <2> QED
    BY <1>1, <2>1
<1>3. ASSUME NEW t \in Threads, NEW s \in Slots, QueuePick(t, s) PROVE FilesKnown'
  <2>1. status[s] \in {"free", "dequeue"} /\ status' = status /\ UNCHANGED view
    BY <1>3 DEF QueuePick, IsLowest, Reusable
  <2>2. status' = [status EXCEPT ![s] = status[s]] /\ buffer_fd_con' = FdCleared(s)
    BY <1>3, <2>1 DEF QueuePick, TypeOK
  <2> QED
    BY <2>1, <2>2, FileForgotten
<1>4. ASSUME NEW t \in Threads, QueuePut(t) PROVE FilesKnown'
  <2>1. picked[t] \in Slots
    BY DEF TypeOK
  <2>2. /\ status' = [status EXCEPT ![picked[t]] = "queue"]
        /\ buffer_fd_con' = FdCleared(picked[t]) /\ UNCHANGED view
    BY <1>4 DEF QueuePut
  <2> QED
    BY <2>1, <2>2, FileForgotten
<1>5. ASSUME NEW t \in Threads, NEW s \in Slots, Dequeued(t, s) \/ AcquireNoFd(t, s)
      PROVE  FilesKnown'
  <2>1. /\ \E to \in {"dequeue", "release"} : status' = [status EXCEPT ![s] = to]
        /\ UNCHANGED <<buffer_fd_con, view>>
    BY <1>5 DEF Dequeued, AcquireNoFd
  <2>2. \A r \in Slots : status'[r] \in {"queue", "acquire"} => status'[r] = status[r]
    BY <2>1 DEF TypeOK
  <2> QED
    BY <2>1, <2>2, FilesKept
<1>6. ASSUME NEW t \in Threads, NEW fd \in Fds, NEW s \in Slots, Released(t, fd, s)
      PROVE  FilesKnown'
  <2>1. CASE ReleaseAndRequeue(t, fd, s)
    <3>1. /\ status' = [status EXCEPT ![s] = "queue"] /\ buffer_fd_con' = FdCleared(s)
          /\ UNCHANGED view
      BY <2>1 DEF ReleaseAndRequeue
    <3> QED
      BY <3>1, FileForgotten
  <2>2. CASE ReleaseToNobody(t, fd, s) \/ ReleaseToProducer(t, fd, s)
    <3>1. /\ \E to \in {"free", "release"} : status' = [status EXCEPT ![s] = to]
          /\ UNCHANGED <<buffer_fd_con, view>>
      BY <2>2 DEF ReleaseToNobody, ReleaseToProducer
    <3>2. \A r \in Slots : status'[r] \in {"queue", "acquire"} => status'[r] = status[r]
      BY <3>1 DEF TypeOK
    <3> QED
      BY <3>1, <3>2, FilesKept
  <2> QED
    BY <1>6, <2>1, <2>2 DEF Released
<1>7. ASSUME NEW t \in Threads, Cancel(t) \/ DisconnectProducer(t) \/ DisconnectConsumer(t)
      PROVE  FilesKnown'
  <2>1. UNCHANGED <<buffer_fd_con, view>>
    BY <1>7 DEF Cancel, DisconnectProducer, DisconnectConsumer
  <2>2. \A s \in Slots : status'[s] \in {status[s], "release", "free"}
    BY <1>7 DEF Cancel, DisconnectProducer, DisconnectConsumer, With, TrimmedTo, TypeOK
  <2> QED
    BY <2>1, <2>2, FilesKept
<1>8. ASSUME NEW session \in Sessions, Close(session) PROVE FilesKnown'
  <2>1. session \notin Consumers
    BY <1>8 DEF Close, ConsumersStay
  <2>2. UNCHANGED <<buffer_fd_con, view>>
    <3>1. buffer_fd_con' = buffer_fd_con
      BY <1>8 DEF Close, CloseLeavingPeer, CloseLeavingNobody, CloseUnrelated, slotVars
    <3>2. \A c \in Consumers : c # session
      BY <2>1
    <3>3. view' = [c \in Consumers |-> view[c]]
      BY <1>8, <3>2 DEF Close, FilesOfDeadProcess
    <3> QED
      BY <3>1, <3>3 DEF TypeOK
  <2>3. \A s \in Slots : status'[s] \in {status[s], "free"}
    BY <1>8 DEF Close, CloseLeavingPeer, CloseLeavingNobody, CloseUnrelated, slotVars, With, TypeOK
  <2> QED
    BY <2>2, <2>3, FilesKept
<1>9. ASSUME NEW c \in Consumers, NEW fd \in Fds, CloseFd(c, fd) PROVE FilesKnown'
  <2>1. /\ view[c][fd] # None /\ view' = [view EXCEPT ![c][fd] = None]
        /\ ~(status[view[c][fd]] = "acquire" /\ buffer_fd_con[view[c][fd]] = fd)
        /\ UNCHANGED <<status, buffer_fd_con>>
    BY <1>9 DEF CloseFd, slotVars
  <2>2. \A d \in Consumers : \A f \in Fds \ {fd} : view'[d][f] = view[d][f]
    BY <2>1 DEF TypeOK, OneConsumer
  <2>3. ASSUME NEW s \in Slots, status[s] = "acquire" PROVE buffer_fd_con[s] # fd
    BY <2>1, <2>3 DEF FilesKnown
  <2> QED
    BY <2>1, <2>2, <2>3 DEF FilesKnown
<1> QED
  <2>1. ASSUME NEW t \in Threads, ProducerCall(t) PROVE FilesKnown'
    BY <1>2, <1>3, <1>4, <1>5, <1>7, <2>1
    DEF ProducerCall, DequeuePop, DequeuePrevious, DequeueNoFd
  <2>2. ASSUME NEW t \in Threads, ConsumerCall(t) PROVE FilesKnown'
    BY <1>2, <1>5, <1>6, <2>2, AcquireFiles DEF ConsumerCall, Release, Released
  <2>3. ASSUME NEW t \in Threads, Connection(t) PROVE FilesKnown'
    BY <1>2, <1>7, <2>3 DEF Connection
  <2>4. UNCHANGED vars => UNCHANGED <<status, buffer_fd_con, view>>
    BY DEF vars, slotVars
  <2> QED
    BY <1>1, <1>2, <1>8, <1>9, <2>1, <2>2, <2>3, <2>4 DEF Next

\* A consumer that stays connected or comes back, and closes files only of
\* buffers it has released, never gives back another buffer than the one it
\* names, however the producer comes, goes or dies: the driver looks slots up
\* by the number of a file, and numbers are used again.
THEOREM TunnelReleaseHitsOwnBuffer ==
  OneCallAtATime /\ OneConsumer /\ ConsumersStay /\ ~Abandon => (Spec => ReleaseHitsOwnBuffer)
<1> SUFFICES ASSUME OneCallAtATime, OneConsumer, ConsumersStay, ~Abandon
             PROVE  Spec => ReleaseHitsOwnBuffer
  OBVIOUS
<1> DEFINE OwnBuffer == \A t \in Threads, fd \in Fds, s \in Slots :
                          Released(t, fd, s) => view[SessionOf[t]][fd] = s
<1>1. Init => TunnelInv /\ FilesKnown
  BY TunnelInit DEF Init, FilesKnown
<1>2. (TunnelInv /\ FilesKnown) /\ [Next]_vars => (TunnelInv /\ FilesKnown)'
  BY TunnelStep, FilesStep
<1>3. TunnelInv /\ FilesKnown => OwnBuffer
  <2> SUFFICES ASSUME TunnelInv, FilesKnown, NEW t \in Threads, NEW fd \in Fds, NEW s \in Slots,
                      Released(t, fd, s)
               PROVE  view[SessionOf[t]][fd] = s
    OBVIOUS
  <2>1. pc[t] = "release" /\ status[s] = "acquire" /\ buffer_fd_con[s] = fd
    BY DEF Released, ReleaseToNobody, ReleaseToProducer, ReleaseAndRequeue, Found, IsLowest, Matching
  <2>2. SessionOf[t] \in Consumers
    BY <2>1 DEF TunnelInv, InCalls, TypeOK, Sessions
  <2> QED
    BY <2>1, <2>2 DEF FilesKnown
<1> HIDE DEF OwnBuffer
<1>4. (TunnelInv /\ FilesKnown) /\ [Next]_vars => [OwnBuffer]_vars
  BY <1>3
<1>5. Spec => [][OwnBuffer]_vars
  BY <1>1, <1>2, <1>4, PTL DEF Spec
<1> QED
  BY <1>5 DEF OwnBuffer, ReleaseHitsOwnBuffer
=============================================================================
