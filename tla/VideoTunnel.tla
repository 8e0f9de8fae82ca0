----------------------------- MODULE VideoTunnel -----------------------------
(***************************************************************************)
(* drivers/media/video_processor/videotunnel/videotunnel.c: the buffers of *)
(* one tunnel (struct vt_instance).  A producer session queues video       *)
(* buffers into a pool of slots, the consumer session acquires them as     *)
(* files of its own process, releases them, and the producer dequeues      *)
(* them.  Sessions connect, disconnect and are closed, by their owner or   *)
(* by the death of its process, with buffers anywhere on the way.          *)
(*                                                                         *)
(* A thread inside a call tests the session without instance->lock (Enter) *)
(* and takes the lock once or twice later; a section under the lock is one *)
(* step.  The tunnel id stays allocated (vt_alloc_id holds a reference),   *)
(* so the instance outlives its connections; VideoTunnelIds has what       *)
(* happens otherwise.  Commands and poll are in VideoTunnelCommands, with  *)
(* the game mode, in which nothing is queued without a consumer.           *)
(* Statistics are left out, and so are timeouts: a call that finds its     *)
(* fifo empty waits a few milliseconds or not at all and then gives up,    *)
(* here at any time while the fifo is empty.                               *)
(***************************************************************************)
EXTENDS Integers, Sequences, FiniteSets, Functions

CONSTANTS
  Producers, Consumers,   \* sessions, by the role they connect in
  Threads,                \* threads that make calls
  SessionOf,              \* the session a thread calls on
  Closers,                \* sessions whose process may die
  Abandon,                \* TRUE: a consumer that is not connected may close
                          \* the files of buffers it never released
  VT_POOL_SIZE,           \* slots of an instance
  Limit,                  \* dev->limit: fewer busy slots are not dequeued
  FdCount,                \* bound: files a consumer process can have open
  Calls,                  \* bound: the calls that are made, of AllCalls
  None

Sessions == Producers \cup Consumers
Slots == 0..(VT_POOL_SIZE - 1)
Fds == 0..(FdCount - 1)
NoFd == -1

AllCalls == {"queue", "dequeue", "cancel", "acquire", "release", "refresh"}

ASSUME SessionAssumption ==
  /\ Producers \cap Consumers = {} /\ None \notin Sessions
  /\ SessionOf \in [Threads -> Sessions] /\ Closers \subseteq Sessions
  /\ Abandon \in BOOLEAN
ASSUME PoolAssumption ==
  /\ VT_POOL_SIZE \in Nat \ {0} /\ FdCount \in Nat \ {0} /\ Limit \in Nat
  /\ Calls \subseteq AllCalls /\ None \notin Slots

VARIABLES
  producer, consumer, need_refresh,         \* struct vt_instance
  to_consumer, to_producer,                 \* its fifos, of slots
  status,        \* item.buffer_status of a slot
  session_pro,   \* the session that queued it
  current,       \* cid_pro is still the connection id of that session
  buffer_fd_con, \* its file descriptor in the consumer
  file_buffer, file_fence,   \* are these pointers set (fresh or stale)?
  pc, picked,    \* where a thread is, and the slot it fills
  file_ref, fence_ref,  \* history: the slot owns a reference to the file
  lent,          \* history: slots the connected producer queued and was not given back
  unreported,    \* history: those a dequeue call took and could not report
  view           \* the slot a consumer's open file came from

tunnelVars == <<producer, consumer, need_refresh>>
slotVars == <<status, session_pro, current, buffer_fd_con>>
fileVars == <<file_buffer, file_fence, file_ref, fence_ref>>
fifoVars == <<to_consumer, to_producer>>
loanVars == <<lent, unreported>>
vars == <<tunnelVars, fifoVars, slotVars, fileVars, pc, picked, loanVars, view>>

TypeOK ==
  /\ producer \in Producers \cup {None} /\ consumer \in Consumers \cup {None}
  /\ need_refresh \in BOOLEAN
  /\ to_consumer \in Seq(Slots) /\ to_producer \in Seq(Slots)
  /\ status \in [Slots -> {"queue", "dequeue", "acquire", "release", "free"}]
  /\ session_pro \in [Slots -> Producers \cup {None}]
  /\ current \in [Slots -> BOOLEAN]
  /\ buffer_fd_con \in [Slots -> Fds \cup {NoFd}]
  /\ file_buffer \in [Slots -> BOOLEAN] /\ file_fence \in [Slots -> BOOLEAN]
  /\ file_ref \in [Slots -> BOOLEAN] /\ fence_ref \in [Slots -> BOOLEAN]
  /\ pc \in [Threads -> Calls \cup {"out", "fill", "pop"}]
  /\ picked \in [Threads -> Slots]
  /\ lent \subseteq Slots /\ unreported \subseteq Slots
  /\ view \in [Consumers -> [Fds -> Slots \cup {None}]]

Init ==
  /\ producer = None /\ consumer = None /\ need_refresh = FALSE
  /\ to_consumer = <<>> /\ to_producer = <<>>
  /\ status = [s \in Slots |-> "free"]
  /\ session_pro = [s \in Slots |-> None]
  /\ current = [s \in Slots |-> FALSE]
  /\ buffer_fd_con = [s \in Slots |-> NoFd]
  /\ file_buffer = [s \in Slots |-> FALSE] /\ file_fence = [s \in Slots |-> FALSE]
  /\ file_ref = [s \in Slots |-> FALSE] /\ fence_ref = [s \in Slots |-> FALSE]
  /\ pc = [t \in Threads |-> "out"] /\ picked = [t \in Threads |-> 0]
  /\ lent = {} /\ unreported = {}
  /\ view = [c \in Consumers |-> [f \in Fds |-> None]]
-----------------------------------------------------------------------------
IsLowest(s, S) == s \in S /\ \A u \in S : s <= u
With(f, S, v) == [s \in DOMAIN f |-> IF s \in S THEN v ELSE f[s]]

\* kfifo_put, whose result nobody looks at: what does not fit is dropped.
Put(q, r) == IF Len(q) + Len(r) <= VT_POOL_SIZE
             THEN q \o r ELSE SubSeq(q \o r, 1, VT_POOL_SIZE)

Goto(t, where) == pc' = [pc EXCEPT ![t] = where]

\* Entry of a call: the session must be connected in the role of the call.
Enter(t, call) ==
  /\ pc[t] = "out"
  /\ call \in {"queue", "dequeue", "cancel"} => producer = SessionOf[t]
  /\ call \in {"acquire", "release"} => consumer = SessionOf[t]
  /\ call = "refresh" => consumer \in {None, SessionOf[t]}
  /\ Goto(t, call)
  /\ UNCHANGED <<tunnelVars, fifoVars, slotVars, fileVars, picked, loanVars, view>>

\* The call returns without having changed anything.
Return(t) ==
  /\ Goto(t, "out")
  /\ UNCHANGED <<tunnelVars, fifoVars, slotVars, fileVars, picked, loanVars, view>>
-----------------------------------------------------------------------------
\* Faulty search: in the fifo to the producer too.
ReusableInFifo == {s \in Slots : status[s] \in {"free", "dequeue", "release"}}

Reusable == {s \in Slots : status[s] \in {"free", "dequeue"}}

\* A slot that starts a new way to the consumer is not a file of it yet.
FdCleared(s) == [buffer_fd_con EXCEPT ![s] = NoFd]

\* vt_get_free_buffer, and the reference to the file that is put into the
\* slot: its status is still the old one when the lock is released.
QueuePick(t, s) ==
  /\ pc[t] = "queue" /\ IsLowest(s, Reusable)
  /\ \E valid \in BOOLEAN :
       /\ file_buffer' = [file_buffer EXCEPT ![s] = valid]
       /\ file_ref' = [file_ref EXCEPT ![s] = valid]
       /\ Goto(t, IF valid THEN "fill" ELSE "out")
  /\ file_fence' = [file_fence EXCEPT ![s] = FALSE]
  /\ buffer_fd_con' = FdCleared(s)
  /\ picked' = [picked EXCEPT ![t] = s]
  /\ UNCHANGED <<tunnelVars, fifoVars, status, session_pro, current, fence_ref, loanVars, view>>

QueueNoSlot(t) == pc[t] = "queue" /\ Reusable = {} /\ Return(t)

QueuePut(t) ==
  LET s == picked[t] IN
  /\ pc[t] = "fill"
  /\ status' = [status EXCEPT ![s] = "queue"]
  /\ session_pro' = [session_pro EXCEPT ![s] = SessionOf[t]]
  /\ current' = [current EXCEPT ![s] = TRUE]
  /\ buffer_fd_con' = FdCleared(s)
  /\ to_consumer' = Put(to_consumer, <<s>>)
  /\ lent' = lent \cup {s} /\ unreported' = unreported \ {s}
  /\ Goto(t, "out") /\ picked' = [picked EXCEPT ![t] = 0]
  /\ UNCHANGED <<tunnelVars, to_producer, fileVars, view>>
-----------------------------------------------------------------------------
Busy == {s \in Slots : status[s] \in {"queue", "acquire", "release"}}

DequeueWait(t) ==
  /\ pc[t] = "dequeue" /\ to_producer # <<>> /\ Cardinality(Busy) >= Limit
  /\ Goto(t, "pop")
  /\ UNCHANGED <<tunnelVars, fifoVars, slotVars, fileVars, picked, loanVars, view>>

DequeueGiveUp(t) ==
  /\ \/ pc[t] = "dequeue" /\ (to_producer = <<>> \/ Cardinality(Busy) < Limit)
     \/ pc[t] = "pop" /\ to_producer = <<>>
  /\ Return(t)

\* The slot leaves the fifo, and its fence the slot: it goes to the producer
\* or is put.
Dequeued(t, s) ==
  /\ pc[t] = "pop" /\ to_producer # <<>> /\ s = Head(to_producer)
  /\ to_producer' = Tail(to_producer)
  /\ status' = [status EXCEPT ![s] = "dequeue"]
  /\ fence_ref' = [fence_ref EXCEPT ![s] = @ /\ ~file_fence[s]]
  /\ Goto(t, "out")
  /\ UNCHANGED <<tunnelVars, to_consumer, session_pro, current, buffer_fd_con,
                 file_buffer, file_fence, file_ref, picked, view>>

\* The buffer was queued in the connection the producer has now.
OfConnection(t, s) == session_pro[s] = SessionOf[t] /\ current[s]

DequeuePop(t, s) ==
  /\ Dequeued(t, s) /\ OfConnection(t, s)
  /\ lent' = lent \ {s} /\ UNCHANGED unreported

\* The buffer of a previous connection is dropped, and the call fails.
DequeuePrevious(t, s) == Dequeued(t, s) /\ ~OfConnection(t, s) /\ UNCHANGED loanVars

\* The producer has no file descriptor left for the fence: the call fails, and
\* does not say which buffer it took out of the fifo.
DequeueNoFd(t, s) ==
  /\ Dequeued(t, s) /\ OfConnection(t, s) /\ file_fence[s]
  /\ unreported' = unreported \cup {s} /\ UNCHANGED lent
-----------------------------------------------------------------------------
AcquireGiveUp(t) == pc[t] = "acquire" /\ to_consumer = <<>> /\ Return(t)

FreeFds(c) == {f \in Fds : view[c][f] = None}

\* The slot's file becomes a file of the consumer: the reference moves there.
Acquire(t, s, fd) ==
  /\ pc[t] = "acquire" /\ to_consumer # <<>> /\ s = Head(to_consumer)
  /\ IF buffer_fd_con[s] = NoFd THEN IsLowest(fd, FreeFds(SessionOf[t]))
                                ELSE fd = buffer_fd_con[s]
  /\ to_consumer' = Tail(to_consumer)
  /\ status' = [status EXCEPT ![s] = "acquire"]
  /\ buffer_fd_con' = [buffer_fd_con EXCEPT ![s] = fd]
  /\ file_ref' = [file_ref EXCEPT ![s] = FALSE]
  /\ view' = [view EXCEPT ![SessionOf[t]][fd] = s]
  /\ Goto(t, "out")
  /\ UNCHANGED <<tunnelVars, to_producer, session_pro, current,
                 file_buffer, file_fence, fence_ref, picked, loanVars>>

\* The consumer has no file descriptor left: the slot goes back.
AcquireNoFd(t, s) ==
  /\ pc[t] = "acquire" /\ to_consumer # <<>> /\ s = Head(to_consumer)
  /\ buffer_fd_con[s] = NoFd /\ FreeFds(SessionOf[t]) = {}
  /\ to_consumer' = Tail(to_consumer)
  /\ to_producer' = Put(to_producer, <<s>>)
  /\ status' = [status EXCEPT ![s] = "release"]
  /\ file_ref' = [file_ref EXCEPT ![s] = @ /\ ~file_buffer[s]]
  /\ Goto(t, "out")
  /\ UNCHANGED <<tunnelVars, session_pro, current, buffer_fd_con,
                 file_buffer, file_fence, fence_ref, picked, loanVars, view>>
-----------------------------------------------------------------------------
\* Faulty search: slots that were released are found too.
MatchingAnyStatus(fd) == {s \in Slots : buffer_fd_con[s] = fd}

\* vt_buffer_get_locked finds slot s for file fd: the first acquired slot
\* that was given to a consumer under that number.
Matching(fd) == {s \in Slots : status[s] = "acquire" /\ buffer_fd_con[s] = fd}
Found(t, fd, s) ==
  /\ pc[t] = "release"
  /\ IsLowest(s, Matching(fd))

\* Faulty test: the fifo is not looked at.
RedisplayAlways == need_refresh

\* Faulty test: the producer is not looked at.
ProducerTrusted(s) == FALSE

ProducerGone(s) == producer = None \/ (session_pro[s] # None /\ session_pro[s] # producer)

ReleaseUnknown(t, fd) == pc[t] = "release" /\ Matching(fd) = {} /\ Return(t)

\* The producer that queued the buffer has left: the slot is free.
ReleaseToNobody(t, fd, s) ==
  /\ Found(t, fd, s) /\ ProducerGone(s)
  /\ status' = [status EXCEPT ![s] = "free"]
  /\ Goto(t, "out")
  /\ UNCHANGED <<tunnelVars, fifoVars, session_pro, current, buffer_fd_con,
                 fileVars, picked, loanVars, view>>

Redisplay == need_refresh /\ to_consumer = <<>>

\* The slot goes to the producer, with the fence of the consumer if it has one.
ReleaseToProducer(t, fd, s) ==
  /\ Found(t, fd, s) /\ ~ProducerGone(s) /\ ~Redisplay
  /\ status' = [status EXCEPT ![s] = "release"]
  /\ \E fence \in BOOLEAN :
       /\ file_fence' = [file_fence EXCEPT ![s] = fence]
       /\ fence_ref' = [fence_ref EXCEPT ![s] = fence]
  /\ to_producer' = Put(to_producer, <<s>>)
  /\ Goto(t, "out")
  /\ UNCHANGED <<tunnelVars, to_consumer, session_pro, current, buffer_fd_con,
                 file_buffer, file_ref, picked, loanVars, view>>

\* The consumer asked for a refresh and nothing newer is queued: the slot is
\* queued once more, its fence put and its file referenced again.
ReleaseAndRequeue(t, fd, s) ==
  /\ Found(t, fd, s) /\ ~ProducerGone(s) /\ Redisplay
  /\ status' = [status EXCEPT ![s] = "queue"]
  /\ buffer_fd_con' = FdCleared(s)
  /\ file_fence' = [file_fence EXCEPT ![s] = FALSE]
  /\ file_ref' = [file_ref EXCEPT ![s] = TRUE]
  /\ to_consumer' = Put(to_consumer, <<s>>)
  /\ Goto(t, "out")
  /\ UNCHANGED <<tunnelVars, to_producer, session_pro, current, file_buffer,
                 fence_ref, picked, loanVars, view>>

\* The caller names one of its open files.
Release(t, fd) ==
  /\ pc[t] = "release" /\ view[SessionOf[t]][fd] # None
  /\ \/ ReleaseUnknown(t, fd)
     \/ \E s \in Slots : \/ ReleaseToNobody(t, fd, s)
                         \/ ReleaseToProducer(t, fd, s)
                         \/ ReleaseAndRequeue(t, fd, s)
-----------------------------------------------------------------------------
\* The producer takes back what the consumer has not acquired.
Cancel(t) ==
  LET back == {s \in Range(to_consumer) : file_buffer[s]} IN
  /\ pc[t] = "cancel"
  /\ status' = With(status, back, "release")
  /\ file_ref' = With(file_ref, back, FALSE)
  /\ to_producer' = Put(to_producer, to_consumer)
  /\ to_consumer' = <<>>
  /\ Goto(t, "out")
  /\ UNCHANGED <<tunnelVars, session_pro, current, buffer_fd_con,
                 file_buffer, file_fence, fence_ref, picked, loanVars, view>>

Refresh(t) ==
  /\ pc[t] = "refresh"
  /\ need_refresh' \in BOOLEAN
  /\ Goto(t, "out")
  /\ UNCHANGED <<producer, consumer, fifoVars, slotVars, fileVars, picked, loanVars, view>>
-----------------------------------------------------------------------------
\* A new connection id: what the session queued before becomes outdated.
NewConnection(p) ==
  /\ current' = [s \in Slots |-> current[s] /\ session_pro[s] # p]
  /\ lent' = {} /\ unreported' = {}

ConnectProducer(t) ==
  /\ pc[t] = "out" /\ SessionOf[t] \in Producers
  /\ producer \in {None, SessionOf[t]}
  /\ producer' = SessionOf[t]
  /\ NewConnection(SessionOf[t])
  /\ UNCHANGED <<consumer, need_refresh, fifoVars, status, session_pro, buffer_fd_con,
                 fileVars, pc, picked, view>>

ConnectConsumer(t) ==
  /\ pc[t] = "out" /\ SessionOf[t] \in Consumers
  /\ consumer \in {None, SessionOf[t]}
  /\ consumer' = SessionOf[t] /\ need_refresh' = FALSE
  /\ UNCHANGED <<producer, fifoVars, slotVars, fileVars, pc, picked, loanVars, view>>

\* Faulty version: the fences are forgotten.
DropReturnedLeakingFences == to_producer' = <<>> /\ UNCHANGED fence_ref

\* The fifo to the producer is emptied: fences are put and slots are free.
DropReturned ==
  /\ to_producer' = <<>>
  /\ fence_ref' = [s \in Slots |->
                     fence_ref[s] /\ ~(s \in Range(to_producer) /\ file_fence[s])]

DisconnectProducer(t) ==
  /\ pc[t] = "out" /\ producer = SessionOf[t]
  /\ producer' = None
  /\ DropReturned
  /\ status' = With(status, Range(to_producer), "free")
  /\ NewConnection(SessionOf[t])
  /\ UNCHANGED <<consumer, need_refresh, to_consumer, session_pro, buffer_fd_con,
                 file_buffer, file_fence, file_ref, pc, picked, view>>

\* Every file in the fifo to the consumer is put.
DropQueuedFiles ==
  file_ref' = [s \in Slots |-> file_ref[s] /\ ~(s \in Range(to_consumer) /\ file_buffer[s])]

\* Faulty version: slots are freed under a producer that waits for them.
TrimmedToFree == "free"
\* Faulty version: slots are marked with a status no search looks for.
TrimmedToInvalid == "invalid"

TrimmedTo == IF producer # None THEN "release" ELSE "free"

\* What the consumer has not acquired goes back, or is freed if there is no
\* producer; with a refresh asked for, it stays for the next consumer.
DisconnectConsumer(t) ==
  /\ pc[t] = "out" /\ consumer = SessionOf[t]
  /\ consumer' = None /\ need_refresh' = FALSE
  /\ IF need_refresh
     THEN UNCHANGED <<status, file_ref, fifoVars>>
     ELSE /\ status' = With(status, Range(to_consumer), TrimmedTo)
          /\ to_producer' = IF producer # None THEN Put(to_producer, to_consumer)
                                               ELSE to_producer
          /\ to_consumer' = <<>>
          /\ DropQueuedFiles
  /\ UNCHANGED <<producer, session_pro, current, buffer_fd_con,
                 file_buffer, file_fence, fence_ref, pc, picked, loanVars, view>>
-----------------------------------------------------------------------------
(* The session is closed; the kernel waits for the calls on it to return.   *)
(* Its process is gone, and with it the files of a consumer.                *)
Outside(session) == \A t \in Threads : SessionOf[t] = session => pc[t] = "out"

FilesOfDeadProcess(session) ==
  view' = [c \in Consumers |-> IF c = session THEN [f \in Fds |-> None] ELSE view[c]]

\* vt_instance_trim while a peer stays: the fifo towards the session is
\* emptied and its slots are free.
CloseLeavingPeer(session) ==
  /\ \/ /\ session = producer /\ consumer # None
        /\ producer' = None /\ DropReturned
        /\ status' = With(status, Range(to_producer), "free")
        /\ NewConnection(session)
        /\ UNCHANGED <<consumer, to_consumer, file_ref>>
     \/ /\ session = consumer /\ producer # None
        /\ consumer' = None /\ to_consumer' = <<>> /\ DropQueuedFiles
        /\ status' = With(status, Range(to_consumer), "free")
        /\ UNCHANGED <<producer, to_producer, fence_ref, current, loanVars>>
  /\ UNCHANGED <<need_refresh, session_pro, buffer_fd_con, file_buffer, file_fence>>

\* vt_instance_trim of an instance nobody uses any more: everything is free.
CloseLeavingNobody(session) ==
  /\ producer \in {None, session} /\ consumer \in {None, session}
  /\ producer' = None /\ consumer' = None
  /\ to_consumer' = <<>> /\ DropQueuedFiles /\ DropReturned
  /\ status' = [s \in Slots |-> "free"]
  /\ NewConnection(session)
  /\ UNCHANGED <<need_refresh, session_pro, buffer_fd_con, file_buffer, file_fence>>

\* A session of another tunnel, or of none, is closed while the tunnel is used.
CloseUnrelated(session) ==
  /\ session \notin {producer, consumer} /\ {producer, consumer} # {None}
  /\ UNCHANGED <<tunnelVars, fifoVars, slotVars, fileVars, loanVars>>

Close(session) ==
  /\ session \in Closers /\ Outside(session)
  /\ CloseLeavingPeer(session) \/ CloseLeavingNobody(session) \/ CloseUnrelated(session)
  /\ FilesOfDeadProcess(session)
  /\ UNCHANGED <<pc, picked>>

\* A consumer closes a file when it has released the buffer, or, if it may
\* abandon buffers, when it is not connected any more.
CloseFd(c, fd) ==
  LET s == view[c][fd] IN
  /\ s # None
  /\ \/ ~(status[s] = "acquire" /\ buffer_fd_con[s] = fd)
     \/ Abandon /\ consumer # c
  /\ view' = [view EXCEPT ![c][fd] = None]
  /\ UNCHANGED <<tunnelVars, fifoVars, slotVars, fileVars, pc, picked, loanVars>>
-----------------------------------------------------------------------------
ProducerCall(t) ==
  \/ QueueNoSlot(t) \/ QueuePut(t) \/ DequeueWait(t) \/ DequeueGiveUp(t) \/ Cancel(t)
  \/ \E s \in Slots : \/ QueuePick(t, s)
                      \/ DequeuePop(t, s) \/ DequeuePrevious(t, s) \/ DequeueNoFd(t, s)

ConsumerCall(t) ==
  \/ AcquireGiveUp(t) \/ Refresh(t)
  \/ \E s \in Slots : AcquireNoFd(t, s) \/ \E fd \in Fds : Acquire(t, s, fd)
  \/ \E fd \in Fds : Release(t, fd)

Connection(t) ==
  \/ ConnectProducer(t) \/ ConnectConsumer(t)
  \/ DisconnectProducer(t) \/ DisconnectConsumer(t)

Next ==
  \/ \E t \in Threads : \/ \E call \in Calls : Enter(t, call)
                        \/ ProducerCall(t) \/ ConsumerCall(t) \/ Connection(t)
  \/ \E session \in Sessions : Close(session)
  \/ \E c \in Consumers, fd \in Fds : CloseFd(c, fd)

Spec == Init /\ [][Next]_vars
-----------------------------------------------------------------------------
\* The tunnel as an exchange of buffers: the slots are the buffers.
Exchange == INSTANCE BufferExchange WITH
  Buffers <- Slots,
  present <- {role \in {"producer", "consumer"} :
                (IF role = "producer" THEN producer ELSE consumer) # None},
  outgoing <- to_consumer,
  held <- {s \in Slots : status[s] = "acquire"},
  returning <- to_producer
-----------------------------------------------------------------------------
(***************************************************************************)
(* Properties                                                              *)
(***************************************************************************)
\* The status of a slot says where it is: queued and released slots are in
\* the fifo of their direction exactly once and no other slot is in a fifo.
\* kfifo_put therefore never finds a fifo full.
StatusTellsFifo ==
  /\ IsInjective(to_consumer) /\ IsInjective(to_producer)
  /\ Range(to_consumer) = {s \in Slots : status[s] = "queue"}
  /\ Range(to_producer) = {s \in Slots : status[s] = "release"}

\* Slots, statuses and fifos together behave like an exchange of buffers:
\* in order, one place for each buffer, moved only by the sides present.
ImplementsExchange == Exchange!Spec

\* Every reference to a file is put exactly once: a slot owns its buffer's
\* file from the call that queues it to the consumer's acquisition, its
\* fence from the release to the dequeue, and a fifo holds no stale pointer.
ReferencesBalanced ==
  \A s \in Slots :
    /\ file_ref[s] <=> \/ status[s] = "queue"
                       \/ \E t \in Threads : pc[t] = "fill" /\ picked[t] = s
    /\ status[s] = "queue" => file_buffer[s]
    /\ fence_ref[s] <=> status[s] = "release" /\ file_fence[s]

\* A producer that stays connected is handed back each buffer it queued: none
\* becomes free behind its back, whatever the consumer side does, but those that
\* a dequeue call lost because it found no file descriptor for their fence.
NoBufferLost ==
  \A s \in lent \ unreported : status[s] \in {"queue", "acquire", "release"}

\* A release acts on the buffer the consumer's file came from.
Released(t, fd, s) ==
  ReleaseToNobody(t, fd, s) \/ ReleaseToProducer(t, fd, s) \/ ReleaseAndRequeue(t, fd, s)
ReleaseHitsOwnBuffer ==
  [][\A t \in Threads, fd \in Fds, s \in Slots :
       Released(t, fd, s)
         => view[SessionOf[t]][fd] = s]_vars
=============================================================================
