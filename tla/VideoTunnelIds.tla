--------------------------- MODULE VideoTunnelIds ---------------------------
(***************************************************************************)
(* drivers/media/video_processor/videotunnel/videotunnel.c: the tunnel     *)
(* instances, their reference counts and their ids.  A session allocates   *)
(* an id and passes it on; sessions connect to ids, disconnect, free ids   *)
(* and are closed.  The table of ids (dev->instance_idr) also holds dummy  *)
(* entries, left when a session connects to an id nobody allocated.        *)
(*                                                                         *)
(* A section under dev->instance_lock or instance->lock is one step; a     *)
(* reference is put after the lock is released, and an instance without    *)
(* references is destroyed in a later section of dev->instance_lock.       *)
(* What an instance carries (buffers, commands) is left out.               *)
(***************************************************************************)
EXTENDS Integers, FiniteSets

CONSTANTS
  Producers, Consumers,      \* sessions, by the role they connect in
  Instances,                 \* bound: struct vt_instance objects in memory
  MIN_VIDEO_TUNNEL_ID,       \* ids below it are hard-coded, not allocated
  MAX_VIDEO_TUNNEL_ID,
  Uses,                      \* ways in which the sessions use the tunnels
  MaxRef,                    \* bound: references an instance can gather
  Dummy, None

Sessions == Producers \cup Consumers
Ids == 0..(MAX_VIDEO_TUNNEL_ID - 1)

\* A way of using the tunnels:
\*   owners, freers  sessions that allocate ids, and free the ids they allocated
\*   closers         sessions whose process may die
\*   known           ids that a session connects to and disconnects from at any
\*                   time, allocated or not: hard-coded ones, or remembered
\*   overfull        ids are also asked for when there are none left
Use ==
  [owners : SUBSET Sessions, freers : SUBSET Sessions, closers : SUBSET Sessions,
   known : [Sessions -> SUBSET Ids], overfull : BOOLEAN]

ASSUME SessionsAssumption ==
  /\ IsFiniteSet(Sessions) /\ Producers \cap Consumers = {} /\ None \notin Sessions
  /\ None \notin Instances /\ Dummy \notin Instances /\ Dummy # None
ASSUME IdsAssumption ==
  /\ MIN_VIDEO_TUNNEL_ID \in Nat \ {0} /\ MAX_VIDEO_TUNNEL_ID \in Nat
  /\ MIN_VIDEO_TUNNEL_ID <= MAX_VIDEO_TUNNEL_ID
  /\ MaxRef \in Nat \ {0} /\ Uses \subseteq Use

VARIABLES
  instance_idr,             \* the instance, or Dummy, an id stands for
  instances,                \* dev->instances: those that exist
  ref, id, used, producer, consumer,   \* struct vt_instance
  pc, at,                   \* where a session's call is, and its instance pointer
  held,                     \* history: the ids a session allocated and has not freed
  unguarded, lost, deserted,           \* histories, see below
  use                       \* how the tunnels are used; it does not change

\* The histories of what the code lets go wrong:
\*   unguarded  instances that were given to a session without a reference: that
\*              a connection found when the last one had been put, or whose id was
\*              handed out again with no reference left for the new holder
\*   lost       references to an instance that nobody will put any more
\*   deserted   ids that everybody connected has left since they were handed out
instanceVars == <<ref, id, used, producer, consumer>>
histories == <<held, unguarded, lost, deserted>>
vars == <<instance_idr, instances, instanceVars, pc, at, histories, use>>

TypeOK ==
  /\ instance_idr \in [Ids -> Instances \cup {Dummy, None}]
  /\ instances \subseteq Instances
  /\ ref \in [Instances -> 0..MaxRef] /\ id \in [Instances -> Ids]
  /\ used \in [Instances -> BOOLEAN]
  /\ producer \in [Instances -> Producers \cup {None}]
  /\ consumer \in [Instances -> Consumers \cup {None}]
  /\ pc \in [Sessions -> {"out", "connect", "disconnect", "put", "destroy", "discard", "reuse"}]
  /\ at \in [Sessions -> Instances \cup {None}]
  /\ held \in [Sessions -> SUBSET Ids] /\ unguarded \subseteq Instances
  /\ lost \in [Instances -> Nat] /\ deserted \subseteq Ids
  /\ use \in Use

Init ==
  /\ instance_idr = [i \in Ids |-> None] /\ instances = {}
  /\ ref = [n \in Instances |-> 0] /\ id = [n \in Instances |-> 0]
  /\ used = [n \in Instances |-> FALSE]
  /\ producer = [n \in Instances |-> None] /\ consumer = [n \in Instances |-> None]
  /\ pc = [s \in Sessions |-> "out"] /\ at = [s \in Sessions |-> None]
  /\ held = [s \in Sessions |-> {}] /\ unguarded = {}
  /\ lost = [n \in Instances |-> 0] /\ deserted = {} /\ use \in Uses
-----------------------------------------------------------------------------
Goto(s, where, n) == pc' = [pc EXCEPT ![s] = where] /\ at' = [at EXCEPT ![s] = n]

ConnectedTo(s, n) == s \in {producer[n], consumer[n]}

\* A session holds the id.
Holder(i) == \E s \in Sessions : i \in held[s]

\* vt_instance_create_lock, with the id the instance is given afterwards.
\* Bound: memory that a call still points to is not allocated again.
Create(n, i) ==
  /\ n \notin instances /\ \A s \in Sessions : at[s] # n
  /\ instances' = instances \cup {n}
  /\ ref' = [ref EXCEPT ![n] = 1] /\ id' = [id EXCEPT ![n] = i]
  /\ used' = [used EXCEPT ![n] = FALSE]
  /\ producer' = [producer EXCEPT ![n] = None]
  /\ consumer' = [consumer EXCEPT ![n] = None]
  /\ lost' = [lost EXCEPT ![n] = 0]
  /\ unguarded' = IF Holder(i) THEN unguarded \cup {n} ELSE unguarded \ {n}

\* Faulty version: every id of S is given up, a dummy's or not.
WithoutAll(S) == [i \in Ids |-> IF i \in S THEN None ELSE instance_idr[i]]

\* The table when the dummies among the ids of S have left it.
WithoutDummies(S) ==
  [i \in Ids |-> IF i \in S /\ instance_idr[i] = Dummy THEN None ELSE instance_idr[i]]

\* The id idr_alloc gives is the lowest free one from MIN_VIDEO_TUNNEL_ID on.
Free(idr) == {i \in Ids : i >= MIN_VIDEO_TUNNEL_ID /\ idr[i] = None}
-----------------------------------------------------------------------------
AllocId(s, n, i) ==
  LET idr == WithoutDummies(Ids) IN
  /\ pc[s] = "out" /\ s \in use.owners
  /\ i \in Free(idr) /\ \A j \in Free(idr) : i <= j
  /\ Create(n, i)
  /\ instance_idr' = [idr EXCEPT ![i] = n]
  /\ held' = [held EXCEPT ![s] = @ \cup {i}]
  /\ deserted' = IF Holder(i) THEN deserted ELSE deserted \ {i}
  /\ UNCHANGED <<pc, at>>

\* No id is left: the new instance, whose id is still 0, is put again.
AllocFull(s, n) ==
  /\ pc[s] = "out" /\ s \in use.owners /\ use.overfull /\ Free(WithoutDummies(Ids)) = {}
  /\ Create(n, 0) /\ Goto(s, "discard", n)
  /\ instance_idr' = WithoutDummies(Ids)
  /\ UNCHANGED <<held, deserted>>

\* Faulty search: instances that were allocated but not connected yet count.
UnusedOrNew(n) ==
  producer[n] = None /\ consumer[n] = None /\ id[n] >= MIN_VIDEO_TUNNEL_ID

\* An instance that was connected and is not any more.
Unused(n) ==
  /\ producer[n] = None /\ consumer[n] = None
  /\ used[n] /\ id[n] >= MIN_VIDEO_TUNNEL_ID

\* The id is handed out again.  No reference is taken: the new holder has one
\* if somebody lost one, and else shares the one of another holder, or gets an
\* instance that is about to go.
ReuseOf(s, n) ==
  LET spare == lost[n] > 0 /\ n \notin unguarded /\ id[n] \notin held[s] IN
  /\ Unused(n)
  /\ used' = [used EXCEPT ![n] = FALSE]
  /\ held' = [held EXCEPT ![s] = @ \cup {id[n]}]
  /\ lost' = [lost EXCEPT ![n] = IF spare THEN @ - 1 ELSE @]
  /\ unguarded' = IF spare THEN unguarded ELSE unguarded \cup {n}
  /\ deserted' = IF spare /\ ~Holder(id[n]) THEN deserted \ {id[n]} ELSE deserted

\* The call ends with the id of an unused instance, or without an id.
Reuse(s) ==
  /\ pc[s] = "reuse"
  /\ \/ \E n \in instances : ReuseOf(s, n)
     \/ (\A n \in instances : ~Unused(n)) /\ UNCHANGED <<used, histories>>
  /\ Goto(s, "out", None)
  /\ UNCHANGED <<instance_idr, instances, ref, id, producer, consumer>>

\* vt_free_id looks the id up without a lock and puts the reference (the put
\* of a dummy, which has none, changes nothing).
FreeId(s, i) ==
  /\ pc[s] = "out" /\ s \in use.freers /\ i \in held[s]
  /\ held' = [held EXCEPT ![s] = @ \ {i}]
  /\ IF instance_idr[i] \in Instances THEN Goto(s, "put", instance_idr[i])
                                      ELSE UNCHANGED <<pc, at>>
  /\ UNCHANGED <<instance_idr, instances, instanceVars, unguarded, lost, deserted>>
-----------------------------------------------------------------------------
\* User space passes any id it likes: one of its own, or one it knows.
Known(s, i) == i \in held[s] \cup use.known[s]

\* Faulty version: finding an instance does not take a reference.
FoundWithoutReference(n) == UNCHANGED <<ref, unguarded>>

\* vt_instance_get.  A count that reached zero does not leave it (refcount_t
\* saturates): the instance is destroyed all the same.
Referenced(n) ==
  IF ref[n] = 0 THEN unguarded' = unguarded \cup {n} /\ UNCHANGED ref
                ELSE ref' = [ref EXCEPT ![n] = @ + 1] /\ UNCHANGED unguarded

ConnectFound(s, i) ==
  LET n == instance_idr[i] IN
  /\ pc[s] = "out" /\ Known(s, i) /\ n \in Instances /\ ref[n] < MaxRef
  /\ Referenced(n) /\ Goto(s, "connect", n)
  /\ UNCHANGED <<instance_idr, instances, id, used, producer, consumer, held, lost,
                 deserted>>

\* No instance has the id: dummies fill the table up to it, then it gets a
\* new instance.
ConnectNew(s, i, n) ==
  /\ pc[s] = "out" /\ Known(s, i) /\ instance_idr[i] \in {Dummy, None}
  /\ Create(n, i) /\ Goto(s, "connect", n)
  /\ instance_idr' =
       [j \in Ids |-> IF j = i THEN n
                      ELSE IF j < i /\ instance_idr[i] = None /\ instance_idr[j] = None
                      THEN Dummy ELSE instance_idr[j]]
  /\ UNCHANGED <<held, deserted>>

\* The second section of connect: the place is free, or already the session's,
\* which then has one reference more than it will put.
ConnectDone(s, n) ==
  /\ pc[s] = "connect" /\ n = at[s] /\ n \in instances
  /\ \/ /\ s \in Producers /\ producer[n] \in {None, s}
        /\ producer' = [producer EXCEPT ![n] = s] /\ UNCHANGED consumer
     \/ /\ s \in Consumers /\ consumer[n] \in {None, s}
        /\ consumer' = [consumer EXCEPT ![n] = s] /\ UNCHANGED producer
  /\ used' = [used EXCEPT ![n] = TRUE]
  /\ lost' = IF ConnectedTo(s, n) /\ n \notin unguarded THEN [lost EXCEPT ![n] = @ + 1] ELSE lost
  /\ Goto(s, "out", None)
  /\ UNCHANGED <<instance_idr, instances, ref, id, held, unguarded, deserted>>

\* The place is taken, or a command cannot be sent again for lack of memory.
ConnectRefused(s, n) ==
  /\ pc[s] = "connect" /\ n = at[s] /\ n \in instances
  /\ s \in Producers => producer[n] \notin {None, s}
  /\ Goto(s, "put", n)
  /\ UNCHANGED <<instance_idr, instances, instanceVars, histories>>

\* vt_disconnect looks the id up without a lock and takes no reference; the
\* instance may be one the session is not connected to.
DisconnectFound(s, i) ==
  /\ pc[s] = "out" /\ instance_idr[i] \in Instances
  /\ Known(s, i) \/ ConnectedTo(s, instance_idr[i])
  /\ Goto(s, "disconnect", instance_idr[i])
  /\ UNCHANGED <<instance_idr, instances, instanceVars, histories>>

\* The session of an instance, without session s.
Without(f, s) == [n \in Instances |-> IF f[n] = s THEN None ELSE f[n]]

\* The ids of instances that only session s is connected to.
LeftBy(s) ==
  {id[n] : n \in {k \in instances : /\ ConnectedTo(s, k)
                                    /\ {producer[k], consumer[k]} \subseteq {s, None}}}

Disconnect(s, n) ==
  /\ pc[s] = "disconnect" /\ n = at[s] /\ n \in instances /\ ConnectedTo(s, n)
  /\ producer' = [producer EXCEPT ![n] = IF @ = s THEN None ELSE @]
  /\ consumer' = [consumer EXCEPT ![n] = IF @ = s THEN None ELSE @]
  /\ deserted' = deserted \cup (LeftBy(s) \cap {id[n]})
  /\ Goto(s, "put", n)
  /\ UNCHANGED <<instance_idr, instances, ref, id, used, held, unguarded, lost>>

\* Faulty version: the error path puts a reference.
PutOnFailure(s, n) == Goto(s, "put", n)

ReturnError(s, n) == Goto(s, "out", None)

\* Nobody is in the role, or another session: an error, and nothing is put.
DisconnectFails(s, n) ==
  /\ pc[s] = "disconnect" /\ n = at[s] /\ n \in instances /\ ~ConnectedTo(s, n)
  /\ ReturnError(s, n)
  /\ UNCHANGED <<instance_idr, instances, instanceVars, histories>>
-----------------------------------------------------------------------------
\* Faulty version: a count that may pass zero.
Decremented(r) == r - 1

\* A count that reached zero does not leave it (refcount_t saturates).
Fewer(r) == IF r = 0 THEN 0 ELSE r - 1

\* vt_instance_put outside the locks: the last one destroys the instance.
Put(s, n) ==
  /\ pc[s] = "put" /\ n = at[s] /\ n \in instances
  /\ ref' = [ref EXCEPT ![n] = Fewer(@)]
  /\ IF ref[n] = 1 THEN Goto(s, "destroy", n) ELSE Goto(s, "out", None)
  /\ UNCHANGED <<instance_idr, instances, id, used, producer, consumer, histories>>

\* Faulty version: an instance that got no id takes the first one with it.
FirstIdRemoved(n) ==
  [WithoutDummies(0..(id[n] - 1)) EXCEPT
     ![IF id[n] < MIN_VIDEO_TUNNEL_ID THEN MIN_VIDEO_TUNNEL_ID ELSE id[n]] = None]

\* Whatever has the id of the instance leaves the table, and the dummies below.
IdRemoved(n) == [WithoutDummies(0..(id[n] - 1)) EXCEPT ![id[n]] = None]

\* vt_instance_destroy, of an instance without references or of a new one that
\* got no id (whose only reference is put in the same step: nobody knows it).
Destroy(s, n) ==
  /\ pc[s] \in {"destroy", "discard"} /\ n = at[s]
  /\ instances' = instances \ {n}
  /\ instance_idr' = IdRemoved(n)
  /\ ref' = [ref EXCEPT ![n] = 0] /\ id' = [id EXCEPT ![n] = 0]
  /\ used' = [used EXCEPT ![n] = FALSE] /\ lost' = [lost EXCEPT ![n] = 0]
  /\ IF pc[s] = "discard" THEN Goto(s, "reuse", None) ELSE Goto(s, "out", None)
  /\ UNCHANGED <<producer, consumer, held, unguarded, deserted>>

\* The instance was destroyed under the call: undefined.  The call may hang or
\* return; what it writes into memory that was freed is left out.
CallOnFreed(s) ==
  /\ pc[s] \in {"connect", "disconnect", "put"} /\ at[s] \notin instances
  /\ Goto(s, "out", None)
  /\ UNCHANGED <<instance_idr, instances, instanceVars, histories>>

One(condition) == IF condition THEN 1 ELSE 0

\* vt_instance_trim: a session that is closed is nowhere connected any more.
\* The references of its connections and of its ids are not put.
Close(s) ==
  /\ s \in use.closers /\ pc[s] = "out"
  /\ producer' = Without(producer, s) /\ consumer' = Without(consumer, s)
  /\ held' = [held EXCEPT ![s] = {}]
  /\ lost' = [n \in Instances |->
       IF n \notin instances \ unguarded THEN lost[n]
       ELSE lost[n] + One(ConnectedTo(s, n)) + One(id[n] \in held[s])]
  /\ deserted' = deserted \cup LeftBy(s)
  /\ UNCHANGED <<instance_idr, instances, ref, id, used, pc, at, unguarded>>
-----------------------------------------------------------------------------
Next ==
  UNCHANGED use /\ \E s \in Sessions :
    \/ Reuse(s) \/ Close(s) \/ CallOnFreed(s)
    \/ \E i \in Ids : FreeId(s, i) \/ ConnectFound(s, i) \/ DisconnectFound(s, i)
    \/ \E n \in Instances :
         \/ AllocFull(s, n) \/ ConnectDone(s, n) \/ ConnectRefused(s, n)
         \/ Disconnect(s, n) \/ DisconnectFails(s, n) \/ Put(s, n) \/ Destroy(s, n)
         \/ \E i \in Ids : AllocId(s, n, i) \/ ConnectNew(s, i, n)

Spec == Init /\ [][Next]_vars
-----------------------------------------------------------------------------
(***************************************************************************)
(* Properties                                                              *)
(***************************************************************************)
\* An instance is there, and is the one its id stands for, as long as a
\* session is connected to it or a call puts or is about to use a reference,
\* whoever frees its id, connects too late to others, disconnects from it
\* without being connected or dies.
UsedBy(s, n) == ConnectedTo(s, n) \/ (at[s] = n /\ pc[s] \in {"connect", "put"})
InstanceExists ==
  \A s \in Sessions, n \in Instances :
    UsedBy(s, n) /\ n \notin unguarded => n \in instances /\ instance_idr[id[n]] = n

\* The reference count of an instance is exact: one for each session that
\* allocated its id, one for each connection, for each call that is about to
\* connect or to put one, and those lost: by connecting again to a place one
\* has, and by dying, until the id of the dead is handed out again.  No other
\* reference is lost and none is put twice.
ReferencesCounted ==
  \A n \in instances \ unguarded :
    ref[n] = Cardinality({s \in Sessions : ConnectedTo(s, n)})
             + Cardinality({s \in Sessions : at[s] = n /\ pc[s] \in {"connect", "put", "discard"}})
             + Cardinality({s \in Sessions : id[n] \in held[s]})
             + lost[n]

\* No reference is missing: the count covers whoever uses the instance or
\* holds its id, also when sessions died without putting theirs.
ReferencesSuffice ==
  \A n \in instances \ unguarded :
    ref[n] >= Cardinality({s \in Sessions : ConnectedTo(s, n)})
              + Cardinality({s \in Sessions : id[n] \in held[s]})

\* An id that a session allocated is its own, and stands for an existing
\* instance, until the session frees it or all who were connected to it have
\* left: only then is it handed to another session, too.
OwnIds ==
  \A i \in Ids \ deserted, s \in Sessions : i \in held[s] =>
    /\ \A t \in Sessions : i \in held[t] => t = s
    /\ instance_idr[i] \in instances /\ id[instance_idr[i]] = i

\* Two instances never have the same id (one that is about to be discarded
\* has none): sessions that connect to an id meet.
OneInstancePerId ==
  \A m, n \in {k \in instances : \A s \in Sessions : ~(pc[s] = "discard" /\ at[s] = k)} :
    id[m] = id[n] => m = n
=============================================================================
