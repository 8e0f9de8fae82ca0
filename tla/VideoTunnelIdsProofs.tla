------------------------- MODULE VideoTunnelIdsProofs -------------------------
(***************************************************************************)
(* Proofs about VideoTunnelIds, for any sessions, ids and instances, and   *)
(* for all uses of the tunnels but one: where ids run out, nobody connects *)
(* to tunnel 0.  An instance that was given out with a reference exists    *)
(* while it is used, its references are counted, and ids are not shared    *)
(* before everybody has left.                                              *)
(***************************************************************************)
EXTENDS VideoTunnelIds, FiniteSetTheorems, TLAPS

\* The instance that finds no id when none is left has id 0 (videotunnel.c:860).
TunnelZeroUnused == \A u \in Uses : u.overfull => \A s \in Sessions : 0 \notin u.known[s]
-----------------------------------------------------------------------------
(***************************************************************************)
(* The inductive invariant                                                 *)
(***************************************************************************)
Discarded(n) == \E s \in Sessions : pc[s] = "discard" /\ at[s] = n

\* The table and the instances that exist, but for those without an id, are
\* one to one.
Table ==
  /\ \A i \in Ids : instance_idr[i] \in Instances =>
       /\ instance_idr[i] \in instances /\ id[instance_idr[i]] = i
       /\ use.overfull => i # 0
  /\ \A n \in instances : ~Discarded(n) => instance_idr[id[n]] = n

\* An id that is held was allocated, and stands for an instance as long as not
\* everybody has left it.
Held ==
  \A s \in Sessions : \A i \in held[s] :
    i >= MIN_VIDEO_TUNNEL_ID /\ (instance_idr[i] \in Instances \/ i \in deserted)

\* An instance that got no id is known to one call only.
Discards ==
  \A s \in Sessions :
    /\ pc[s] \in {"discard", "reuse"} => use.overfull
    /\ pc[s] = "discard" => /\ at[s] \in instances /\ ref[at[s]] = 1 /\ id[at[s]] = 0
                            /\ \A t \in Sessions :
                                 ~ConnectedTo(t, at[s]) /\ (t # s => at[t] # at[s])

\* One call destroys an instance, when no reference is left.
Destroyers ==
  \A s \in Sessions : pc[s] = "destroy" =>
    /\ at[s] \in instances /\ ref[at[s]] = 0
    /\ \A t \in Sessions : pc[t] = "destroy" /\ at[t] = at[s] => t = s

\* What is used exists, if it was given out with a reference.
Users ==
  \A s \in Sessions, n \in Instances : UsedBy(s, n) /\ n \notin unguarded => n \in instances

\* The references of an instance: its connections, the calls with a reference
\* of their own, the sessions that hold its id, and those that were lost.
Connections(n) == {s \in Sessions : ConnectedTo(s, n)}
Calls(n) == {s \in Sessions : at[s] = n /\ pc[s] \in {"connect", "put", "discard"}}
Holding(n) == {s \in Sessions : id[n] \in held[s]}
Needed(n) ==
  Cardinality(Connections(n)) + Cardinality(Calls(n)) + Cardinality(Holding(n)) + lost[n]

Counts == \A n \in instances \ unguarded : ref[n] = Needed(n)

\* Before everybody has left an id it has one holder, its instance was given
\* out with a reference, and somebody is connected if anybody was.
Deserted ==
  /\ \A s, t \in Sessions : \A i \in held[s] \cap held[t] : s = t \/ i \in deserted
  /\ \A n \in instances \cap unguarded : Holder(id[n]) => id[n] \in deserted
  /\ \A n \in instances :
       used[n] /\ producer[n] = None /\ consumer[n] = None => id[n] \in deserted

Inv ==
  /\ TypeOK /\ use \in Uses
  /\ Table /\ Held /\ Discards /\ Destroyers /\ Users /\ Counts /\ Deserted
-----------------------------------------------------------------------------
(***************************************************************************)
(* Facts about sets of sessions and about the invariant                    *)
(***************************************************************************)
LEMMA SetsOfSessions ==
  ASSUME NEW T \in SUBSET Sessions
  PROVE  /\ IsFiniteSet(T) /\ Cardinality(T) \in Nat
         /\ T # {} => Cardinality(T) >= 1
         /\ T = {} => Cardinality(T) = 0
<1>1. IsFiniteSet(T)
  BY SessionsAssumption, FS_Subset
<1> QED
  BY <1>1, FS_CardinalityType, FS_EmptySet

LEMMA OneMore ==
  ASSUME NEW T \in SUBSET Sessions, NEW s \in Sessions, s \notin T
  PROVE  Cardinality(T \cup {s}) = Cardinality(T) + 1
BY SetsOfSessions, FS_AddElement

LEMMA OneLess ==
  ASSUME NEW T \in SUBSET Sessions, NEW s \in T
  PROVE  Cardinality(T \ {s}) = Cardinality(T) - 1
BY SetsOfSessions, FS_RemoveElement

LEMMA CountsAreNumbers ==
  ASSUME NEW n
  PROVE  /\ Cardinality(Connections(n)) \in Nat /\ Cardinality(Calls(n)) \in Nat
         /\ Cardinality(Holding(n)) \in Nat
         /\ Connections(n) # {} => Cardinality(Connections(n)) >= 1
         /\ Calls(n) # {} => Cardinality(Calls(n)) >= 1
         /\ Holding(n) # {} => Cardinality(Holding(n)) >= 1
BY SetsOfSessions DEF Connections, Calls, Holding

LEMMA Constants ==
  /\ None \notin Sessions /\ None \notin Instances /\ Dummy \notin Instances /\ Dummy # None
  /\ MIN_VIDEO_TUNNEL_ID \in Nat \ {0} /\ MAX_VIDEO_TUNNEL_ID \in Nat /\ MaxRef \in Nat \ {0}
  /\ MIN_VIDEO_TUNNEL_ID <= MAX_VIDEO_TUNNEL_ID
  /\ Ids \in SUBSET Nat /\ 0 \in Ids
  /\ Producers \subseteq Sessions /\ Consumers \subseteq Sessions
  /\ Producers \cap Consumers = {}
BY SessionsAssumption, IdsAssumption DEF Sessions, Ids

\* Whoever is connected to an instance that was given out with a reference,
\* puts or is about to use a reference, or holds its id, keeps it.
LEMMA UsedIsReferenced ==
  ASSUME Inv, NEW n \in instances \ unguarded, NEW s \in Sessions,
         \/ ConnectedTo(s, n)
         \/ at[s] = n /\ pc[s] \in {"connect", "put", "discard"}
         \/ id[n] \in held[s]
  PROVE  ref[n] >= 1
<1>1. ref[n] = Needed(n) /\ lost[n] \in Nat
  BY DEF Inv, Counts, TypeOK
<1>2. Connections(n) # {} \/ Calls(n) # {} \/ Holding(n) # {}
  BY DEF Connections, Calls, Holding
<1> QED
  BY <1>1, <1>2, CountsAreNumbers DEF Needed

\* An instance that is in the table is not one that got no id.
LEMMA FoundHasId ==
  ASSUME Inv, NEW i \in Ids, instance_idr[i] \in Instances
  PROVE  /\ instance_idr[i] \in instances /\ id[instance_idr[i]] = i
         /\ \A t \in Sessions : pc[t] = "discard" => at[t] # instance_idr[i]
BY DEF Inv, Table, Discards

LEMMA InvInit == Init => Inv
<1> SUFFICES ASSUME Init PROVE Inv
  OBVIOUS
<1>1. use \in Use
  BY IdsAssumption DEF Init
<1>2. TypeOK
  BY <1>1, Constants DEF Init, TypeOK
<1>3. Table /\ Held /\ Discards /\ Destroyers /\ Users /\ Counts /\ Deserted
  BY Constants DEF Init, Table, Held, Discards, Destroyers, Users, UsedBy, Counts, Deserted,
    ConnectedTo
<1> QED
  BY <1>2, <1>3 DEF Inv, Init
-----------------------------------------------------------------------------
(***************************************************************************)
(* The steps                                                               *)
(***************************************************************************)
LEMMA Goes ==
  ASSUME TypeOK, NEW s \in Sessions, NEW where, NEW n, Goto(s, where, n)
  PROVE  \A t \in Sessions : /\ pc'[t] = IF t = s THEN where ELSE pc[t]
                             /\ at'[t] = IF t = s THEN n ELSE at[t]
BY DEF Goto, TypeOK

\* A session goes on without touching an instance, and without finding or
\* leaving a reference.
LEMMA Moves ==
  ASSUME Inv, use' = use, NEW s \in Sessions, NEW where, NEW n \in Instances \cup {None},
         Goto(s, where, n), UNCHANGED <<instance_idr, instances, instanceVars, histories>>,
         where \in {"out", "put", "disconnect"}, pc[s] \notin {"discard", "destroy"},
         where = "put" => n = at[s] /\ pc[s] = "connect",
         pc[s] \in {"connect", "put"} /\ at[s] \in instances => where = "put",
         \A t \in Sessions : pc[t] = "discard" => at[t] # n
  PROVE  Inv'
<1>1. /\ TypeOK /\ Table /\ Held /\ Discards /\ Destroyers /\ Users /\ Counts /\ Deserted
      /\ use \in Uses
  BY DEF Inv
<1>2. UNCHANGED <<instance_idr, instances, ref, id, used, producer, consumer, held, unguarded,
                  lost, deserted>>
  BY DEF instanceVars, histories
<1>3. \A t \in Sessions : /\ pc'[t] = IF t = s THEN where ELSE pc[t]
                          /\ at'[t] = IF t = s THEN n ELSE at[t]
  BY <1>1, Goes
<1>4. TypeOK'
  BY <1>1, <1>2 DEF TypeOK, Goto
<1>5. Table' /\ Held' /\ Deserted'
  <2>1. \A m : Discarded(m)' <=> Discarded(m)
    BY <1>3 DEF Discarded
  <2> QED
    BY <2>1, <1>1, <1>2 DEF Table, Held, Deserted, Holder
<1>6. Discards' /\ Destroyers'
  BY <1>1, <1>2, <1>3 DEF Discards, Destroyers, ConnectedTo
<1>7. Users'
  BY <1>1, <1>2, <1>3 DEF Users, UsedBy, ConnectedTo
<1>8. Counts'
  <2> SUFFICES ASSUME NEW m \in instances \ unguarded PROVE Needed(m)' = Needed(m)
    BY <1>1, <1>2 DEF Counts
  <2>1. Connections(m)' = Connections(m) /\ Holding(m)' = Holding(m)
    BY <1>2 DEF Connections, ConnectedTo, Holding
  <2>2. Calls(m)' = Calls(m)
    BY <1>3 DEF Calls
  <2> QED
    BY <2>1, <2>2, <1>2 DEF Needed
<1> QED
  BY <1>1, <1>4, <1>5, <1>6, <1>7, <1>8 DEF Inv

LEMMA ConnectRefusedStep ==
  ASSUME Inv, use' = use, NEW s \in Sessions, NEW n \in Instances, ConnectRefused(s, n)
  PROVE  Inv'
<1>1. \A t \in Sessions : pc[t] = "discard" => at[t] # n
  BY DEF ConnectRefused, Inv, Discards
<1> QED
  BY <1>1, Moves DEF ConnectRefused

LEMMA DisconnectFoundStep ==
  ASSUME Inv, use' = use, NEW s \in Sessions, NEW i \in Ids, DisconnectFound(s, i)
  PROVE  Inv'
<1>1. \A t \in Sessions : pc[t] = "discard" => at[t] # instance_idr[i]
  BY FoundHasId DEF DisconnectFound
<1> QED
  BY <1>1, Moves DEF DisconnectFound

LEMMA DisconnectFailsStep ==
  ASSUME Inv, use' = use, NEW s \in Sessions, NEW n \in Instances, DisconnectFails(s, n)
  PROVE  Inv'
<1>1. \A t \in Sessions : pc[t] = "discard" => at[t] # None
  BY Constants DEF Inv, Discards, TypeOK
<1> QED
  BY <1>1, Moves DEF DisconnectFails, ReturnError

LEMMA CallOnFreedStep ==
  ASSUME Inv, use' = use, NEW s \in Sessions, CallOnFreed(s)
  PROVE  Inv'
<1>1. \A t \in Sessions : pc[t] = "discard" => at[t] # None
  BY Constants DEF Inv, Discards, TypeOK
<1> QED
  BY <1>1, Moves DEF CallOnFreed

LEMMA ConnectFoundStep ==
  ASSUME Inv, use' = use, NEW s \in Sessions, NEW i \in Ids, ConnectFound(s, i)
  PROVE  Inv'
<1> DEFINE n == instance_idr[i]
<1>1. /\ TypeOK /\ Table /\ Held /\ Discards /\ Destroyers /\ Users /\ Counts /\ Deserted
      /\ use \in Uses
  BY DEF Inv
<1>2. /\ pc[s] = "out" /\ n \in Instances /\ ref[n] < MaxRef
      /\ UNCHANGED <<instance_idr, instances, id, used, producer, consumer, held, lost, deserted>>
  BY DEF ConnectFound
<1>3. \A t \in Sessions : /\ pc'[t] = IF t = s THEN "connect" ELSE pc[t]
                          /\ at'[t] = IF t = s THEN n ELSE at[t]
  BY <1>1, Goes DEF ConnectFound
<1>4. n \in instances /\ id[n] = i /\ \A t \in Sessions : pc[t] = "discard" => at[t] # n
  BY <1>2, FoundHasId
<1>5. \/ ref[n] = 0 /\ unguarded' = unguarded \cup {n} /\ ref' = ref
      \/ ref[n] # 0 /\ unguarded' = unguarded /\ ref' = [ref EXCEPT ![n] = @ + 1]
  BY DEF ConnectFound, Referenced
<1>6. \A t \in Sessions : pc[t] = "destroy" /\ at[t] = n => ref[n] = 0
  BY <1>1 DEF Destroyers
<1> HIDE DEF n
<1>7. TypeOK'
  <2>1. ref' \in [Instances -> 0..MaxRef]
    BY <1>1, <1>2, <1>5, Constants DEF TypeOK
  <2> QED
    BY <2>1, <1>1, <1>2, <1>5 DEF TypeOK, ConnectFound, Goto, n
<1>8. Table' /\ Held'
  <2>1. \A m : Discarded(m)' <=> Discarded(m)
    BY <1>2, <1>3 DEF Discarded
  <2> QED
    BY <2>1, <1>1, <1>2 DEF Table, Held
<1>9. Discards' /\ Destroyers'
  <2>1. \A m \in Instances : ref'[m] = ref[m] \/ (m = n /\ ref[n] # 0)
    BY <1>1, <1>5 DEF TypeOK
  <2>2. \A t \in Sessions : pc[t] \in {"destroy", "discard"} => at[t] \in Instances
    BY <1>1 DEF Discards, Destroyers, TypeOK
  <2> QED
    BY <2>1, <2>2, <1>1, <1>2, <1>3, <1>4, <1>6 DEF Discards, Destroyers, ConnectedTo
<1>10. Users'
  BY <1>1, <1>2, <1>3, <1>4, <1>5 DEF Users, UsedBy, ConnectedTo
<1>11. Deserted'
  <2>1. ref[n] = 0 /\ n \notin unguarded => ~Holder(id[n])
    BY <1>4, UsedIsReferenced DEF Holder
  <2> QED
    BY <2>1, <1>1, <1>2, <1>5 DEF Deserted, Holder
<1>12. Counts'
  <2> SUFFICES ASSUME NEW m \in instances \ unguarded' PROVE ref'[m] = Needed(m)'
    BY <1>2 DEF Counts
  <2>1. m \in Instances /\ m \in instances \ unguarded /\ ref[m] = Needed(m) /\ ref[m] \in Nat
    BY <1>1, <1>5, Constants DEF Counts, TypeOK
  <2>2. Connections(m)' = Connections(m) /\ Holding(m)' = Holding(m)
    BY <1>2 DEF Connections, ConnectedTo, Holding
  <2>3. CASE m = n
    <3>1. s \notin Calls(m) /\ Calls(m)' = Calls(m) \cup {s} /\ ref'[m] = ref[m] + 1
      BY <2>1, <2>3, <1>1, <1>2, <1>3, <1>5 DEF Calls, TypeOK
    <3>2. Cardinality(Calls(m)') = Cardinality(Calls(m)) + 1
      BY <3>1, OneMore DEF Calls
    <3> QED
      BY <3>1, <3>2, <2>1, <2>2, <1>1, <1>2, CountsAreNumbers DEF Needed, TypeOK
  <2>4. CASE m # n
    <3>1. Calls(m)' = Calls(m) /\ ref'[m] = ref[m]
      BY <2>1, <2>4, <1>1, <1>2, <1>3, <1>5 DEF Calls, TypeOK
    <3> QED
      BY <3>1, <2>1, <2>2, <1>2 DEF Needed
  <2> QED
    BY <2>3, <2>4
<1> QED
  BY <1>1, <1>7, <1>8, <1>9, <1>10, <1>11, <1>12 DEF Inv

LEMMA ConnectDoneStep ==
  ASSUME Inv, use' = use, NEW s \in Sessions, NEW n \in Instances, ConnectDone(s, n)
  PROVE  Inv'
<1>1. /\ TypeOK /\ Table /\ Held /\ Discards /\ Destroyers /\ Users /\ Counts /\ Deserted
      /\ use \in Uses
  BY DEF Inv
<1>2. /\ pc[s] = "connect" /\ at[s] = n /\ n \in instances /\ used' = [used EXCEPT ![n] = TRUE]
      /\ lost' = IF ConnectedTo(s, n) /\ n \notin unguarded THEN [lost EXCEPT ![n] = @ + 1]
                 ELSE lost
      /\ UNCHANGED <<instance_idr, instances, ref, id, held, unguarded, deserted>>
  BY DEF ConnectDone
<1>3. \A t \in Sessions : /\ pc'[t] = IF t = s THEN "out" ELSE pc[t]
                          /\ at'[t] = IF t = s THEN None ELSE at[t]
  BY <1>1, Goes DEF ConnectDone
<1>4. \A t \in Sessions : pc[t] = "discard" => at[t] # n
  BY <1>1, <1>2 DEF Discards
<1>5. \A t \in Sessions, m \in Instances :
        ConnectedTo(t, m)' <=> ConnectedTo(t, m) \/ (t = s /\ m = n)
  BY <1>1, Constants DEF ConnectDone, ConnectedTo, TypeOK
<1>6. /\ \A m \in Instances : m # n => producer'[m] = producer[m] /\ consumer'[m] = consumer[m]
      /\ producer'[n] # None \/ consumer'[n] # None
      /\ \A m \in Instances : used'[m] = IF m = n THEN TRUE ELSE used[m]
  BY <1>1, Constants DEF ConnectDone, TypeOK
<1>7. TypeOK'
  BY <1>1 DEF TypeOK, ConnectDone, Goto
<1>8. Table' /\ Held'
  <2>1. \A m : Discarded(m)' <=> Discarded(m)
    BY <1>2, <1>3 DEF Discarded
  <2> QED
    BY <2>1, <1>1, <1>2 DEF Table, Held
<1>9. Discards' /\ Destroyers'
  <2>1. \A t \in Sessions : pc[t] = "discard" => at[t] \in Instances /\ at[t] # None
    BY <1>1, Constants DEF Discards, TypeOK
  <2> QED
    BY <2>1, <1>1, <1>2, <1>3, <1>4, <1>5 DEF Discards, Destroyers
<1>10. Users'
  BY <1>1, <1>2, <1>3, <1>5 DEF Users, UsedBy
<1>11. Deserted'
  <2>1. \A m \in instances : m \in Instances
    BY <1>1 DEF TypeOK
  <2> QED
    BY <2>1, <1>1, <1>2, <1>6 DEF Deserted, Holder
<1>12. Counts'
  <2> SUFFICES ASSUME NEW m \in instances \ unguarded PROVE Needed(m)' = Needed(m)
    BY <1>1, <1>2 DEF Counts
  <2>1. /\ m \in Instances /\ Holding(m)' = Holding(m) /\ lost[m] \in Nat
        /\ lost'[m] = IF m = n /\ ConnectedTo(s, m) THEN lost[m] + 1 ELSE lost[m]
    BY <1>1, <1>2 DEF TypeOK, Holding
  <2>2. CASE m = n
    <3>1. s \in Calls(m) /\ Calls(m)' = Calls(m) \ {s}
      BY <2>1, <2>2, <1>2, <1>3 DEF Calls
    <3>2. Cardinality(Calls(m)') = Cardinality(Calls(m)) - 1
      BY <3>1, OneLess DEF Calls
    <3>3. CASE ConnectedTo(s, m)
      <4>1. Connections(m)' = Connections(m)
        BY <2>1, <2>2, <3>3, <1>5 DEF Connections
      <4> QED
        BY <4>1, <3>2, <3>3, <2>1, <2>2, CountsAreNumbers DEF Needed
    <3>4. CASE ~ConnectedTo(s, m)
      <4>1. s \notin Connections(m) /\ Connections(m)' = Connections(m) \cup {s}
        BY <2>1, <2>2, <3>4, <1>5 DEF Connections
      <4>2. Cardinality(Connections(m)') = Cardinality(Connections(m)) + 1
        BY <4>1, OneMore DEF Connections
      <4> QED
        BY <4>2, <3>2, <3>4, <2>1, CountsAreNumbers DEF Needed
    <3> QED
      BY <3>3, <3>4
  <2>3. CASE m # n
    <3>1. Connections(m)' = Connections(m) /\ Calls(m)' = Calls(m)
      BY <2>1, <2>3, <1>2, <1>3, <1>5, Constants DEF Connections, Calls
    <3> QED
      BY <3>1, <2>1, <2>3 DEF Needed
  <2> QED
    BY <2>2, <2>3
<1> QED
  BY <1>1, <1>7, <1>8, <1>9, <1>10, <1>11, <1>12 DEF Inv

LEMMA DisconnectStep ==
  ASSUME Inv, use' = use, NEW s \in Sessions, NEW n \in Instances, Disconnect(s, n)
  PROVE  Inv'
<1>1. /\ TypeOK /\ Table /\ Held /\ Discards /\ Destroyers /\ Users /\ Counts /\ Deserted
      /\ use \in Uses
  BY DEF Inv
<1>2. /\ pc[s] = "disconnect" /\ at[s] = n /\ n \in instances /\ ConnectedTo(s, n)
      /\ deserted' = deserted \cup (LeftBy(s) \cap {id[n]})
      /\ UNCHANGED <<instance_idr, instances, ref, id, used, held, unguarded, lost>>
  BY DEF Disconnect
<1>3. \A t \in Sessions : /\ pc'[t] = IF t = s THEN "put" ELSE pc[t]
                          /\ at'[t] = at[t]
  BY <1>1, <1>2, Goes DEF Disconnect
<1>4. \A t \in Sessions, m \in Instances :
        ConnectedTo(t, m)' <=> ConnectedTo(t, m) /\ ~(t = s /\ m = n)
  BY <1>1, Constants DEF Disconnect, ConnectedTo, TypeOK
<1>5. \A m \in Instances :
        /\ m # n => producer'[m] = producer[m] /\ consumer'[m] = consumer[m]
        /\ producer'[n] = None /\ consumer'[n] = None => {producer[n], consumer[n]} \subseteq {s, None}
  BY <1>1 DEF Disconnect, TypeOK
<1>6. \A t \in Sessions : pc[t] = "discard" => at[t] # n
  BY <1>1, <1>2 DEF Discards
<1>7. TypeOK'
  <2>1. id[n] \in Ids
    BY <1>1 DEF TypeOK
  <2> QED
    BY <2>1, <1>1 DEF TypeOK, Disconnect, Goto
<1>8. Table' /\ Held'
  <2>1. \A m : Discarded(m)' <=> Discarded(m)
    BY <1>2, <1>3 DEF Discarded
  <2> QED
    BY <2>1, <1>1, <1>2 DEF Table, Held
<1>9. Discards' /\ Destroyers'
  <2>1. \A t \in Sessions : pc[t] = "discard" => at[t] \in Instances
    BY <1>1 DEF Discards, TypeOK
  <2> QED
    BY <2>1, <1>1, <1>2, <1>3, <1>4 DEF Discards, Destroyers
<1>10. Users'
  BY <1>1, <1>2, <1>3, <1>4 DEF Users, UsedBy
<1>11. Deserted'
  <2>1. ASSUME NEW m \in instances, used'[m], producer'[m] = None, consumer'[m] = None
        PROVE  id'[m] \in deserted'
    <3>1. m \in Instances
      BY <1>1 DEF TypeOK
    <3>2. CASE m = n
      <4>1. id[n] \in LeftBy(s)
        BY <3>2, <2>1, <1>2, <1>5 DEF LeftBy
      <4> QED
        BY <4>1, <3>2, <1>2
    <3>3. CASE m # n
      BY <3>1, <3>3, <2>1, <1>1, <1>2, <1>5 DEF Deserted
    <3> QED
      BY <3>2, <3>3
  <2> QED
    BY <2>1, <1>1, <1>2 DEF Deserted, Holder
<1>12. Counts'
  <2> SUFFICES ASSUME NEW m \in instances \ unguarded PROVE Needed(m)' = Needed(m)
    BY <1>1, <1>2 DEF Counts
  <2>1. m \in Instances /\ Holding(m)' = Holding(m) /\ lost[m] \in Nat
    BY <1>1, <1>2 DEF TypeOK, Holding
  <2>2. CASE m = n
    <3>1. /\ s \in Connections(m) /\ Connections(m)' = Connections(m) \ {s}
          /\ s \notin Calls(m) /\ Calls(m)' = Calls(m) \cup {s}
      BY <2>1, <2>2, <1>2, <1>3, <1>4 DEF Connections, Calls
    <3>2. /\ Cardinality(Connections(m)') = Cardinality(Connections(m)) - 1
          /\ Cardinality(Calls(m)') = Cardinality(Calls(m)) + 1
      BY <3>1, OneMore, OneLess DEF Connections, Calls
    <3> QED
      BY <3>2, <2>1, <1>2, CountsAreNumbers DEF Needed
  <2>3. CASE m # n
    <3>1. Connections(m)' = Connections(m) /\ Calls(m)' = Calls(m)
      BY <2>1, <2>3, <1>2, <1>3, <1>4 DEF Connections, Calls
    <3> QED
      BY <3>1, <2>1, <1>2 DEF Needed
  <2> QED
    BY <2>2, <2>3
<1> QED
  BY <1>1, <1>7, <1>8, <1>9, <1>10, <1>11, <1>12 DEF Inv

LEMMA PutStep ==
  ASSUME Inv, use' = use, NEW s \in Sessions, NEW n \in Instances, Put(s, n)
  PROVE  Inv'
<1>1. /\ TypeOK /\ Table /\ Held /\ Discards /\ Destroyers /\ Users /\ Counts /\ Deserted
      /\ use \in Uses
  BY DEF Inv
<1>2. /\ pc[s] = "put" /\ at[s] = n /\ n \in instances
      /\ UNCHANGED <<instance_idr, instances, id, used, producer, consumer, held, unguarded,
                     lost, deserted>>
  BY DEF Put, histories
<1>3. \A t \in Sessions : /\ t # s => pc'[t] = pc[t] /\ at'[t] = at[t]
                          /\ t = s => \/ pc'[t] = "destroy" /\ at'[t] = n /\ ref[n] = 1
                                      \/ pc'[t] = "out" /\ at'[t] = None /\ ref[n] # 1
  BY <1>1, Goes DEF Put
<1>4. ref[n] \in 0..MaxRef /\ \A m \in Instances :
        ref'[m] = IF m = n /\ ref[n] # 0 THEN ref[n] - 1 ELSE ref[m]
  BY <1>1, Constants DEF Put, Fewer, TypeOK
<1>5. \A t \in Sessions :
        /\ pc[t] = "discard" => at[t] \in Instances /\ at[t] # n
        /\ pc[t] = "destroy" => at[t] \in Instances /\ (at[t] = n => ref[n] = 0)
  BY <1>1, <1>2 DEF Discards, Destroyers, TypeOK
<1>6. TypeOK'
  <2>1. ref' \in [Instances -> 0..MaxRef]
    BY <1>1, <1>4, Constants DEF TypeOK, Put, Fewer
  <2>2. at' \in [Sessions -> Instances \cup {None}]
    BY <1>1, <1>2 DEF TypeOK, Put, Goto
  <2>3. pc' \in [Sessions -> {"out", "connect", "disconnect", "put", "destroy", "discard", "reuse"}]
    BY <1>1, <1>2 DEF TypeOK, Put, Goto
  <2> QED
    BY <2>1, <2>2, <2>3, <1>1, <1>2 DEF TypeOK
<1>7. Table' /\ Held' /\ Deserted'
  <2>1. \A m : Discarded(m)' <=> Discarded(m)
    BY <1>2, <1>3 DEF Discarded
  <2> QED
    BY <2>1, <1>1, <1>2 DEF Table, Held, Deserted, Holder
<1>8. Discards'
  <2>1. \A t \in Sessions : pc'[t] \in {"discard", "reuse"} =>
          t # s /\ pc[t] = pc'[t] /\ at'[t] = at[t]
    BY <1>3
  <2>2. \A t \in Sessions : pc[t] = "discard" => ref'[at[t]] = ref[at[t]]
    BY <1>4, <1>5
  <2>3. \A t \in Sessions : at'[t] \in {at[t], None}
    BY <1>2, <1>3
  <2>4. \A t \in Sessions : pc[t] = "discard" => at[t] # None
    BY <1>5, Constants
  <2> QED
    BY <2>1, <2>2, <2>3, <2>4, <1>1, <1>2 DEF Discards, ConnectedTo
<1>9. Destroyers'
  BY <1>1, <1>2, <1>3, <1>4, <1>5 DEF Destroyers
<1>10. Users'
  BY <1>1, <1>2, <1>3 DEF Users, UsedBy, ConnectedTo
<1>11. Counts'
  <2> SUFFICES ASSUME NEW m \in instances \ unguarded PROVE ref'[m] = Needed(m)'
    BY <1>2 DEF Counts
  <2>1. m \in Instances /\ ref[m] = Needed(m) /\ lost[m] \in Nat
    BY <1>1 DEF Counts, TypeOK
  <2>2. Connections(m)' = Connections(m) /\ Holding(m)' = Holding(m)
    BY <1>2 DEF Connections, ConnectedTo, Holding
  <2>3. CASE m = n
    <3>1. s \in Calls(m) /\ Calls(m)' = Calls(m) \ {s}
      BY <2>3, <1>2, <1>3 DEF Calls
    <3>2. Cardinality(Calls(m)') = Cardinality(Calls(m)) - 1
      BY <3>1, OneLess DEF Calls
    <3>3. ref[n] # 0
      BY <3>1, <2>1, <2>3, CountsAreNumbers DEF Needed
    <3> QED
      BY <3>2, <3>3, <2>1, <2>2, <2>3, <1>2, <1>4, CountsAreNumbers DEF Needed
  <2>4. CASE m # n
    <3>1. Calls(m)' = Calls(m)
      BY <2>4, <1>2, <1>3 DEF Calls
    <3> QED
      BY <3>1, <2>1, <2>2, <2>4, <1>2, <1>4 DEF Needed
  <2> QED
    BY <2>3, <2>4
<1> QED
  BY <1>1, <1>6, <1>7, <1>8, <1>9, <1>10, <1>11 DEF Inv

LEMMA DestroyStep ==
  ASSUME Inv, use' = use, NEW s \in Sessions, NEW n \in Instances, Destroy(s, n)
  PROVE  Inv'
<1>1. /\ TypeOK /\ Table /\ Held /\ Discards /\ Destroyers /\ Users /\ Counts /\ Deserted
      /\ use \in Uses
  BY DEF Inv
<1>2. /\ pc[s] \in {"destroy", "discard"} /\ at[s] = n /\ instances' = instances \ {n}
      /\ instance_idr' = IdRemoved(n)
      /\ UNCHANGED <<producer, consumer, held, unguarded, deserted>>
  BY DEF Destroy
<1>3. \A t \in Sessions : /\ t # s => pc'[t] = pc[t] /\ at'[t] = at[t]
                          /\ t = s => pc'[t] \in {"out", "reuse"} /\ at'[t] = None
                          /\ t = s /\ pc[s] # "discard" => pc'[t] = "out"
  BY <1>1, Goes DEF Destroy
<1>4. \A m \in Instances : m # n =>
        ref'[m] = ref[m] /\ id'[m] = id[m] /\ used'[m] = used[m] /\ lost'[m] = lost[m]
  BY <1>1 DEF Destroy, TypeOK
<1>5. n \in instances /\ \A t \in Sessions \ {s} :
        /\ pc[t] \in {"discard", "destroy"} => at[t] # n
        /\ pc[s] = "discard" => at[t] # n
  BY <1>1, <1>2 DEF Discards, Destroyers
<1>6. \A m \in instances : Discarded(m) => id[m] = 0
  BY <1>1 DEF Discards, Discarded
<1>7. \A m \in instances : id[m] = id[n] /\ m # n => Discarded(m)
  <2>1. CASE pc[s] = "discard"
    BY <2>1, <1>1, <1>2, <1>5, Constants DEF Table, Discards, TypeOK
  <2>2. CASE pc[s] = "destroy"
    BY <2>2, <1>1, <1>2, <1>5 DEF Table, Discarded
  <2> QED
    BY <2>1, <2>2, <1>2
<1>8. \A i \in Ids :
        /\ instance_idr'[i] \in Instances =>
             instance_idr'[i] = instance_idr[i] /\ i # id[n] /\ instance_idr[i] # n
        /\ instance_idr[i] \in Instances /\ i # id[n] => instance_idr'[i] = instance_idr[i]
  <2>1. id[n] \in Ids
    BY <1>1 DEF TypeOK
  <2>2. \A i \in Ids : instance_idr'[i] =
          IF i = id[n] \/ (i \in 0..(id[n] - 1) /\ instance_idr[i] = Dummy) THEN None
          ELSE instance_idr[i]
    BY <2>1, <1>2 DEF IdRemoved, WithoutDummies
  <2> QED
    BY <2>2, <1>1, Constants DEF Table
<1>9. n \notin unguarded => \A t \in Sessions :
        /\ ~ConnectedTo(t, n)
        /\ ~(t # s /\ at[t] = n /\ pc[t] \in {"connect", "put"})
        /\ id[n] \notin held[t]
  <2>1. CASE pc[s] = "destroy"
    BY <2>1, <1>1, <1>2, <1>5, UsedIsReferenced DEF Destroyers
  <2>2. CASE pc[s] = "discard"
    BY <2>2, <1>1, <1>2, Constants DEF Discards, Held
  <2> QED
    BY <2>1, <2>2, <1>2
<1>10. TypeOK'
  <2>1. id[n] \in Ids /\ 0 \in 0..MaxRef
    BY <1>1, Constants DEF TypeOK
  <2>2. instance_idr' \in [Ids -> Instances \cup {Dummy, None}]
    BY <2>1, <1>1, <1>2 DEF TypeOK, IdRemoved, WithoutDummies
  <2> QED
    BY <2>1, <2>2, <1>1, <1>2, Constants DEF TypeOK, Destroy, Goto
<1>11. Table'
  <2>1. \A m : m # n => (Discarded(m)' <=> Discarded(m))
    BY <1>2, <1>3, <1>5, Constants DEF Discarded
  <2>2. \A m \in instances' : m # n /\ m \in Instances /\ m \in instances
    BY <1>1, <1>2 DEF TypeOK
  <2>3. ASSUME NEW i \in Ids, instance_idr'[i] \in Instances
        PROVE  /\ instance_idr'[i] \in instances' /\ id'[instance_idr'[i]] = i
               /\ use'.overfull => i # 0
    BY <2>3, <1>1, <1>2, <1>4, <1>8 DEF Table
  <2>4. ASSUME NEW m \in instances', ~Discarded(m)' PROVE instance_idr'[id'[m]] = m
    <3>1. id[m] \in Ids /\ id[m] # id[n] /\ instance_idr[id[m]] = m /\ id'[m] = id[m]
      BY <2>1, <2>2, <2>4, <1>1, <1>4, <1>7 DEF Table, TypeOK
    <3> QED
      BY <3>1, <2>2, <1>8
  <2> QED
    BY <2>3, <2>4 DEF Table
<1>12. Held'
  <2>1. \A t \in Sessions : id[n] \in held[t] => id[n] \in deserted
    BY <1>1, <1>5, <1>9 DEF Deserted, Holder
  <2>2. \A t \in Sessions : held[t] \subseteq Ids
    BY <1>1 DEF TypeOK
  <2> QED
    BY <2>1, <2>2, <1>1, <1>2, <1>8 DEF Held
<1>13. Discards' /\ Destroyers'
  <2>1. \A t \in Sessions : pc'[t] \in {"discard", "destroy"} =>
          t # s /\ pc[t] = pc'[t] /\ at'[t] = at[t] /\ at[t] # n /\ at[t] \in Instances
    BY <1>1, <1>3, <1>5 DEF Discards, Destroyers, TypeOK
  <2>2. \A t \in Sessions : at'[t] = at[t] \/ at'[t] = None
    BY <1>3
  <2>3. \A t \in Sessions : pc'[t] = "reuse" => pc[t] = "reuse" \/ pc[s] = "discard"
    BY <1>3
  <2>4. \A t, u \in Sessions : pc'[t] = "discard" /\ u # t => at'[u] # at'[t]
    BY <2>1, <2>2, <1>1, Constants DEF Discards
  <2>5. Discards'
    BY <2>1, <2>3, <2>4, <1>1, <1>2, <1>4 DEF Discards, ConnectedTo
  <2>6. Destroyers'
    BY <2>1, <1>1, <1>2, <1>4 DEF Destroyers
  <2> QED
    BY <2>5, <2>6
<1>14. Users'
  <2> SUFFICES ASSUME NEW t \in Sessions, NEW m \in Instances, UsedBy(t, m)', m \notin unguarded
               PROVE  m \in instances'
    BY <1>2 DEF Users
  <2>1. UsedBy(t, m) /\ (t = s => ConnectedTo(t, m))
    BY <1>2, <1>3 DEF UsedBy, ConnectedTo
  <2> QED
    BY <2>1, <1>1, <1>2, <1>9 DEF Users, UsedBy
<1>15. Counts'
  <2> SUFFICES ASSUME NEW m \in instances' \ unguarded PROVE ref'[m] = Needed(m)'
    BY <1>2 DEF Counts
  <2>1. m \in Instances /\ m # n /\ m \in instances \ unguarded /\ ref[m] = Needed(m)
    BY <1>1, <1>2 DEF Counts, TypeOK
  <2>2. Connections(m)' = Connections(m) /\ Holding(m)' = Holding(m)
    BY <2>1, <1>2, <1>4 DEF Connections, ConnectedTo, Holding
  <2>3. Calls(m)' = Calls(m)
    BY <2>1, <1>2, <1>3, Constants DEF Calls
  <2> QED
    BY <2>1, <2>2, <2>3, <1>4 DEF Needed
<1>16. Deserted'
  <2>1. \A m \in instances' : m # n /\ m \in Instances /\ m \in instances
    BY <1>1, <1>2 DEF TypeOK
  <2> QED
    BY <2>1, <1>1, <1>2, <1>4 DEF Deserted, Holder
<1> QED
  BY <1>1, <1>10, <1>11, <1>12, <1>13, <1>14, <1>15, <1>16 DEF Inv

LEMMA CloseStep ==
  ASSUME Inv, use' = use, NEW s \in Sessions, Close(s)
  PROVE  Inv'
<1>1. /\ TypeOK /\ Table /\ Held /\ Discards /\ Destroyers /\ Users /\ Counts /\ Deserted
      /\ use \in Uses
  BY DEF Inv
<1>2. /\ pc[s] = "out" /\ deserted' = deserted \cup LeftBy(s)
      /\ UNCHANGED <<instance_idr, instances, ref, id, used, pc, at, unguarded>>
  BY DEF Close
<1>3. \A t \in Sessions, m \in Instances : ConnectedTo(t, m)' <=> ConnectedTo(t, m) /\ t # s
  BY <1>1, Constants DEF Close, Without, ConnectedTo, TypeOK
<1>4. \A t \in Sessions : held'[t] = IF t = s THEN {} ELSE held[t]
  BY <1>1 DEF Close, TypeOK
<1>5. \A m \in Instances : producer'[m] = None /\ consumer'[m] = None =>
        {producer[m], consumer[m]} \subseteq {s, None}
  BY DEF Close, Without
<1>6. \A m \in Instances : lost'[m] =
        IF m \notin instances \ unguarded THEN lost[m]
        ELSE lost[m] + One(ConnectedTo(s, m)) + One(id[m] \in held[s])
  BY DEF Close
<1>7. TypeOK'
  <2>1. LeftBy(s) \subseteq Ids
    BY <1>1 DEF LeftBy, TypeOK
  <2>2. lost' \in [Instances -> Nat]
    BY <1>1 DEF Close, TypeOK, One
  <2>3. /\ producer' \in [Instances -> Producers \cup {None}]
        /\ consumer' \in [Instances -> Consumers \cup {None}]
        /\ held' \in [Sessions -> SUBSET Ids]
    BY <1>1 DEF Close, Without, TypeOK
  <2> QED
    BY <2>1, <2>2, <2>3, <1>1, <1>2 DEF TypeOK
<1>8. Table' /\ Held'
  <2>1. \A m : Discarded(m)' <=> Discarded(m)
    BY <1>2 DEF Discarded
  <2> QED
    BY <2>1, <1>1, <1>2, <1>4 DEF Table, Held
<1>9. Discards' /\ Destroyers'
  <2>1. \A t \in Sessions : pc[t] = "discard" => at[t] \in Instances
    BY <1>1 DEF Discards, TypeOK
  <2> QED
    BY <2>1, <1>1, <1>2, <1>3 DEF Discards, Destroyers
<1>10. Users'
  BY <1>1, <1>2, <1>3 DEF Users, UsedBy
<1>11. Deserted'
  <2>1. ASSUME NEW m \in instances, used[m], producer'[m] = None, consumer'[m] = None
        PROVE  id[m] \in deserted'
    <3>1. m \in Instances /\ {producer[m], consumer[m]} \subseteq {s, None}
      BY <2>1, <1>1, <1>5 DEF TypeOK
    <3>2. CASE ConnectedTo(s, m)
      BY <3>1, <3>2, <1>2 DEF LeftBy
    <3>3. CASE ~ConnectedTo(s, m)
      BY <3>1, <3>3, <2>1, <1>1, <1>2 DEF Deserted, ConnectedTo
    <3> QED
      BY <3>2, <3>3
  <2>2. \A m \in instances \cap unguarded : Holder(id[m])' => id[m] \in deserted
    BY <1>1, <1>2, <1>4 DEF Deserted, Holder
  <2>3. \A t, u \in Sessions : \A i \in held'[t] \cap held'[u] : t = u \/ i \in deserted
    BY <1>1, <1>4 DEF Deserted
  <2> QED
    BY <2>1, <2>2, <2>3, <1>2 DEF Deserted, Holder
<1>12. Counts'
  <2> SUFFICES ASSUME NEW m \in instances \ unguarded PROVE Needed(m)' = Needed(m)
    BY <1>1, <1>2 DEF Counts
  <2>1. m \in Instances /\ lost[m] \in Nat /\ Calls(m)' = Calls(m)
        /\ lost'[m] = lost[m] + One(ConnectedTo(s, m)) + One(id[m] \in held[s])
    BY <1>1, <1>2, <1>6 DEF TypeOK, Calls
  <2>2. Cardinality(Connections(m)') = Cardinality(Connections(m)) - One(ConnectedTo(s, m))
    <3>1. Connections(m)' = Connections(m) \ {s}
      BY <2>1, <1>3 DEF Connections
    <3>2. CASE ConnectedTo(s, m)
      <4>1. s \in Connections(m)
        BY <3>2 DEF Connections
      <4> QED
        BY <4>1, <3>1, <3>2, OneLess DEF Connections, One
    <3>3. CASE ~ConnectedTo(s, m)
      <4>1. Connections(m)' = Connections(m)
        BY <3>1, <3>3 DEF Connections
      <4> QED
        BY <4>1, <3>3, CountsAreNumbers DEF One
    <3> QED
      BY <3>2, <3>3
  <2>3. Cardinality(Holding(m)') = Cardinality(Holding(m)) - One(id[m] \in held[s])
    <3>1. Holding(m)' = Holding(m) \ {s}
      BY <1>2, <1>4 DEF Holding
    <3>2. CASE id[m] \in held[s]
      <4>1. s \in Holding(m)
        BY <3>2 DEF Holding
      <4> QED
        BY <4>1, <3>1, <3>2, OneLess DEF Holding, One
    <3>3. CASE id[m] \notin held[s]
      <4>1. Holding(m)' = Holding(m)
        BY <3>1, <3>3 DEF Holding
      <4> QED
        BY <4>1, <3>3, CountsAreNumbers DEF One
    <3> QED
      BY <3>2, <3>3
  <2> QED
    BY <2>1, <2>2, <2>3, CountsAreNumbers DEF Needed, One
<1> QED
  BY <1>1, <1>7, <1>8, <1>9, <1>10, <1>11, <1>12 DEF Inv

LEMMA FreeIdStep ==
  ASSUME Inv, use' = use, NEW s \in Sessions, NEW i \in Ids, FreeId(s, i)
  PROVE  Inv'
<1>1. /\ TypeOK /\ Table /\ Held /\ Discards /\ Destroyers /\ Users /\ Counts /\ Deserted
      /\ use \in Uses
  BY DEF Inv
<1>2. /\ pc[s] = "out" /\ i \in held[s]
      /\ UNCHANGED <<instance_idr, instances, ref, id, used, producer, consumer, unguarded, lost,
                     deserted>>
  BY DEF FreeId, instanceVars
<1>3. \A t \in Sessions : held'[t] = IF t = s THEN held[t] \ {i} ELSE held[t]
  BY <1>1 DEF FreeId, TypeOK
<1>4. \A t \in Sessions :
        /\ t # s \/ instance_idr[i] \notin Instances => pc'[t] = pc[t] /\ at'[t] = at[t]
        /\ t = s /\ instance_idr[i] \in Instances => pc'[t] = "put" /\ at'[t] = instance_idr[i]
  BY <1>1, Goes DEF FreeId
<1>5. \A m \in instances : id[m] = i => m = instance_idr[i]
  <2>1. i >= MIN_VIDEO_TUNNEL_ID /\ i # 0
    BY <1>1, <1>2, Constants DEF Held
  <2> QED
    BY <2>1, <1>1 DEF Table, Discards, Discarded
<1>6. instance_idr[i] \in Instances =>
        /\ instance_idr[i] \in instances /\ id[instance_idr[i]] = i
        /\ \A t \in Sessions : pc[t] = "discard" => at[t] # instance_idr[i]
  BY FoundHasId
<1>7. TypeOK'
  <2>1. pc' \in [Sessions -> {"out", "connect", "disconnect", "put", "destroy", "discard", "reuse"}]
        /\ at' \in [Sessions -> Instances \cup {None}]
    BY <1>1, <1>2 DEF TypeOK, FreeId, Goto
  <2>2. held' \in [Sessions -> SUBSET Ids]
    BY <1>1, <1>2 DEF TypeOK, FreeId
  <2> QED
    BY <2>1, <2>2, <1>1, <1>2 DEF TypeOK
<1>8. Table' /\ Held' /\ Deserted'
  <2>1. \A m : Discarded(m)' <=> Discarded(m)
    BY <1>2, <1>4 DEF Discarded
  <2>2. Table' /\ Held'
    BY <2>1, <1>1, <1>2, <1>3 DEF Table, Held
  <2>3. \A j : Holder(j)' => Holder(j)
    BY <1>3 DEF Holder
  <2>4. \A t, u \in Sessions : \A j \in held'[t] \cap held'[u] : t = u \/ j \in deserted
    BY <1>1, <1>3 DEF Deserted
  <2> QED
    BY <2>2, <2>3, <2>4, <1>1, <1>2 DEF Deserted
<1>9. Discards' /\ Destroyers'
  BY <1>1, <1>2, <1>4, <1>6 DEF Discards, Destroyers, ConnectedTo
<1>10. Users'
  BY <1>1, <1>2, <1>4, <1>6 DEF Users, UsedBy, ConnectedTo
<1>11. Counts'
  <2> SUFFICES ASSUME NEW m \in instances \ unguarded PROVE Needed(m)' = Needed(m)
    BY <1>1, <1>2 DEF Counts
  <2>1. Connections(m)' = Connections(m) /\ lost'[m] = lost[m] /\ lost[m] \in Nat
        /\ m \in Instances
    BY <1>1, <1>2 DEF Connections, ConnectedTo, TypeOK
  <2>2. CASE id[m] = i
    <3>1. /\ s \in Holding(m) /\ Holding(m)' = Holding(m) \ {s}
          /\ s \notin Calls(m) /\ Calls(m)' = Calls(m) \cup {s}
      BY <2>1, <2>2, <1>2, <1>3, <1>4, <1>5 DEF Holding, Calls
    <3>2. /\ Cardinality(Holding(m)') = Cardinality(Holding(m)) - 1
          /\ Cardinality(Calls(m)') = Cardinality(Calls(m)) + 1
      BY <3>1, OneLess, OneMore DEF Holding, Calls
    <3> QED
      BY <3>2, <2>1, CountsAreNumbers DEF Needed
  <2>3. CASE id[m] # i
    <3>1. Holding(m)' = Holding(m)
      BY <2>3, <1>2, <1>3 DEF Holding
    <3>2. Calls(m)' = Calls(m)
      BY <2>3, <1>2, <1>4, <1>6 DEF Calls
    <3> QED
      BY <3>1, <3>2, <2>1 DEF Needed
  <2> QED
    BY <2>2, <2>3
<1> QED
  BY <1>1, <1>7, <1>8, <1>9, <1>10, <1>11 DEF Inv
-----------------------------------------------------------------------------
(***************************************************************************)
(* New instances                                                           *)
(***************************************************************************)
\* What creating an instance changes of the instances and of the sessions'
\* connections.
LEMMA Created ==
  ASSUME Inv, NEW n \in Instances, NEW i \in Ids, Create(n, i)
  PROVE  /\ n \notin instances /\ instances' = instances \cup {n}
         /\ \A t \in Sessions : at[t] # n /\ ~ConnectedTo(t, n)'
         /\ \A j \in Ids : instance_idr[j] # n
         /\ ref'[n] = 1 /\ id'[n] = i /\ used'[n] = FALSE /\ lost'[n] = 0
         /\ n \in unguarded' <=> Holder(i)
         /\ \A m \in Instances \ {n} :
              /\ ref'[m] = ref[m] /\ id'[m] = id[m] /\ used'[m] = used[m] /\ lost'[m] = lost[m]
              /\ producer'[m] = producer[m] /\ consumer'[m] = consumer[m]
              /\ m \in unguarded' <=> m \in unguarded
         /\ ref' \in [Instances -> 0..MaxRef] /\ id' \in [Instances -> Ids]
         /\ used' \in [Instances -> BOOLEAN] /\ lost' \in [Instances -> Nat]
         /\ producer' \in [Instances -> Producers \cup {None}]
         /\ consumer' \in [Instances -> Consumers \cup {None}]
         /\ instances' \subseteq Instances /\ unguarded' \subseteq Instances
<1>1. TypeOK /\ Table
  BY DEF Inv
<1>2. /\ n \notin instances /\ instances' = instances \cup {n} /\ \A t \in Sessions : at[t] # n
      /\ ref' = [ref EXCEPT ![n] = 1] /\ id' = [id EXCEPT ![n] = i]
      /\ used' = [used EXCEPT ![n] = FALSE] /\ producer' = [producer EXCEPT ![n] = None]
      /\ consumer' = [consumer EXCEPT ![n] = None] /\ lost' = [lost EXCEPT ![n] = 0]
      /\ unguarded' = IF Holder(i) THEN unguarded \cup {n} ELSE unguarded \ {n}
  BY DEF Create
<1>3. producer'[n] = None /\ consumer'[n] = None
  BY <1>1, <1>2 DEF TypeOK
<1>4. \A t \in Sessions : ~ConnectedTo(t, n)'
  BY <1>3, Constants DEF ConnectedTo
<1>5. \A j \in Ids : instance_idr[j] # n
  BY <1>1, <1>2 DEF Table
<1>6. /\ ref' \in [Instances -> 0..MaxRef] /\ id' \in [Instances -> Ids]
      /\ used' \in [Instances -> BOOLEAN] /\ lost' \in [Instances -> Nat]
      /\ producer' \in [Instances -> Producers \cup {None}]
      /\ consumer' \in [Instances -> Consumers \cup {None}]
  BY <1>1, <1>2, Constants DEF TypeOK
<1> QED
  BY <1>1, <1>2, <1>4, <1>5, <1>6 DEF TypeOK

\* The table without dummies has the same instances.
LEMMA DummiesLeave ==
  ASSUME NEW S, NEW i \in Ids
  PROVE  /\ WithoutDummies(S)[i] \in Instances <=> instance_idr[i] \in Instances
         /\ instance_idr[i] \in Instances => WithoutDummies(S)[i] = instance_idr[i]
BY Constants DEF WithoutDummies

\* What holds whatever the new instance is for.
LEMMA CreatedUnused ==
  ASSUME Inv, NEW s \in Sessions, NEW n \in Instances, NEW i \in Ids, Create(n, i),
         NEW where \in {"out", "connect", "discard"}, NEW a \in {at[s], n}, pc[s] = "out",
         \A t \in Sessions : /\ pc'[t] = IF t = s THEN where ELSE pc[t]
                             /\ at'[t] = IF t = s THEN a ELSE at[t],
         where # "out" => a = n
  PROVE  /\ \A m \in instances : Discarded(m)' <=> Discarded(m)
         /\ where # "discard" => Discards' \/ use' # use
         /\ Destroyers' /\ Users'
<1>1. /\ TypeOK /\ Discards /\ Destroyers /\ Users
  BY DEF Inv
<1>2. /\ n \notin instances /\ instances' = instances \cup {n}
      /\ \A t \in Sessions : at[t] # n /\ ~ConnectedTo(t, n)'
      /\ \A m \in Instances \ {n} :
           /\ ref'[m] = ref[m] /\ id'[m] = id[m]
           /\ producer'[m] = producer[m] /\ consumer'[m] = consumer[m]
           /\ m \in unguarded' <=> m \in unguarded
  BY Created
<1>3. \A t \in Sessions : pc[t] \in {"discard", "destroy"} =>
        t # s /\ at[t] \in Instances \ {n} /\ at[t] # None
  BY <1>1, <1>2, Constants DEF Discards, Destroyers, TypeOK
<1>4. \A m \in instances : Discarded(m)' <=> Discarded(m)
  BY <1>2, <1>3 DEF Discarded
<1>5. ASSUME where # "discard", use' = use PROVE Discards'
  BY <1>1, <1>2, <1>3, <1>5 DEF Discards, ConnectedTo
<1>6. Destroyers'
  BY <1>1, <1>2, <1>3 DEF Destroyers
<1>7. Users'
  BY <1>1, <1>2 DEF Users, UsedBy, ConnectedTo
<1> QED
  BY <1>4, <1>5, <1>6, <1>7

\* The references of the instances there were are counted as before.
LEMMA CreatedCounts ==
  ASSUME Inv, NEW s \in Sessions, NEW n \in Instances, NEW i \in Ids, Create(n, i),
         \A t \in Sessions : t # s => pc'[t] = pc[t] /\ at'[t] = at[t],
         pc[s] = "out", at'[s] = n \/ pc'[s] = "out",
         \A t \in Sessions : \A j \in Ids :
           j \in held'[t] <=> j \in held[t] \/ (t = s /\ j = i /\ i \in held'[s]),
         i \in held'[s] \ held[s] => \A m \in instances : id[m] # i,
         n \notin unguarded' => 1 = Needed(n)'
  PROVE  Counts'
<1>1. TypeOK /\ Counts
  BY DEF Inv
<1>2. /\ n \notin instances /\ instances' = instances \cup {n} /\ ref'[n] = 1
      /\ \A m \in Instances \ {n} :
           /\ ref'[m] = ref[m] /\ id'[m] = id[m] /\ lost'[m] = lost[m]
           /\ producer'[m] = producer[m] /\ consumer'[m] = consumer[m]
           /\ m \in unguarded' <=> m \in unguarded
  BY Created
<1> SUFFICES ASSUME NEW m \in instances \ unguarded', m # n PROVE ref'[m] = Needed(m)'
  BY <1>2 DEF Counts
<1>3. m \in Instances \ {n} /\ m \in instances \ unguarded /\ ref[m] = Needed(m) /\ id[m] \in Ids
  BY <1>1, <1>2 DEF Counts, TypeOK
<1>4. Connections(m)' = Connections(m)
  BY <1>2, <1>3 DEF Connections, ConnectedTo
<1>5. Calls(m)' = Calls(m)
  BY <1>3, Constants DEF Calls
<1>6. Holding(m)' = Holding(m)
  BY <1>2, <1>3 DEF Holding
<1> QED
  BY <1>2, <1>3, <1>4, <1>5, <1>6 DEF Needed

LEMMA ConnectNewStep ==
  ASSUME TunnelZeroUnused, Inv, use' = use, NEW s \in Sessions, NEW i \in Ids,
         NEW n \in Instances, ConnectNew(s, i, n)
  PROVE  Inv'
<1>1. /\ TypeOK /\ Table /\ Held /\ Discards /\ Deserted /\ use \in Uses
  BY DEF Inv
<1>2. /\ pc[s] = "out" /\ Known(s, i) /\ instance_idr[i] \in {Dummy, None} /\ Create(n, i)
      /\ UNCHANGED <<held, deserted>>
  BY DEF ConnectNew
<1>3. \A t \in Sessions : /\ pc'[t] = IF t = s THEN "connect" ELSE pc[t]
                          /\ at'[t] = IF t = s THEN n ELSE at[t]
  BY <1>1, Goes DEF ConnectNew
<1>4. /\ n \notin instances /\ instances' = instances \cup {n} /\ id'[n] = i /\ used'[n] = FALSE
      /\ \A t \in Sessions : at[t] # n /\ ~ConnectedTo(t, n)'
      /\ n \in unguarded' <=> Holder(i)
      /\ lost'[n] = 0
      /\ \A m \in Instances \ {n} :
           /\ id'[m] = id[m] /\ used'[m] = used[m]
           /\ producer'[m] = producer[m] /\ consumer'[m] = consumer[m]
           /\ m \in unguarded' <=> m \in unguarded
  BY <1>2, Created
<1>5. \A j \in Ids :
        /\ j = i => instance_idr'[j] = n
        /\ j # i => \/ instance_idr'[j] = instance_idr[j]
                    \/ instance_idr[j] = None /\ instance_idr'[j] = Dummy
  BY DEF ConnectNew
<1>6. use.overfull => i # 0
  BY <1>1, <1>2, Constants DEF TunnelZeroUnused, Known, Held
<1>7. TypeOK'
  <2>1. instance_idr' \in [Ids -> Instances \cup {Dummy, None}]
    BY <1>1 DEF TypeOK, ConnectNew
  <2>2. /\ pc' \in [Sessions -> {"out", "connect", "disconnect", "put", "destroy", "discard", "reuse"}]
        /\ at' \in [Sessions -> Instances \cup {None}]
    BY <1>1 DEF TypeOK, ConnectNew, Goto
  <2> QED
    BY <2>1, <2>2, <1>1, <1>2, Created DEF TypeOK
<1>8. /\ \A m \in instances : Discarded(m)' <=> Discarded(m)
      /\ Discards' /\ Destroyers' /\ Users'
  BY <1>2, <1>3, CreatedUnused
<1>9. Table'
  <2>1. ASSUME NEW j \in Ids, instance_idr'[j] \in Instances
        PROVE  /\ instance_idr'[j] \in instances' /\ id'[instance_idr'[j]] = j
               /\ use'.overfull => j # 0
    <3>1. CASE j = i
      BY <3>1, <1>4, <1>5, <1>6
    <3>2. CASE j # i
      BY <3>2, <2>1, <1>1, <1>4, <1>5, Constants DEF Table
    <3> QED
      BY <3>1, <3>2
  <2>2. ASSUME NEW m \in instances', ~Discarded(m)' PROVE instance_idr'[id'[m]] = m
    <3>1. CASE m = n
      BY <3>1, <1>4, <1>5
    <3>2. CASE m # n
      <4>1. m \in instances /\ m \in Instances /\ id[m] \in Ids /\ instance_idr[id[m]] = m
        BY <3>2, <2>2, <1>1, <1>4, <1>8 DEF Table, TypeOK
      <4>2. id[m] # i /\ id'[m] = id[m]
        BY <4>1, <3>2, <1>2, <1>4, Constants
      <4> QED
        BY <4>1, <4>2, <1>5, Constants
    <3> QED
      BY <3>1, <3>2
  <2> QED
    BY <2>1, <2>2 DEF Table
<1>10. Held'
  <2>1. \A t \in Sessions : held[t] \subseteq Ids
    BY <1>1 DEF TypeOK
  <2> QED
    BY <2>1, <1>1, <1>2, <1>5, Constants DEF Held
<1>11. Deserted'
  <2>1. \A m \in instances : m \in Instances \ {n}
    BY <1>1, <1>4 DEF TypeOK
  <2>2. Holder(i) => i \in deserted
    BY <1>1, <1>2, Constants DEF Held, Holder
  <2> QED
    BY <2>1, <2>2, <1>1, <1>2, <1>4 DEF Deserted, Holder
<1>12. Counts'
  <2>1. ASSUME n \notin unguarded' PROVE 1 = Needed(n)'
    <3>1. Connections(n)' = {} /\ Holding(n)' = {} /\ Calls(n)' = {s}
      BY <2>1, <1>2, <1>3, <1>4 DEF Connections, Holding, Holder, Calls
    <3>2. Cardinality({s}) = 1 /\ Cardinality({}) = 0
      BY FS_Singleton, FS_EmptySet
    <3> QED
      BY <3>1, <3>2, <1>4 DEF Needed
  <2> QED
    BY <2>1, <1>2, <1>3, CreatedCounts
<1> QED
  BY <1>1, <1>7, <1>8, <1>9, <1>10, <1>11, <1>12 DEF Inv

LEMMA AllocIdStep ==
  ASSUME Inv, use' = use, NEW s \in Sessions, NEW n \in Instances, NEW i \in Ids,
         AllocId(s, n, i)
  PROVE  Inv'
<1>1. /\ TypeOK /\ Table /\ Held /\ Discards /\ Deserted /\ use \in Uses
  BY DEF Inv
<1>2. /\ pc[s] = "out" /\ i >= MIN_VIDEO_TUNNEL_ID /\ WithoutDummies(Ids)[i] = None
      /\ Create(n, i) /\ pc' = pc /\ at' = at
      /\ deserted' = IF Holder(i) THEN deserted ELSE deserted \ {i}
  BY DEF AllocId, Free
<1>3. \A t \in Sessions : held'[t] = IF t = s THEN held[t] \cup {i} ELSE held[t]
  BY <1>1 DEF AllocId, TypeOK
<1>4. /\ n \notin instances /\ instances' = instances \cup {n} /\ id'[n] = i /\ used'[n] = FALSE
      /\ \A t \in Sessions : at[t] # n /\ ~ConnectedTo(t, n)'
      /\ n \in unguarded' <=> Holder(i)
      /\ lost'[n] = 0
      /\ \A m \in Instances \ {n} :
           /\ id'[m] = id[m] /\ used'[m] = used[m]
           /\ producer'[m] = producer[m] /\ consumer'[m] = consumer[m]
           /\ m \in unguarded' <=> m \in unguarded
  BY <1>2, Created
<1>5. instance_idr[i] \notin Instances /\ i # 0
  BY <1>2, DummiesLeave, Constants
<1>6. \A j \in Ids :
        /\ j = i => instance_idr'[j] = n
        /\ j # i => /\ instance_idr'[j] \in Instances <=> instance_idr[j] \in Instances
                    /\ instance_idr[j] \in Instances => instance_idr'[j] = instance_idr[j]
  BY DummiesLeave DEF AllocId, WithoutDummies
<1>7. TypeOK'
  <2>1. instance_idr' \in [Ids -> Instances \cup {Dummy, None}]
    BY <1>1 DEF TypeOK, AllocId, WithoutDummies
  <2>2. held' \in [Sessions -> SUBSET Ids] /\ deserted' \subseteq Ids
    BY <1>1, <1>2 DEF TypeOK, AllocId
  <2> QED
    BY <2>1, <2>2, <1>1, <1>2, Created DEF TypeOK
<1>8. /\ \A m \in instances : Discarded(m)' <=> Discarded(m)
      /\ Discards' /\ Destroyers' /\ Users'
  BY <1>2, CreatedUnused
<1>9. Table'
  <2>1. ASSUME NEW j \in Ids, instance_idr'[j] \in Instances
        PROVE  /\ instance_idr'[j] \in instances' /\ id'[instance_idr'[j]] = j
               /\ use'.overfull => j # 0
    <3>1. CASE j = i
      BY <3>1, <1>4, <1>5, <1>6
    <3>2. CASE j # i
      BY <3>2, <2>1, <1>1, <1>4, <1>6 DEF Table
    <3> QED
      BY <3>1, <3>2
  <2>2. ASSUME NEW m \in instances', ~Discarded(m)' PROVE instance_idr'[id'[m]] = m
    <3>1. CASE m = n
      BY <3>1, <1>4, <1>6
    <3>2. CASE m # n
      <4>1. m \in instances /\ m \in Instances /\ id[m] \in Ids /\ instance_idr[id[m]] = m
        BY <3>2, <2>2, <1>1, <1>4, <1>8 DEF Table, TypeOK
      <4> QED
        BY <4>1, <3>2, <1>4, <1>5, <1>6
    <3> QED
      BY <3>1, <3>2
  <2> QED
    BY <2>1, <2>2 DEF Table
<1>10. Held'
  <2>1. \A t \in Sessions : held[t] \subseteq Ids
    BY <1>1 DEF TypeOK
  <2> QED
    BY <2>1, <1>1, <1>2, <1>3, <1>6 DEF Held
<1>11. Holder(i) => i \in deserted
  BY <1>1, <1>5 DEF Held, Holder
<1>12. \A m \in instances : m \in Instances \ {n} /\ id[m] \in Ids \ {i}
  <2>1. \A m \in instances : Discarded(m) => id[m] = 0
    BY <1>1 DEF Discards, Discarded
  <2> QED
    BY <2>1, <1>1, <1>4, <1>5 DEF Table, TypeOK
<1>13. Deserted'
  <2>1. \A j : j # i => (Holder(j)' <=> Holder(j)) /\ (j \in deserted' <=> j \in deserted)
    BY <1>2, <1>3 DEF Holder
  <2>2. CASE Holder(i)
    <3>1. deserted' = deserted /\ i \in deserted
      BY <2>2, <1>2, <1>11
    <3>2. \A t, u \in Sessions : \A j \in held'[t] \cap held'[u] : t = u \/ j \in deserted
      BY <3>1, <1>1, <1>3 DEF Deserted
    <3>3. \A m \in instances' \cap unguarded' : Holder(id[m])' => id'[m] \in deserted
      BY <2>1, <3>1, <1>1, <1>4, <1>12 DEF Deserted
    <3>4. \A m \in instances' : used'[m] /\ producer'[m] = None /\ consumer'[m] = None =>
            id'[m] \in deserted
      BY <1>1, <1>4, <1>12 DEF Deserted
    <3> QED
      BY <3>1, <3>2, <3>3, <3>4 DEF Deserted
  <2>3. CASE ~Holder(i)
    <3>1. deserted' = deserted \ {i} /\ n \notin unguarded'
      BY <2>3, <1>2, <1>4
    <3>2. \A t, u \in Sessions : \A j \in held'[t] \cap held'[u] : t = u \/ j \in deserted'
      BY <2>3, <3>1, <1>1, <1>3 DEF Deserted, Holder
    <3>3. \A m \in instances' \cap unguarded' : Holder(id[m])' => id'[m] \in deserted'
      BY <2>1, <3>1, <1>1, <1>4, <1>12 DEF Deserted
    <3>4. \A m \in instances' : used'[m] /\ producer'[m] = None /\ consumer'[m] = None =>
            id'[m] \in deserted'
      BY <3>1, <1>1, <1>4, <1>12 DEF Deserted
    <3> QED
      BY <3>2, <3>3, <3>4 DEF Deserted
  <2> QED
    BY <2>2, <2>3
<1>14. Counts'
  <2>1. ASSUME n \notin unguarded' PROVE 1 = Needed(n)'
    <3>1. Connections(n)' = {} /\ Holding(n)' = {s} /\ Calls(n)' = {}
      BY <2>1, <1>2, <1>3, <1>4 DEF Connections, Holding, Holder, Calls
    <3>2. Cardinality({s}) = 1 /\ Cardinality({}) = 0
      BY FS_Singleton, FS_EmptySet
    <3> QED
      BY <3>1, <3>2, <1>4 DEF Needed
  <2> QED
    <3>1. /\ \A t \in Sessions : t # s => pc'[t] = pc[t] /\ at'[t] = at[t]
          /\ pc'[s] = "out" /\ i \in held'[s]
      BY <1>2, <1>3
    <3>2. \A t \in Sessions : \A j \in Ids :
            j \in held'[t] <=> j \in held[t] \/ (t = s /\ j = i /\ i \in held'[s])
      BY <3>1, <1>3
    <3> QED
      BY <2>1, <3>1, <3>2, <1>2, <1>12, CreatedCounts
<1> QED
  BY <1>1, <1>7, <1>8, <1>9, <1>10, <1>13, <1>14 DEF Inv

LEMMA AllocFullStep ==
  ASSUME Inv, use' = use, NEW s \in Sessions, NEW n \in Instances, AllocFull(s, n)
  PROVE  Inv'
<1>1. /\ TypeOK /\ Table /\ Held /\ Discards /\ Deserted /\ use \in Uses
  BY DEF Inv
<1>2. /\ pc[s] = "out" /\ use.overfull /\ Create(n, 0) /\ 0 \in Ids
      /\ UNCHANGED <<held, deserted>>
  BY Constants DEF AllocFull
<1>3. \A t \in Sessions : /\ pc'[t] = IF t = s THEN "discard" ELSE pc[t]
                          /\ at'[t] = IF t = s THEN n ELSE at[t]
  BY <1>1, Goes DEF AllocFull
<1>4. /\ n \notin instances /\ instances' = instances \cup {n} /\ id'[n] = 0 /\ used'[n] = FALSE
      /\ \A t \in Sessions : at[t] # n /\ ~ConnectedTo(t, n)'
      /\ n \in unguarded' <=> Holder(0)
      /\ lost'[n] = 0 /\ ref'[n] = 1
      /\ \A m \in Instances \ {n} :
           /\ ref'[m] = ref[m] /\ id'[m] = id[m] /\ used'[m] = used[m]
           /\ producer'[m] = producer[m] /\ consumer'[m] = consumer[m]
           /\ m \in unguarded' <=> m \in unguarded
  <2>1. PICK i \in Ids : i = 0
    BY <1>2
  <2>2. Create(n, i)
    BY <2>1, <1>2
  <2> QED
    BY <2>1, <2>2, Created
<1>5. ~Holder(0)
  BY <1>1, Constants DEF Held, Holder
<1>6. \A j \in Ids :
        /\ instance_idr'[j] \in Instances <=> instance_idr[j] \in Instances
        /\ instance_idr[j] \in Instances => instance_idr'[j] = instance_idr[j]
  <2>1. instance_idr' = WithoutDummies(Ids)
    BY DEF AllocFull
  <2> QED
    BY <2>1, DummiesLeave
<1>7. TypeOK'
  <2>1. instance_idr' \in [Ids -> Instances \cup {Dummy, None}]
    BY <1>1 DEF TypeOK, AllocFull, WithoutDummies
  <2>2. /\ pc' \in [Sessions -> {"out", "connect", "disconnect", "put", "destroy", "discard", "reuse"}]
        /\ at' \in [Sessions -> Instances \cup {None}]
    BY <1>1 DEF TypeOK, AllocFull, Goto
  <2> QED
    BY <2>1, <2>2, <1>1, <1>2, Created DEF TypeOK
<1>8. /\ \A m \in instances : Discarded(m)' <=> Discarded(m)
      /\ Destroyers' /\ Users'
  BY <1>2, <1>3, CreatedUnused
<1>9. \A m \in instances : m \in Instances \ {n} /\ id[m] \in Ids
  BY <1>1, <1>4 DEF TypeOK
<1>10. Discards'
  <2>1. \A t \in Sessions : pc[t] = "discard" => at[t] \in instances /\ t # s
    BY <1>1, <1>2 DEF Discards
  <2> QED
    BY <2>1, <1>1, <1>2, <1>3, <1>4, <1>9 DEF Discards, ConnectedTo
<1>11. Table'
  <2>1. Discarded(n)'
    BY <1>3 DEF Discarded
  <2> QED
    BY <2>1, <1>1, <1>4, <1>6, <1>8, <1>9, Constants DEF Table
<1>12. Held'
  <2>1. \A t \in Sessions : held[t] \subseteq Ids
    BY <1>1 DEF TypeOK
  <2> QED
    BY <2>1, <1>1, <1>2, <1>6 DEF Held
<1>13. Deserted'
  BY <1>1, <1>2, <1>4, <1>5, <1>9 DEF Deserted, Holder
<1>14. Counts'
  <2>1. ASSUME n \notin unguarded' PROVE 1 = Needed(n)'
    <3>1. Connections(n)' = {} /\ Holding(n)' = {} /\ Calls(n)' = {s}
      BY <1>2, <1>3, <1>4, <1>5 DEF Connections, Holding, Holder, Calls
    <3>2. Cardinality({s}) = 1 /\ Cardinality({}) = 0
      BY FS_Singleton, FS_EmptySet
    <3> QED
      BY <3>1, <3>2, <1>4 DEF Needed
  <2> QED
    BY <2>1, <1>2, <1>3, CreatedCounts
<1> QED
  BY <1>1, <1>7, <1>8, <1>10, <1>11, <1>12, <1>13, <1>14 DEF Inv

LEMMA ReuseStep ==
  ASSUME Inv, use' = use, NEW s \in Sessions, Reuse(s)
  PROVE  Inv'
<1>1. /\ TypeOK /\ Table /\ Held /\ Discards /\ Destroyers /\ Users /\ Counts /\ Deserted
      /\ use \in Uses
  BY DEF Inv
<1>2. /\ pc[s] = "reuse" /\ Goto(s, "out", None)
      /\ UNCHANGED <<instance_idr, instances, ref, id, producer, consumer>>
  BY DEF Reuse
<1>3. \A t \in Sessions : /\ pc'[t] = IF t = s THEN "out" ELSE pc[t]
                          /\ at'[t] = IF t = s THEN None ELSE at[t]
  BY <1>1, <1>2, Goes
<1>4. CASE UNCHANGED <<used, histories>>
  <2>1. \A t \in Sessions : pc[t] = "discard" => at[t] # None
    BY <1>1, Constants DEF Discards, TypeOK
  <2> QED
    BY <2>1, <1>2, <1>4, Moves DEF instanceVars
<1>5. ASSUME NEW n \in instances, ReuseOf(s, n) PROVE Inv'
  <2> DEFINE i == id[n]
             spare == lost[n] > 0 /\ n \notin unguarded /\ i \notin held[s]
  <2>1. /\ n \in Instances /\ i \in Ids /\ i >= MIN_VIDEO_TUNNEL_ID /\ i # 0
        /\ used[n] /\ producer[n] = None /\ consumer[n] = None
    BY <1>1, <1>5, Constants DEF ReuseOf, Unused, TypeOK
  <2>2. i \in deserted
    BY <2>1, <1>1 DEF Deserted
  <2>3. \A m \in Instances : used'[m] = IF m = n THEN FALSE ELSE used[m]
    BY <1>1, <1>5 DEF ReuseOf, TypeOK
  <2>4. \A t \in Sessions : held'[t] = IF t = s THEN held[t] \cup {i} ELSE held[t]
    BY <1>1, <1>5 DEF ReuseOf, TypeOK
  <2>5. /\ spare => unguarded' = unguarded
        /\ ~spare => unguarded' = unguarded \cup {n} /\ lost' = lost /\ deserted' = deserted
        /\ Holder(i) => deserted' = deserted
        /\ deserted' = deserted \/ (deserted' = deserted \ {i} /\ spare /\ ~Holder(i))
    <3>1. /\ unguarded' = IF spare THEN unguarded ELSE unguarded \cup {n}
          /\ deserted' = IF spare /\ ~Holder(i) THEN deserted \ {i} ELSE deserted
          /\ lost' = [lost EXCEPT ![n] = IF spare THEN @ - 1 ELSE @]
      BY <1>5 DEF ReuseOf
    <3>2. ~spare => lost' = lost
      BY <3>1, <1>1 DEF TypeOK
    <3> QED
      BY <3>1, <3>2
  <2>6. \A m \in Instances : lost'[m] = IF m = n /\ spare THEN lost[m] - 1 ELSE lost[m]
    BY <1>1, <1>5 DEF ReuseOf, TypeOK
  <2>7. /\ \A m \in instances : Discarded(m) => id[m] = 0
        /\ \A m \in instances : id[m] = i => m = n
        /\ instance_idr[i] = n
    BY <2>1, <1>1 DEF Table, Discards, Discarded
  <2>8. TypeOK'
    <3>1. lost' \in [Instances -> Nat]
      BY <2>1, <1>1, <1>5 DEF ReuseOf, TypeOK
    <3>2. used' \in [Instances -> BOOLEAN] /\ held' \in [Sessions -> SUBSET Ids]
      BY <2>1, <1>1, <1>5 DEF ReuseOf, TypeOK
    <3>3. unguarded' \subseteq Instances /\ deserted' \subseteq Ids
      BY <2>1, <2>5, <1>1 DEF TypeOK
    <3> QED
      BY <3>1, <3>2, <3>3, <1>1, <1>2 DEF TypeOK, Goto
  <2> HIDE DEF i
  <2>9. Table' /\ Held'
    <3>1. \A m : Discarded(m)' <=> Discarded(m)
      BY <1>2, <1>3 DEF Discarded
    <3>2. Table'
      BY <3>1, <1>1, <1>2 DEF Table
    <3>3. Held'
      BY <2>1, <2>4, <2>5, <2>7, <1>1, <1>2 DEF Held
    <3> QED
      BY <3>2, <3>3
  <2>10. Discards' /\ Destroyers'
    <3>1. \A t \in Sessions : pc[t] = "discard" => at[t] # None /\ t # s
      BY <1>1, <1>2, Constants DEF Discards, TypeOK
    <3> QED
      BY <3>1, <1>1, <1>2, <1>3 DEF Discards, Destroyers, ConnectedTo
  <2>11. Users'
    BY <2>5, <1>1, <1>2, <1>3 DEF Users, UsedBy, ConnectedTo
  <2>12. Deserted'
    <3>1. \A m \in instances : m \in Instances /\ (m # n => id[m] # i)
      BY <2>7, <1>1 DEF TypeOK
    <3>2. \A m \in instances : used'[m] /\ producer[m] = None /\ consumer[m] = None =>
            id[m] \in deserted'
      BY <3>1, <2>3, <2>5, <1>1 DEF Deserted
    <3>3. \A t, u \in Sessions : \A j \in held'[t] \cap held'[u] : t = u \/ j \in deserted'
      <4> SUFFICES ASSUME NEW t \in Sessions, NEW u \in Sessions, t # u,
                          NEW j, j \in held'[t], j \in held'[u]
                   PROVE  j \in deserted'
        OBVIOUS
      <4> HIDE DEF spare
      <4>1. \A v \in Sessions : j \in held'[v] => j \in held[v] \/ j = i
        BY <2>4
      <4>2. CASE j = i
        <5>1. i \in held[t] \/ i \in held[u]
          BY <4>2, <2>4
        <5>2. Holder(i)
          BY <5>1 DEF Holder
        <5> QED
          BY <4>2, <5>2, <2>2, <2>5
      <4>3. CASE j # i
        <5>1. j \in held[t] /\ j \in held[u]
          BY <4>3, <4>1
        <5>2. j \in deserted
          BY <5>1, <1>1 DEF Deserted
        <5> QED
          BY <4>3, <5>2, <2>5
      <4> QED
        BY <4>2, <4>3
    <3>4. ASSUME NEW m \in instances \cap unguarded', NEW t \in Sessions, id[m] \in held'[t]
          PROVE  id[m] \in deserted'
      <4>1. CASE m = n
        BY <4>1, <3>4, <2>2, <2>5, <1>1 DEF i
      <4>2. CASE m # n
        <5>1. m \in unguarded /\ id[m] # i /\ id[m] \in held[t]
          BY <4>2, <3>1, <3>4, <2>4, <2>5
        <5>2. id[m] \in deserted
          BY <5>1, <1>1 DEF Deserted, Holder
        <5> QED
          BY <5>1, <5>2, <2>5
      <4> QED
        BY <4>1, <4>2
    <3> QED
      BY <3>2, <3>3, <3>4, <1>2 DEF Deserted, Holder
  <2>13. Counts'
    <3> SUFFICES ASSUME NEW m \in instances \ unguarded' PROVE Needed(m)' = Needed(m)
      BY <2>5, <1>1, <1>2 DEF Counts
    <3>1. m \in Instances /\ lost[m] \in Nat /\ Connections(m)' = Connections(m)
      BY <1>1, <1>2 DEF TypeOK, Connections, ConnectedTo
    <3>2. Calls(m)' = Calls(m)
      BY <3>1, <1>2, <1>3, Constants DEF Calls
    <3>3. CASE m = n
      <4>1. spare /\ lost'[m] = lost[m] - 1 /\ i = id[m]
        BY <3>1, <3>3, <2>5, <2>6 DEF i
      <4>2. s \notin Holding(m) /\ Holding(m)' = Holding(m) \cup {s}
        BY <4>1, <3>3, <2>4, <1>2 DEF Holding
      <4>3. Cardinality(Holding(m)') = Cardinality(Holding(m)) + 1
        BY <4>2, OneMore DEF Holding
      <4> QED
        BY <4>1, <4>3, <3>1, <3>2, CountsAreNumbers DEF Needed
    <3>4. CASE m # n
      <4>1. lost'[m] = lost[m] /\ id[m] # i
        BY <3>1, <3>4, <2>6, <2>7
      <4>2. Holding(m)' = Holding(m)
        BY <4>1, <2>4, <1>2 DEF Holding
      <4> QED
        BY <4>1, <4>2, <3>1, <3>2 DEF Needed
    <3> QED
      BY <3>3, <3>4
  <2> QED
    BY <2>8, <2>9, <2>10, <2>11, <2>12, <2>13, <1>1 DEF Inv
<1> QED
  BY <1>4, <1>5 DEF Reuse

LEMMA InvNext == TunnelZeroUnused /\ Inv /\ [Next]_vars => Inv'
<1> SUFFICES ASSUME TunnelZeroUnused, Inv, [Next]_vars PROVE Inv'
  OBVIOUS
<1>1. CASE Next
  BY <1>1, ReuseStep, CloseStep, CallOnFreedStep, FreeIdStep, ConnectFoundStep,
     DisconnectFoundStep, AllocFullStep, ConnectDoneStep, ConnectRefusedStep, DisconnectStep,
     DisconnectFailsStep, PutStep, DestroyStep, AllocIdStep, ConnectNewStep
  DEF Next
<1>2. CASE UNCHANGED vars
  <2>1. \A n : Needed(n)' = Needed(n)
    BY <1>2 DEF vars, instanceVars, histories, Needed, Connections, Calls, Holding, ConnectedTo
  <2>2. /\ TypeOK /\ Table /\ Held /\ Discards /\ Destroyers /\ Users /\ Counts /\ Deserted
        /\ use \in Uses
    BY DEF Inv
  <2>3. TypeOK' /\ Table' /\ Held'
    BY <2>2, <1>2 DEF vars, instanceVars, histories, TypeOK, Table, Held, Discarded
  <2>4. Discards' /\ Destroyers' /\ Users'
    BY <2>2, <1>2
    DEF vars, instanceVars, histories, Discards, Destroyers, Users, UsedBy, ConnectedTo
  <2>5. Counts' /\ Deserted'
    BY <2>1, <2>2, <1>2 DEF vars, instanceVars, histories, Counts, Deserted, Holder
  <2> QED
    BY <2>2, <2>3, <2>4, <2>5, <1>2 DEF vars, Inv
<1> QED
  BY <1>1, <1>2
-----------------------------------------------------------------------------
(***************************************************************************)
(* The theorems                                                            *)
(***************************************************************************)
LEMMA Invariance == ASSUME TunnelZeroUnused PROVE Spec => []Inv
<1>1. Init => Inv
  BY InvInit
<1>2. Inv /\ [Next]_vars => Inv'
  BY InvNext
<1> QED
  BY <1>1, <1>2, PTL DEF Spec

\* Types, among them that a reference count lies between 0 and what an
\* instance can gather.
THEOREM IdsTypes == ASSUME TunnelZeroUnused PROVE Spec => []TypeOK
<1>1. Inv => TypeOK
  BY DEF Inv
<1> QED
  BY <1>1, Invariance, PTL

\* vt_connect and the puts work on an instance that exists and that its id
\* still stands for, whoever frees the id, connects too late or dies, if the
\* instance was given out with a reference.
THEOREM IdsInstanceExists == ASSUME TunnelZeroUnused PROVE Spec => []InstanceExists
<1>1. Inv => InstanceExists
  <2> SUFFICES ASSUME Inv, NEW s \in Sessions, NEW n \in Instances \ unguarded, UsedBy(s, n)
               PROVE  n \in instances /\ instance_idr[id[n]] = n
    BY DEF InstanceExists
  <2>1. n \in instances
    BY DEF Inv, Users
  <2>2. ~Discarded(n)
    BY DEF Inv, Discards, Discarded, UsedBy
  <2> QED
    BY <2>1, <2>2 DEF Inv, Table
<1> QED
  BY <1>1, Invariance, PTL

\* The sessions that connect to an id meet in one instance.
THEOREM IdsOneInstancePerId == ASSUME TunnelZeroUnused PROVE Spec => []OneInstancePerId
<1>1. Inv => OneInstancePerId
  BY DEF Inv, Table, Discarded, OneInstancePerId
<1> QED
  BY <1>1, Invariance, PTL

\* An id that vt_alloc_id gave to a session is its own until everybody who was
\* connected has left, wherever ids run out and holders are handed out again.
THEOREM IdsAreOwn == ASSUME TunnelZeroUnused PROVE Spec => []OwnIds
<1>1. Inv => OwnIds
  BY DEF Inv, Held, Table, Deserted, OwnIds
<1> QED
  BY <1>1, Invariance, PTL

\* Nobody uses an instance, or holds its id, without being counted among its
\* references, if the instance was given out with one.
THEOREM IdsReferencesSuffice == ASSUME TunnelZeroUnused PROVE Spec => []ReferencesSuffice
<1>1. Inv => ReferencesSuffice
  <2> SUFFICES ASSUME Inv, NEW n \in instances \ unguarded
               PROVE  ref[n] >= Cardinality(Connections(n)) + Cardinality(Holding(n))
    BY DEF ReferencesSuffice, Connections, Holding
  <2>1. ref[n] = Needed(n) /\ lost[n] \in Nat
    BY DEF Inv, Counts, TypeOK
  <2> QED
    BY <2>1, CountsAreNumbers DEF Needed
<1> QED
  BY <1>1, Invariance, PTL

\* The count is exact: connecting again to a place one has and dying, and the
\* reuse of an id, are the only steps that lose a reference or find one.
THEOREM IdsReferencesCounted == ASSUME TunnelZeroUnused PROVE Spec => []ReferencesCounted
<1>1. Inv => ReferencesCounted
  BY DEF Inv, Counts, Needed, Connections, Calls, Holding, ReferencesCounted
<1> QED
  BY <1>1, Invariance, PTL
=============================================================================
