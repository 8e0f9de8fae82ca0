----------------------- MODULE VframeProvidersProofs -----------------------
(***************************************************************************)
(* Proofs about VframeProviders, for any providers, any finite number of   *)
(* clients and any number of polls.  The inductive invariant says what the *)
(* two counters count and who is among those counted at which stage of an  *)
(* owner's call.                                                           *)
(***************************************************************************)
EXTENDS VframeProviders, FiniteSetTheorems, TLAPS

InUseAt == {"op", "refused"}

\* Whether provider_used counts the client.
HasLock(c) ==
  \/ c \in Getters /\ pc[c] # "idle"
  \/ c \in Askers /\ pc[c] \in {"use", "op", "refused", "unlock"}
Lockers == {c \in Clients : HasLock(c)}

LockCounted == provider_used = Cardinality(Lockers)

\* Where only some kinds of clients get.
PlacesInv ==
  \A c \in Clients :
    /\ pc[c] \in {"lock", "lockNull"} => c \in Askers
    /\ pc[c] = "unlock" => c \notin Notifiers

RegisteredAt ==
  \A p \in Providers :
    /\ registered[p] => stage[p] \in {"insert", "map", "in"} /\ ~unlisted[p]
    /\ stage[p] \in {"map", "in"} => registered[p] \/ unlisted[p]
    /\ stage[p] \in {"insert", "map", "close", "closing", "closed", "told"} => ~unlisted[p]

\* The provider was never registered: nobody can have met it.
Fresh(p) == stage[p] = "out" /\ use_cnt[p] = 0 /\ \A c \in Clients : ~Holds(c, p)

Closed(p) == stage[p] \in {"closing", "closed", "told", "draining", "out"} /\ ~unlisted[p]

\* UsersCounted, and what use_cnt is between registrations.
Counted ==
  \A p \in Providers :
    ~overrun[p] =>
      \/ use_cnt[p] = Cardinality(Users(p)) + (IF Closed(p) THEN CLOSED_CNT ELSE 0)
      \/ Fresh(p)

\* NoOpOnceTold, from the end of the wait on.
NoOps ==
  \A p \in Providers :
    stage[p] \in {"closed", "told", "draining", "out"} /\ ~gaveUp[p] /\ ~overrun[p]
      /\ ~unlisted[p] =>
      \A c \in Clients : ~(pc[c] = "op" /\ Upstream[c] = p)

\* PathCurrent, at every stage.
PathInv ==
  \A p \in Providers :
    /\ active[p] => registered[p] \/ stage[p] \in {"close", "closing", "closed", "told"}
    /\ registered[p] /\ registered[Source] =>
         active[p] \/ stage[p] = "map" \/ stage[Source] = "map"

Inv == TypeOK /\ PlacesInv /\ LockCounted /\ RegisteredAt /\ Counted /\ NoOps /\ GettersGone /\ PathInv
-----------------------------------------------------------------------------
\* There are finitely many clients, so that sets of them can be counted.
LEMMA ClientsFinite == IsFiniteSet(Clients) /\ Cardinality(Clients) \in Nat
<1>1. IsFiniteSet(Clients)
  BY VfmAssumption, FS_Union DEF Clients
<1> QED
  BY <1>1, FS_CardinalityType

\* A set of clients that one client joins or leaves.
LEMMA JoinCounts ==
  ASSUME NEW S \in SUBSET Clients, NEW c \in Clients
  PROVE  /\ IsFiniteSet(S) /\ Cardinality(S) \in Nat /\ Cardinality(S) <= Cardinality(Clients)
         /\ Cardinality(S) = 0 <=> S = {}
         /\ c \notin S => Cardinality(S \cup {c}) = Cardinality(S) + 1
         /\ c \in S => Cardinality(S \ {c}) = Cardinality(S) - 1
<1>1. IsFiniteSet(S) /\ Cardinality(S) <= Cardinality(Clients)
  BY ClientsFinite, FS_Subset
<1>2. Cardinality(S) \in Nat
  BY <1>1, FS_CardinalityType
<1>3. Cardinality(S) = 0 <=> S = {}
  BY <1>1, FS_EmptySet
<1>4. c \notin S => Cardinality(S \cup {c}) = Cardinality(S) + 1
  BY <1>1, FS_AddElement
<1>5. c \in S => Cardinality(S \ {c}) = Cardinality(S) - 1
  BY <1>1, FS_RemoveElement
<1> QED
  BY <1>1, <1>2, <1>3, <1>4, <1>5

\* Whom the counters count are clients.
LEMMA LockersAreClients == Lockers \in SUBSET Clients /\ Lockers' \in SUBSET Clients
BY DEF Lockers

LEMMA UsersAreClients ==
  ASSUME NEW p
  PROVE  Users(p) \in SUBSET Clients /\ Users(p)' \in SUBSET Clients
BY DEF Users

\* A count of users is a number below -CLOSED_CNT.
LEMMA UsersFewerThanClosed ==
  ASSUME NEW p
  PROVE  /\ Cardinality(Users(p)) \in Nat
         /\ CLOSED_CNT \in Int /\ Cardinality(Users(p)) + CLOSED_CNT < 0
<1>1. IsFiniteSet(Users(p)) /\ Cardinality(Users(p)) <= Cardinality(Clients)
  BY UsersAreClients, ClientsFinite, FS_Subset
<1>2. Cardinality(Users(p)) \in Nat
  BY <1>1, FS_CardinalityType
<1> QED
  BY <1>1, <1>2, ClientsFinite, VfmAssumption

\* A closed count that is not above CLOSED_CNT: there are no users.
LEMMA NoUsersLeft ==
  ASSUME NEW p, Cardinality(Users(p)) + CLOSED_CNT <= CLOSED_CNT
  PROVE  Users(p) = {}
<1>1. Cardinality(Users(p)) = 0
  BY UsersFewerThanClosed
<1>2. IsFiniteSet(Users(p))
  BY UsersAreClients, ClientsFinite, FS_Subset
<1> QED
  BY <1>1, <1>2, FS_EmptySet

\* What a step of one client does to the users and to those who have the lock.
LEMMA UsersAfterMove ==
  ASSUME TypeOK, NEW c \in Clients, NEW to, pc' = [pc EXCEPT ![c] = to], NEW p \in Providers
  PROVE  /\ p # Upstream[c] => Users(p)' = Users(p)
         /\ (pc[c] \in InUseAt /\ to \in InUseAt) \/ (pc[c] \notin InUseAt /\ to \notin InUseAt)
              => Users(p)' = Users(p)
         /\ p = Upstream[c] /\ pc[c] \notin InUseAt /\ to \in InUseAt =>
              c \notin Users(p) /\ Users(p)' = Users(p) \cup {c}
         /\ p = Upstream[c] /\ pc[c] \in InUseAt /\ to \notin InUseAt =>
              c \in Users(p) /\ Users(p)' = Users(p) \ {c}
<1> USE DEF Users, InUseAt, TypeOK
<1>1. p # Upstream[c] => Users(p)' = Users(p)
  OBVIOUS
<1>2. (pc[c] \in InUseAt /\ to \in InUseAt) \/ (pc[c] \notin InUseAt /\ to \notin InUseAt)
        => Users(p)' = Users(p)
  OBVIOUS
<1>3. p = Upstream[c] /\ pc[c] \notin InUseAt /\ to \in InUseAt =>
        c \notin Users(p) /\ Users(p)' = Users(p) \cup {c}
  OBVIOUS
<1>4. p = Upstream[c] /\ pc[c] \in InUseAt /\ to \notin InUseAt =>
        c \in Users(p) /\ Users(p)' = Users(p) \ {c}
  OBVIOUS
<1> QED
  BY <1>1, <1>2, <1>3, <1>4

LEMMA LockersAfterMove ==
  ASSUME TypeOK, NEW c \in Clients, NEW to, pc' = [pc EXCEPT ![c] = to]
  PROVE  /\ (HasLock(c) <=> HasLock(c)') => Lockers' = Lockers
         /\ ~HasLock(c) /\ HasLock(c)' => c \notin Lockers /\ Lockers' = Lockers \cup {c}
         /\ HasLock(c) /\ ~HasLock(c)' => c \in Lockers /\ Lockers' = Lockers \ {c}
<1>1. \A d \in Clients \ {c} : HasLock(d)' <=> HasLock(d)
  BY DEF HasLock, TypeOK
<1>2. (HasLock(c) <=> HasLock(c)') => Lockers' = Lockers
  BY <1>1 DEF Lockers
<1>3. ~HasLock(c) /\ HasLock(c)' => c \notin Lockers /\ Lockers' = Lockers \cup {c}
  BY <1>1 DEF Lockers
<1>4. HasLock(c) /\ ~HasLock(c)' => c \in Lockers /\ Lockers' = Lockers \ {c}
  BY <1>1 DEF Lockers
<1> QED
  BY <1>2, <1>3, <1>4
-----------------------------------------------------------------------------
\* The steps of an owner: no client moves, and no one takes or leaves the lock.
LEMMA OwnerKeepsClients ==
  ASSUME Inv, UNCHANGED <<pc, provider_used>>
  PROVE  /\ PlacesInv' /\ LockCounted'
         /\ \A p : Users(p)' = Users(p)
         /\ \A c, p : Holds(c, p)' = Holds(c, p)
BY DEF Inv, PlacesInv, LockCounted, Lockers, HasLock, Users, Holds

LEMMA RegResetInv ==
  ASSUME Inv, NEW p \in Providers, RegReset(p)
  PROVE  Inv'
<1> USE DEF Inv
<1>1. TypeOK'
  BY DEF TypeOK, RegReset, Goes, Ready, Stages, tableVars
<1>2. PlacesInv' /\ LockCounted' /\ \A q : Users(q)' = Users(q) /\ \A c : Holds(c, q)' = Holds(c, q)
  BY OwnerKeepsClients DEF RegReset
<1>3. RegisteredAt' /\ PathInv'
  <2>1. /\ \A q \in Providers : stage[q] \in {"map", "close", "closing", "closed", "told"}
                               \/ stage'[q] \in {"map", "close", "closing", "closed", "told"} =>
                                 stage'[q] = stage[q]
        /\ UNCHANGED <<registered, active>>
    BY DEF TypeOK, RegReset, Goes, tableVars
  <2>2. RegisteredAt'
    BY DEF TypeOK, RegReset, Goes, tableVars, RegisteredAt
  <2>3. PathInv'
    BY <2>1, VfmAssumption DEF PathInv
  <2> QED
    BY <2>2, <2>3
<1>4. Counted'
  <2> SUFFICES ASSUME NEW q \in Providers, ~overrun'[q]
               PROVE  \/ use_cnt'[q] = Cardinality(Users(q))
                                       + (IF Closed(q)' THEN CLOSED_CNT ELSE 0)
                      \/ Fresh(q)'
    BY <1>2 DEF Counted
  <2>1. CASE q = p
    <3>1. Users(p) = {} /\ use_cnt'[p] = 0 /\ ~Closed(p)'
      BY <2>1 DEF RegReset, Goes, Ready, TypeOK, Closed, IsClosed
    <3> QED
      BY <2>1, <3>1, FS_EmptySet
  <2>2. CASE q # p
    <3>1. use_cnt'[q] = use_cnt[q] /\ stage'[q] = stage[q] /\ unlisted'[q] = unlisted[q] /\ ~overrun[q]
      BY <2>2 DEF RegReset, Goes, Ready, TypeOK
    <3> QED
      BY <1>2, <3>1 DEF Counted, Closed, IsClosed, Fresh
  <2> QED
    BY <2>1, <2>2
<1>5. NoOps' /\ GettersGone'
  BY <1>2 DEF RegReset, Goes, TypeOK, NoOps, GettersGone
<1> QED
  BY <1>1, <1>2, <1>3, <1>4, <1>5

LEMMA RegRefusedInv ==
  ASSUME Inv, NEW p \in Providers, RegRefused(p)
  PROVE  Inv'
<1> USE DEF Inv
<1>1. TypeOK'
  BY DEF TypeOK, RegRefused, Goes, Stages, tableVars
<1>2. PlacesInv' /\ LockCounted' /\ \A q : Users(q)' = Users(q) /\ \A c : Holds(c, q)' = Holds(c, q)
  BY OwnerKeepsClients DEF RegRefused
<1>3. RegisteredAt' /\ PathInv'
  BY DEF TypeOK, RegRefused, Goes, tableVars, RegisteredAt, PathInv
<1>4. Counted'
  BY <1>2 DEF RegisteredAt, Counted, Fresh, Closed, IsClosed, RegRefused, Goes, TypeOK
<1>5. NoOps' /\ GettersGone'
  BY <1>2 DEF RegisteredAt, RegRefused, Goes, TypeOK, NoOps, GettersGone
<1> QED
  BY <1>1, <1>2, <1>3, <1>4, <1>5

LEMMA RegNoSlotInv ==
  ASSUME Inv, NEW p \in Providers, RegNoSlot(p)
  PROVE  Inv'
<1> USE DEF Inv
<1>1. TypeOK'
  BY DEF TypeOK, RegNoSlot, Goes, Stages, tableVars
<1>2. PlacesInv' /\ LockCounted' /\ \A q : Users(q)' = Users(q) /\ \A c : Holds(c, q)' = Holds(c, q)
  BY OwnerKeepsClients DEF RegNoSlot
<1>3. RegisteredAt' /\ PathInv'
  BY DEF TypeOK, RegNoSlot, Goes, tableVars, RegisteredAt, PathInv
<1>4. Counted'
  BY <1>2 DEF RegisteredAt, Counted, Fresh, Closed, IsClosed, RegNoSlot, Goes, TypeOK
<1>5. NoOps' /\ GettersGone'
  BY <1>2 DEF RegisteredAt, RegNoSlot, Goes, TypeOK, NoOps, GettersGone
<1> QED
  BY <1>1, <1>2, <1>3, <1>4, <1>5

\* A slot is lost: no provider and no client has to do with it.
LEMMA RegTooLongInv ==
  ASSUME Inv, RegTooLong
  PROVE  Inv'
<1> USE DEF Inv
<1>1. UNCHANGED <<registered, active, table, use_cnt, provider_used, ownerVars, pc>>
  BY DEF RegTooLong
<1>2. TypeOK'
  <2>1. table.tooLong \in Nat /\ lost' \in 0..table.tooLong
    BY VfmAssumption DEF RegTooLong, TypeOK
  <2> QED
    BY <2>1, <1>1 DEF TypeOK, ownerVars
<1>3. PlacesInv' /\ LockCounted' /\ \A q : Users(q)' = Users(q) /\ \A c : Holds(c, q)' = Holds(c, q)
  BY <1>1, OwnerKeepsClients
<1>4. RegisteredAt' /\ PathInv'
  BY <1>1 DEF ownerVars, RegisteredAt, PathInv
<1>5. Counted'
  BY <1>1, <1>3 DEF ownerVars, Counted, Fresh, Closed, IsClosed
<1>6. NoOps' /\ GettersGone'
  BY <1>1, <1>3 DEF ownerVars, NoOps, GettersGone
<1> QED
  BY <1>2, <1>3, <1>4, <1>5, <1>6

LEMMA RegInsertInv ==
  ASSUME Inv, NEW p \in Providers, RegInsert(p)
  PROVE  Inv'
<1> USE DEF Inv
<1>1. TypeOK'
  BY DEF TypeOK, RegInsert, Goes, Stages
<1>2. PlacesInv' /\ LockCounted' /\ \A q : Users(q)' = Users(q) /\ \A c : Holds(c, q)' = Holds(c, q)
  BY OwnerKeepsClients DEF RegInsert
<1>3. RegisteredAt' /\ PathInv'
  BY VfmAssumption DEF TypeOK, RegInsert, Goes, RegisteredAt, PathInv
<1>4. Counted'
  BY <1>2 DEF Counted, Fresh, Closed, IsClosed, RegInsert, Goes, TypeOK
<1>5. NoOps' /\ GettersGone'
  BY <1>2 DEF RegInsert, Goes, TypeOK, NoOps, GettersGone
<1> QED
  BY <1>1, <1>2, <1>3, <1>4, <1>5

LEMMA RegUpdateMapInv ==
  ASSUME Inv, NEW p \in Providers, RegUpdateMap(p)
  PROVE  Inv'
<1> USE DEF Inv
<1>1. TypeOK'
  BY DEF TypeOK, RegUpdateMap, Goes, Stages, UpdatedMap
<1>2. PlacesInv' /\ LockCounted' /\ \A q : Users(q)' = Users(q) /\ \A c : Holds(c, q)' = Holds(c, q)
  BY OwnerKeepsClients DEF RegUpdateMap
<1>3. RegisteredAt' /\ PathInv'
  BY VfmAssumption DEF TypeOK, RegUpdateMap, Goes, UpdatedMap, RegisteredAt, PathInv
<1>4. Counted'
  BY <1>2 DEF Counted, Fresh, Closed, IsClosed, RegUpdateMap, Goes, TypeOK
<1>5. NoOps' /\ GettersGone'
  BY <1>2 DEF RegUpdateMap, Goes, TypeOK, NoOps, GettersGone
<1> QED
  BY <1>1, <1>2, <1>3, <1>4, <1>5

LEMMA UnregRemoveInv ==
  ASSUME Inv, NEW p \in Providers, UnregRemove(p)
  PROVE  Inv'
<1> USE DEF Inv
<1>1. TypeOK'
  BY DEF TypeOK, UnregRemove, Goes, Stages
<1>2. PlacesInv' /\ LockCounted' /\ \A q : Users(q)' = Users(q) /\ \A c : Holds(c, q)' = Holds(c, q)
  BY OwnerKeepsClients DEF UnregRemove
<1>3. RegisteredAt' /\ PathInv'
  BY VfmAssumption DEF TypeOK, UnregRemove, Goes, RegisteredAt, PathInv
<1>4. Counted'
  BY <1>2 DEF Counted, Fresh, Closed, IsClosed, UnregRemove, Goes, TypeOK
<1>5. NoOps' /\ GettersGone'
  BY <1>2 DEF UnregRemove, Goes, TypeOK, NoOps, GettersGone
<1> QED
  BY <1>1, <1>2, <1>3, <1>4, <1>5

LEMMA UnregMissingInv ==
  ASSUME Inv, NEW p \in Providers, UnregMissing(p)
  PROVE  Inv'
<1> USE DEF Inv
<1>1. TypeOK'
  BY DEF TypeOK, UnregMissing, Goes, Stages, tableVars
<1>2. PlacesInv' /\ LockCounted' /\ \A q : Users(q)' = Users(q) /\ \A c : Holds(c, q)' = Holds(c, q)
  BY OwnerKeepsClients DEF UnregMissing
<1>3. RegisteredAt' /\ PathInv'
  BY DEF TypeOK, UnregMissing, Goes, tableVars, RegisteredAt, PathInv
<1>4. Counted'
  BY <1>2 DEF RegisteredAt, Counted, Fresh, Closed, IsClosed, UnregMissing, Goes, TypeOK
<1>5. NoOps' /\ GettersGone'
  BY <1>2 DEF RegisteredAt, UnregMissing, Goes, TypeOK, NoOps, GettersGone
<1> QED
  BY <1>1, <1>2, <1>3, <1>4, <1>5

LEMMA UnregCloseInv ==
  ASSUME Inv, NEW p \in Providers, UnregClose(p)
  PROVE  Inv'
<1> USE DEF Inv
<1>1. TypeOK'
  BY VfmAssumption DEF TypeOK, UnregClose, Goes, InUse, Stages, tableVars
<1>2. PlacesInv' /\ LockCounted' /\ \A q : Users(q)' = Users(q) /\ \A c : Holds(c, q)' = Holds(c, q)
  BY OwnerKeepsClients DEF UnregClose
<1>3. RegisteredAt' /\ PathInv'
  BY DEF TypeOK, UnregClose, Goes, InUse, tableVars, RegisteredAt, PathInv
<1>4. ~overrun[p] => use_cnt'[p] = Cardinality(Users(p)) + CLOSED_CNT
  BY UsersFewerThanClosed
     DEF TypeOK, Counted, Fresh, Closed, IsClosed, UnregClose, Goes
<1>5. Counted'
  <2> SUFFICES ASSUME NEW q \in Providers, ~overrun'[q]
               PROVE  \/ use_cnt'[q] = Cardinality(Users(q))
                                       + (IF Closed(q)' THEN CLOSED_CNT ELSE 0)
                      \/ Fresh(q)'
    BY <1>2 DEF Counted
  <2>1. CASE q = p
    BY <2>1, <1>4 DEF RegisteredAt, UnregClose, Goes, TypeOK, Closed, IsClosed
  <2>2. CASE q # p
    <3>1. use_cnt'[q] = use_cnt[q] /\ stage'[q] = stage[q] /\ unlisted'[q] = unlisted[q] /\ ~overrun[q]
      BY <2>2 DEF UnregClose, Goes, TypeOK
    <3> QED
      BY <1>2, <3>1 DEF Counted, Closed, IsClosed, Fresh
  <2> QED
    BY <2>1, <2>2
<1>6. stage'[p] = "closed" /\ ~overrun[p] => Users(p) = {}
  <2> SUFFICES ASSUME stage'[p] = "closed", ~overrun[p] PROVE Users(p) = {}
    OBVIOUS
  <2>1. use_cnt'[p] <= CLOSED_CNT
    <3>1. stage'[p] = IF InUse(use_cnt[p] + CLOSED_CNT) THEN "closing" ELSE "closed"
      BY DEF UnregClose, Goes, TypeOK
    <3>2. ~(use_cnt[p] + CLOSED_CNT > CLOSED_CNT)
      BY <3>1 DEF InUse
    <3>3. use_cnt'[p] = use_cnt[p] + CLOSED_CNT
      BY DEF UnregClose, TypeOK
    <3> QED
      BY <3>2, <3>3, VfmAssumption DEF TypeOK
  <2> QED
    BY <1>4, <2>1, NoUsersLeft
<1>7. NoOps' /\ GettersGone'
  BY <1>2, <1>6 DEF UnregClose, Goes, TypeOK, NoOps, GettersGone, Users
<1> QED
  BY <1>1, <1>2, <1>3, <1>5, <1>7

LEMMA UnregCloseEndsInv ==
  ASSUME Inv, NEW p \in Providers, UnregCloseEnds(p)
  PROVE  Inv'
<1> USE DEF Inv
<1>1. TypeOK'
  BY VfmAssumption DEF TypeOK, UnregCloseEnds, WaitEnds, Goes, Stages, tableVars
<1>2. PlacesInv' /\ LockCounted' /\ \A q : Users(q)' = Users(q) /\ \A c : Holds(c, q)' = Holds(c, q)
  BY OwnerKeepsClients DEF UnregCloseEnds
<1>3. RegisteredAt' /\ PathInv'
  BY DEF TypeOK, UnregCloseEnds, WaitEnds, Goes, tableVars, RegisteredAt, PathInv
<1>4. Counted'
  BY <1>2 DEF Counted, Fresh, Closed, IsClosed, UnregCloseEnds, WaitEnds, Goes, TypeOK
<1>5. ~gaveUp'[p] /\ ~overrun[p] => Users(p) = {}
  <2> SUFFICES ASSUME ~gaveUp'[p], ~overrun[p] PROVE Users(p) = {}
    OBVIOUS
  <2>1. ~InUse(use_cnt[p])
    BY DEF UnregCloseEnds, WaitEnds, TypeOK
  <2>2. use_cnt[p] = Cardinality(Users(p)) + CLOSED_CNT
    BY DEF RegisteredAt, UnregCloseEnds, WaitEnds, Goes, Counted, Fresh, Closed, IsClosed
  <2> QED
    BY <2>1, <2>2, NoUsersLeft, UsersFewerThanClosed DEF InUse
<1>6. NoOps' /\ GettersGone'
  BY <1>2, <1>5 DEF UnregCloseEnds, WaitEnds, Goes, TypeOK, NoOps, GettersGone, Users
<1> QED
  BY <1>1, <1>2, <1>3, <1>4, <1>6

LEMMA UnregTellInv ==
  ASSUME Inv, NEW p \in Providers, UnregTell(p)
  PROVE  Inv'
<1> USE DEF Inv
<1>1. TypeOK'
  BY DEF TypeOK, UnregTell, Goes, Stages, tableVars
<1>2. PlacesInv' /\ LockCounted' /\ \A q : Users(q)' = Users(q) /\ \A c : Holds(c, q)' = Holds(c, q)
  BY OwnerKeepsClients DEF UnregTell
<1>3. RegisteredAt' /\ PathInv'
  BY DEF TypeOK, UnregTell, Goes, tableVars, RegisteredAt, PathInv
<1>4. Counted'
  BY <1>2 DEF Counted, Fresh, Closed, IsClosed, UnregTell, Goes, TypeOK
<1>5. NoOps' /\ GettersGone'
  BY <1>2 DEF UnregTell, Goes, TypeOK, NoOps, GettersGone
<1> QED
  BY <1>1, <1>2, <1>3, <1>4, <1>5

LEMMA UnregUpdateMapInv ==
  ASSUME Inv, NEW p \in Providers, UnregUpdateMap(p)
  PROVE  Inv'
<1> USE DEF Inv
<1>1. TypeOK'
  BY DEF TypeOK, UnregUpdateMap, Goes, Stages, UpdatedMap
<1>2. PlacesInv' /\ LockCounted' /\ \A q : Users(q)' = Users(q) /\ \A c : Holds(c, q)' = Holds(c, q)
  BY OwnerKeepsClients DEF UnregUpdateMap
<1>3. RegisteredAt' /\ PathInv'
  BY DEF TypeOK, UnregUpdateMap, Goes, UpdatedMap, RegisteredAt, PathInv
<1>4. Counted'
  BY <1>2 DEF Counted, Fresh, Closed, IsClosed, UnregUpdateMap, Goes, TypeOK
<1>5. NoOps' /\ GettersGone'
  BY <1>2 DEF UnregUpdateMap, Goes, TypeOK, NoOps, GettersGone
<1> QED
  BY <1>1, <1>2, <1>3, <1>4, <1>5

\* The end of the second wait: nobody has the lock, hence no getter is on its way.
LEMMA UnregReturnInv ==
  ASSUME Inv, NEW p \in Providers, UnregReturn(p)
  PROVE  Inv'
<1> USE DEF Inv
<1>1. TypeOK'
  BY VfmAssumption DEF TypeOK, UnregReturn, WaitEnds, Goes, Stages, tableVars
<1>2. PlacesInv' /\ LockCounted' /\ \A q : Users(q)' = Users(q) /\ \A c : Holds(c, q)' = Holds(c, q)
  BY OwnerKeepsClients DEF UnregReturn
<1>3. RegisteredAt' /\ PathInv'
  BY DEF TypeOK, UnregReturn, WaitEnds, Goes, tableVars, RegisteredAt, PathInv
<1>4. Counted'
  BY <1>2 DEF Counted, Fresh, Closed, IsClosed, UnregReturn, WaitEnds, Goes, TypeOK
<1>5. ~gaveUp'[p] => \A c \in Getters : ~Holds(c, p)
  <2> SUFFICES ASSUME ~gaveUp'[p] PROVE \A c \in Getters : ~Holds(c, p)
    OBVIOUS
  <2>0. ~SomeUsed
    BY DEF UnregReturn, WaitEnds, TypeOK
  <2>1. provider_used = 0
    BY <2>0 DEF SomeUsed, TypeOK
  <2>2. IsFiniteSet(Lockers)
    BY ClientsFinite, FS_Subset DEF Lockers
  <2>3. Lockers = {}
    BY <2>1, <2>2, FS_EmptySet DEF LockCounted
  <2> QED
    BY <2>3 DEF Lockers, HasLock, Holds, Clients
<1>6. NoOps' /\ GettersGone'
  BY <1>2, <1>5 DEF UnregReturn, WaitEnds, Goes, TypeOK, NoOps, GettersGone
<1> QED
  BY <1>1, <1>2, <1>3, <1>4, <1>6

\* One more turn of a wait changes nothing but polls.
LEMMA WaitsInv ==
  ASSUME Inv, NEW p \in Providers, UnregClosePoll(p) \/ UnregDrainPoll(p)
  PROVE  Inv'
<1> USE DEF Inv
<1>1. /\ polls[p] > 0 /\ polls' = [polls EXCEPT ![p] = @ - 1]
      /\ UNCHANGED <<tableVars, use_cnt, provider_used, stage, gaveUp, overrun, unlisted, pc>>
  BY DEF UnregClosePoll, UnregDrainPoll, Waits, Polled
<1>2. TypeOK'
  BY <1>1, VfmAssumption DEF TypeOK, tableVars
<1>3. PlacesInv' /\ LockCounted' /\ \A q : Users(q)' = Users(q) /\ \A c : Holds(c, q)' = Holds(c, q)
  BY <1>1, OwnerKeepsClients
<1>4. RegisteredAt' /\ PathInv'
  BY <1>1 DEF tableVars, RegisteredAt, PathInv
<1>5. Counted'
  BY <1>1, <1>3 DEF Counted, Fresh, Closed, IsClosed
<1>6. NoOps' /\ GettersGone'
  BY <1>1, <1>3 DEF NoOps, GettersGone
<1> QED
  BY <1>2, <1>3, <1>4, <1>5, <1>6

-----------------------------------------------------------------------------
\* The steps of a client leave the owners and the table alone.
LEMMA ClientKeepsOwners ==
  ASSUME Inv, UNCHANGED <<tableVars, ownerVars>>
  PROVE  RegisteredAt' /\ PathInv'
BY DEF Inv, tableVars, ownerVars, RegisteredAt, PathInv

\* A step that neither begins nor ends a use keeps what use_cnt counts, and
\* who has just got a provider's address has it from the table.
LEMMA MoveKeepsUses ==
  ASSUME Inv, NEW c \in Clients, NEW to \in Places, pc' = [pc EXCEPT ![c] = to],
         UNCHANGED <<tableVars, ownerVars, use_cnt>>,
         pc[c] \notin InUseAt, to \notin InUseAt,
         to \in {"lock", "use"} => registered[Upstream[c]] \/ pc[c] = "lock"
  PROVE  Counted' /\ NoOps' /\ GettersGone'
<1> USE DEF Inv
<1>1. \A q \in Providers : Users(q)' = Users(q)
  BY UsersAfterMove
<1>2. \A q \in Providers : stage[q] = "out" =>
        \A d \in Clients : Holds(d, q)' => Holds(d, q)
  <2> SUFFICES ASSUME NEW q \in Providers, stage[q] = "out", NEW d \in Clients, Holds(d, q)'
               PROVE  Holds(d, q)
    OBVIOUS
  <2>1. ~registered[q]
    BY DEF RegisteredAt
  <2>2. CASE d # c
    BY <2>2 DEF Holds, TypeOK
  <2>3. CASE d = c
    <3>1. to \in {"lock", "use"} /\ Upstream[c] = q
      BY <2>3 DEF Holds, TypeOK, InUseAt
    <3>2. pc[c] = "lock"
      BY <2>1, <3>1
    <3> QED
      BY <2>3, <3>1, <3>2 DEF Holds
  <2> QED
    BY <2>2, <2>3
<1>3. Counted'
  BY <1>1, <1>2 DEF Counted, Closed, IsClosed, Fresh, ownerVars
<1>4. NoOps'
  BY DEF NoOps, InUseAt, TypeOK, ownerVars
<1>5. GettersGone'
  BY <1>2 DEF GettersGone, ownerVars, Clients
<1> QED
  BY <1>3, <1>4, <1>5

LEMMA CallInv ==
  ASSUME Inv, NEW c \in Clients, Call(c)
  PROVE  Inv'
<1> USE DEF Inv
<1>1. PICK to \in {"name", "find"} :
        /\ pc' = [pc EXCEPT ![c] = to] /\ pc[c] = "idle"
        /\ to = "find" => c \in Notifiers
  BY DEF Call, Moves
<1>2. UNCHANGED <<tableVars, use_cnt, ownerVars>>
  BY DEF Call
<1>3. TypeOK'
  BY <1>1, <1>2 DEF TypeOK, Call, Places, tableVars, ownerVars
<1>4. PlacesInv'
  BY <1>1 DEF TypeOK, PlacesInv
<1>5. LockCounted'
  <2>1. CASE c \in Getters
    <3>1. ~HasLock(c) /\ HasLock(c)' /\ provider_used' = provider_used + 1
      BY <1>1, <2>1, VfmAssumption DEF HasLock, TypeOK, Call
    <3>2. c \notin Lockers /\ Lockers' = Lockers \cup {c}
      BY <1>1, <3>1, LockersAfterMove
    <3>3. Cardinality(Lockers') = Cardinality(Lockers) + 1
      BY <3>2, LockersAreClients, JoinCounts
    <3> QED
      BY <3>1, <3>3 DEF LockCounted
  <2>2. CASE c \notin Getters
    <3>1. ~HasLock(c) /\ ~HasLock(c)' /\ provider_used' = provider_used
      BY <1>1, <2>2 DEF HasLock, TypeOK, Call
    <3> QED
      BY <1>1, <3>1, LockersAfterMove DEF LockCounted
  <2> QED
    BY <2>1, <2>2
<1>6. Counted' /\ NoOps' /\ GettersGone'
  BY <1>1, <1>2, MoveKeepsUses DEF Places, InUseAt
<1> QED
  BY <1>2, <1>3, <1>4, <1>5, <1>6, ClientKeepsOwners

\* The client looks at the path or at the table; it goes on, or ends without a
\* provider as its kind does.
LEMMA LookInv ==
  ASSUME Inv, NEW c \in Clients, ReadPath(c) \/ FindProvider(c)
  PROVE  Inv'
<1> USE DEF Inv
<1>1. PICK to \in Places :
        /\ pc' = [pc EXCEPT ![c] = to] /\ pc[c] \in {"name", "find"}
        /\ to \in {"find", "lock", "use", "unlock", "lockNull", "idle"}
        /\ to = "unlock" => c \in Getters
        /\ to = "lockNull" => c \in Askers
        /\ to = "lock" => c \in Askers /\ registered[Upstream[c]]
        /\ to = "use" => c \notin Askers /\ registered[Upstream[c]]
        /\ to = "idle" => c \in Notifiers
  BY DEF ReadPath, FindProvider, Moves, WithoutProvider, Places, Clients
<1>2. UNCHANGED <<tableVars, use_cnt, provider_used, ownerVars>>
  BY DEF ReadPath, FindProvider
<1>3. TypeOK'
  BY <1>1, <1>2 DEF TypeOK, tableVars, ownerVars
<1>4. PlacesInv'
  BY <1>1, VfmAssumption DEF TypeOK, PlacesInv
<1>5. LockCounted'
  <2>1. HasLock(c) <=> HasLock(c)'
    BY <1>1, VfmAssumption DEF HasLock, TypeOK, Clients
  <2> QED
    BY <1>1, <1>2, <2>1, LockersAfterMove DEF LockCounted
<1>6. Counted' /\ NoOps' /\ GettersGone'
  BY <1>1, <1>2, MoveKeepsUses DEF InUseAt
<1> QED
  BY <1>2, <1>3, <1>4, <1>5, <1>6, ClientKeepsOwners

LEMMA LateLockInv ==
  ASSUME Inv, NEW c \in Clients, LateLock(c)
  PROVE  Inv'
<1> USE DEF Inv
<1>1. PICK to \in {"use", "unlock"} :
        /\ pc' = [pc EXCEPT ![c] = to] /\ pc[c] \in {"lock", "lockNull"}
        /\ to = "use" => pc[c] = "lock"
  BY DEF LateLock, Moves
<1>2. UNCHANGED <<tableVars, use_cnt, ownerVars>> /\ provider_used' = provider_used + 1
  BY DEF LateLock
<1>3. TypeOK'
  BY <1>1, <1>2 DEF TypeOK, Places, tableVars, ownerVars
<1>4. c \in Askers /\ PlacesInv'
  BY <1>1, VfmAssumption DEF TypeOK, PlacesInv
<1>5. LockCounted'
  <2>1. ~HasLock(c) /\ HasLock(c)'
    BY <1>1, <1>4, VfmAssumption DEF HasLock, TypeOK
  <2>2. c \notin Lockers /\ Lockers' = Lockers \cup {c}
    BY <1>1, <2>1, LockersAfterMove
  <2>3. Cardinality(Lockers') = Cardinality(Lockers) + 1
    BY <2>2, LockersAreClients, JoinCounts
  <2> QED
    BY <1>2, <2>3 DEF LockCounted
<1>6. Counted' /\ NoOps' /\ GettersGone'
  BY <1>1, <1>2, MoveKeepsUses DEF InUseAt, Places
<1> QED
  BY <1>2, <1>3, <1>4, <1>5, <1>6, ClientKeepsOwners

LEMMA UnlockInv ==
  ASSUME Inv, NEW c \in Clients, Unlock(c)
  PROVE  Inv'
<1> USE DEF Inv
<1>1. pc' = [pc EXCEPT ![c] = "idle"] /\ pc[c] = "unlock"
  BY DEF Unlock, Moves
<1>2. UNCHANGED <<tableVars, use_cnt, ownerVars>> /\ provider_used' = provider_used - 1
  BY DEF Unlock
<1>3. LockCounted' /\ provider_used' \in Nat
  <2>1. HasLock(c) /\ ~HasLock(c)'
    BY <1>1 DEF HasLock, TypeOK, PlacesInv, Clients
  <2>2. Lockers' = Lockers \ {c} /\ c \in Lockers
    BY <1>1, <2>1, LockersAfterMove
  <2>3. Cardinality(Lockers') = Cardinality(Lockers) - 1
    BY <2>2, LockersAreClients, JoinCounts
  <2>4. Cardinality(Lockers') \in Nat
    BY LockersAreClients, JoinCounts
  <2> QED
    BY <1>2, <2>3, <2>4 DEF LockCounted
<1>4. TypeOK'
  BY <1>1, <1>2, <1>3 DEF TypeOK, Places, tableVars, ownerVars
<1>5. PlacesInv'
  BY <1>1 DEF TypeOK, PlacesInv
<1>6. Counted' /\ NoOps' /\ GettersGone'
  BY <1>1, <1>2, MoveKeepsUses DEF InUseAt, Places
<1> QED
  BY <1>2, <1>3, <1>4, <1>5, <1>6, ClientKeepsOwners

\* A use of a provider that is being unregistered is refused: its count is
\* below 1 whatever the clients do.
LEMMA UseProviderInv ==
  ASSUME Inv, NEW c \in Clients, UseProvider(c)
  PROVE  Inv'
<1> DEFINE p == Upstream[c]
           to == IF Usable(use_cnt[p] + 1) THEN "op" ELSE "refused"
<1> USE DEF Inv
<1>1. /\ pc[c] = "use" /\ pc' = [pc EXCEPT ![c] = to] /\ to \in InUseAt
      /\ use_cnt' = [use_cnt EXCEPT ![p] = use_cnt[p] + 1]
      /\ UNCHANGED <<tableVars, provider_used, ownerVars>>
  BY DEF UseProvider, Moves, InUseAt
<1>2. p \in Providers /\ Holds(c, p)
  BY <1>1, VfmAssumption DEF Holds
<1> HIDE DEF p, to
<1>3. TypeOK'
  BY <1>1, <1>2 DEF TypeOK, InUseAt, Places, tableVars, ownerVars
<1>4. PlacesInv'
  BY <1>1 DEF TypeOK, PlacesInv, InUseAt
<1>5. LockCounted'
  <2>1. HasLock(c) <=> HasLock(c)'
    BY <1>1, VfmAssumption DEF HasLock, TypeOK, InUseAt, Clients
  <2> QED
    BY <1>1, <2>1, LockersAfterMove DEF LockCounted
<1>6. /\ c \notin Users(p) /\ Cardinality(Users(p)') = Cardinality(Users(p)) + 1
      /\ \A q \in Providers \ {p} : Users(q)' = Users(q)
  <2>1. c \notin Users(p) /\ Users(p)' = Users(p) \cup {c}
    BY <1>1, <1>2, UsersAfterMove DEF InUseAt, p
  <2>2. \A q \in Providers \ {p} : Users(q)' = Users(q)
    BY <1>1, UsersAfterMove DEF p
  <2> QED
    BY <2>1, <2>2, UsersAreClients, JoinCounts
<1>7. ~Fresh(p)
  BY <1>2 DEF Fresh
<1>8. \A q \in Providers : \A d \in Clients : Holds(d, q)' <=> Holds(d, q)
  BY <1>1, <1>2 DEF Holds, TypeOK, InUseAt, p
<1>9. Counted'
  <2> SUFFICES ASSUME NEW q \in Providers, ~overrun[q]
               PROVE  \/ use_cnt'[q] = Cardinality(Users(q)')
                                       + (IF Closed(q) THEN CLOSED_CNT ELSE 0)
                      \/ Fresh(q)'
    BY <1>1 DEF Counted, ownerVars, Closed, IsClosed
  <2>1. CASE q = p
    <3>1. use_cnt[p] = Cardinality(Users(p)) + (IF Closed(p) THEN CLOSED_CNT ELSE 0)
      BY <2>1, <1>7 DEF Counted
    <3>2. Cardinality(Users(p)) \in Nat /\ CLOSED_CNT \in Int
      BY UsersFewerThanClosed
    <3>3. use_cnt'[p] = use_cnt[p] + 1
      BY <1>1, <1>2 DEF TypeOK
    <3> QED
      BY <2>1, <1>6, <3>1, <3>2, <3>3
  <2>2. CASE q # p
    <3>1. use_cnt'[q] = use_cnt[q]
      BY <1>1, <2>2 DEF TypeOK
    <3>2. Fresh(q) => Fresh(q)'
      BY <1>1, <1>8, <2>2, <3>1 DEF Fresh, ownerVars
    <3> QED
      BY <1>6, <2>2, <3>1, <3>2 DEF Counted
  <2> QED
    BY <2>1, <2>2
<1>10. Closed(p) /\ ~overrun[p] => to = "refused"
  <2> SUFFICES ASSUME Closed(p), ~overrun[p] PROVE ~Usable(use_cnt[p] + 1)
    BY DEF to
  <2>1. use_cnt[p] = Cardinality(Users(p)) + CLOSED_CNT
    BY <1>2, <1>7 DEF Counted
  <2>2. use_cnt[p] < 0 /\ use_cnt[p] \in Int
    BY <2>1, UsersFewerThanClosed
  <2> QED
    BY <2>2 DEF Usable
<1>11. NoOps'
  <2> SUFFICES ASSUME NEW q \in Providers,
                      stage[q] \in {"closed", "told", "draining", "out"}, ~gaveUp[q], ~overrun[q], ~unlisted[q],
                      NEW d \in Clients, pc'[d] = "op", Upstream[d] = q
               PROVE  FALSE
    BY <1>1 DEF NoOps, ownerVars
  <2>1. CASE d = c
    BY <1>1, <1>10, <2>1 DEF TypeOK, Closed, IsClosed, p
  <2>2. CASE d # c
    BY <1>1, <2>2 DEF NoOps, TypeOK
  <2> QED
    BY <2>1, <2>2
<1>12. GettersGone'
  BY <1>1, <1>8 DEF GettersGone, Clients, ownerVars
<1> QED
  BY <1>1, <1>3, <1>4, <1>5, <1>9, <1>11, <1>12, ClientKeepsOwners

\* The end of a use takes back what its beginning has added.
LEMMA UnuseProviderInv ==
  ASSUME Inv, NEW c \in Clients, UnuseProvider(c)
  PROVE  Inv'
<1> DEFINE p == Upstream[c]
           to == IF c \in Notifiers THEN "idle" ELSE "unlock"
<1> USE DEF Inv
<1>1. /\ pc[c] \in InUseAt /\ pc' = [pc EXCEPT ![c] = to]
      /\ to \in {"idle", "unlock"} /\ (to = "idle" <=> c \in Notifiers)
      /\ use_cnt' = [use_cnt EXCEPT ![p] = use_cnt[p] - 1]
      /\ UNCHANGED <<tableVars, provider_used, ownerVars>>
  BY DEF UnuseProvider, Unused, InUseAt
<1>2. p \in Providers /\ Holds(c, p)
  BY <1>1, VfmAssumption DEF Holds, InUseAt
<1> HIDE DEF p, to
<1>3. TypeOK'
  BY <1>1, <1>2 DEF TypeOK, Places, tableVars, ownerVars
<1>4. PlacesInv'
  BY <1>1 DEF TypeOK, PlacesInv
<1>5. LockCounted'
  <2>1. HasLock(c) <=> HasLock(c)'
    BY <1>1, VfmAssumption DEF HasLock, TypeOK, InUseAt, Clients
  <2> QED
    BY <1>1, <2>1, LockersAfterMove DEF LockCounted
<1>6. /\ Cardinality(Users(p)') = Cardinality(Users(p)) - 1
      /\ \A q \in Providers \ {p} : Users(q)' = Users(q)
  <2>1. c \in Users(p) /\ Users(p)' = Users(p) \ {c}
    BY <1>1, <1>2, UsersAfterMove DEF InUseAt, p
  <2>2. \A q \in Providers \ {p} : Users(q)' = Users(q)
    BY <1>1, UsersAfterMove DEF p
  <2> QED
    BY <2>1, <2>2, UsersAreClients, JoinCounts
<1>7. ~Fresh(p)
  BY <1>2 DEF Fresh
<1>8. \A q \in Providers : \A d \in Clients : Holds(d, q)' => Holds(d, q)
  BY <1>1 DEF Holds, TypeOK
<1>9. Counted'
  <2> SUFFICES ASSUME NEW q \in Providers, ~overrun[q]
               PROVE  \/ use_cnt'[q] = Cardinality(Users(q)')
                                       + (IF Closed(q) THEN CLOSED_CNT ELSE 0)
                      \/ Fresh(q)'
    BY <1>1 DEF Counted, ownerVars, Closed, IsClosed
  <2>1. CASE q = p
    <3>1. use_cnt[p] = Cardinality(Users(p)) + (IF Closed(p) THEN CLOSED_CNT ELSE 0)
      BY <2>1, <1>7 DEF Counted
    <3>2. Cardinality(Users(p)) \in Nat /\ CLOSED_CNT \in Int
      BY UsersFewerThanClosed
    <3>3. use_cnt'[p] = use_cnt[p] - 1
      BY <1>1, <1>2 DEF TypeOK
    <3> QED
      BY <2>1, <1>6, <3>1, <3>2, <3>3
  <2>2. CASE q # p
    <3>1. use_cnt'[q] = use_cnt[q]
      BY <1>1, <2>2 DEF TypeOK
    <3>2. Fresh(q) => Fresh(q)'
      BY <1>1, <1>8, <2>2, <3>1 DEF Fresh, ownerVars
    <3> QED
      BY <1>6, <2>2, <3>1, <3>2 DEF Counted
  <2> QED
    BY <2>1, <2>2
<1>10. NoOps' /\ GettersGone'
  <2>1. \A d \in Clients : pc'[d] = "op" => pc[d] = "op"
    BY <1>1 DEF TypeOK
  <2>2. NoOps'
    BY <1>1, <2>1 DEF NoOps, ownerVars
  <2>3. GettersGone'
    BY <1>1, <1>8 DEF GettersGone, Clients, ownerVars
  <2> QED
    BY <2>2, <2>3
<1> QED
  BY <1>1, <1>3, <1>4, <1>5, <1>9, <1>10, ClientKeepsOwners
-----------------------------------------------------------------------------
LEMMA InitInv == Init => Inv
<1> SUFFICES ASSUME Init PROVE Inv
  OBVIOUS
<1>1. TypeOK
  BY VfmAssumption DEF Init, TypeOK, Stages, Places
<1>2. PlacesInv /\ RegisteredAt /\ NoOps /\ GettersGone /\ PathInv
  BY DEF Init, PlacesInv, RegisteredAt, NoOps, GettersGone, PathInv, Holds, Clients
<1>3. LockCounted
  <2>1. Lockers = {}
    BY DEF Init, Lockers, HasLock, Clients
  <2> QED
    BY <2>1, FS_EmptySet DEF Init, LockCounted
<1>4. Counted
  BY DEF Init, Counted, Fresh, Holds
<1> QED
  BY <1>1, <1>2, <1>3, <1>4 DEF Inv

LEMMA NextInv == Inv /\ [Next]_vars => Inv'
<1> SUFFICES ASSUME Inv, [Next]_vars PROVE Inv'
  OBVIOUS
<1>1. ASSUME NEW p \in Providers, RegReset(p) \/ UnregRemove(p) \/ UnregMissing(p) \/ OwnerGoesOn(p)
      PROVE  Inv'
  BY <1>1, RegResetInv, RegRefusedInv, RegNoSlotInv, RegInsertInv, UnregMissingInv, RegUpdateMapInv, UnregRemoveInv, UnregCloseInv,
     UnregCloseEndsInv, UnregTellInv, UnregUpdateMapInv, UnregReturnInv, WaitsInv
     DEF OwnerGoesOn
<1>2. ASSUME NEW c \in Clients, ClientGoesOn(c) \/ Call(c)
      PROVE  Inv'
  BY <1>2, CallInv, LookInv, LateLockInv, UseProviderInv, UnuseProviderInv, UnlockInv
     DEF ClientGoesOn
<1>3. CASE UNCHANGED vars
  BY <1>3
     DEF vars, tableVars, ownerVars, Inv, TypeOK, PlacesInv, LockCounted, Lockers, HasLock,
         RegisteredAt, Counted, Fresh, Closed, IsClosed, Users, Holds, NoOps, GettersGone, PathInv
<1>4. CASE RegTooLong
  BY <1>4, RegTooLongInv
<1> QED
  BY <1>1, <1>2, <1>3, <1>4 DEF Next

\* The invariant holds in every behaviour.
LEMMA Invariant == Spec => []Inv
BY InitInv, NextInv, PTL DEF Spec

\* The variables stay in their types; provider_used never goes below 0, as an
\* unlock without a lock would make it.
THEOREM VfmTypes == Spec => []TypeOK
<1>1. Inv => TypeOK
  BY DEF Inv
<1> QED
  BY <1>1, Invariant, PTL

\* use_cnt is the number of a provider's users, CLOSED_CNT apart.
THEOREM VfmUsersCounted == Spec => []UsersCounted
<1>1. Inv => UsersCounted
  BY DEF Inv, Counted, UsersCounted, Closed, IsClosed, Fresh
<1> QED
  BY <1>1, Invariant, PTL

\* No operation of a provider runs once its receiver was told that it is gone.
THEOREM VfmNoOpOnceTold == Spec => []NoOpOnceTold
<1>1. Inv => NoOpOnceTold
  BY DEF Inv, NoOps, NoOpOnceTold
<1> QED
  BY <1>1, Invariant, PTL

\* After unregistration no getter has the provider's address.
THEOREM VfmGettersGone == Spec => []GettersGone
<1>1. Inv => GettersGone
  BY DEF Inv
<1> QED
  BY <1>1, Invariant, PTL

\* When the owners are at rest the path leads to the registered providers only.
THEOREM VfmPathCurrent == Spec => []PathCurrent
<1>1. Inv => PathCurrent
  BY VfmAssumption DEF Inv, RegisteredAt, PathInv, PathCurrent
<1> QED
  BY <1>1, Invariant, PTL
=============================================================================
