-------------------------- MODULE MediaKeeperProofs --------------------------
(***************************************************************************)
(* Proofs about MediaKeeper, for any holders, memory, writers and length   *)
(* of the list, and for every use: types, that the keeper's references are *)
(* balanced, and that what is held is kept.                                *)
(***************************************************************************)
EXTENDS MediaKeeper, FiniteSetTheorems, WellFoundedInduction, TLAPS

\* What a call has in hand at the places where it uses it.
InHand ==
  /\ \A u \in Holders : pc[u] = "mask" => mem[u] \in Handles
  /\ \A f \in Freers : fpc[f] = "release" => freed[f] \in Handles

Inv == TypeOK /\ InHand /\ ReferencesBalanced

-----------------------------------------------------------------------------
\* The list has a first slot among any.
LEMMA Smallest ==
  ASSUME NEW T \in SUBSET Nat, T # {}
  PROVE  \E x \in T : \A y \in T : x <= y
<1>1. PICK x \in T : \A y \in T : <<y, x>> \notin OpToRel(<, Nat)
  BY NatLessThanWellFounded, WFMin
<1>2. \A y \in T : ~(y < x)
  BY <1>1 DEF OpToRel
<1> QED
  BY <1>2

LEMMA FirstEmptyIsEmpty == Empty # {} => FirstEmpty \in Empty
<1>1. Empty \in SUBSET Nat
  BY KeeperAssumption DEF Empty, Slots
<1> QED
  BY <1>1, Smallest DEF FirstEmpty

LEMMA FirstWithIdHasIt ==
  ASSUME NEW k, WithId(k) # {}
  PROVE  FirstWithId(k) \in WithId(k)
<1>1. WithId(k) \in SUBSET Nat
  BY KeeperAssumption DEF WithId, Slots
<1> QED
  BY <1>1, Smallest DEF FirstWithId

\* A set that one element joins or leaves.
LEMMA Counting ==
  ASSUME NEW S, IsFiniteSet(S), NEW T \in SUBSET S, NEW x
  PROVE  /\ Cardinality(T) \in Nat
         /\ x \notin T => Cardinality(T \cup {x}) = Cardinality(T) + 1
         /\ x \in T => Cardinality(T \ {x}) = Cardinality(T) - 1
<1>1. IsFiniteSet(T)
  BY FS_Subset
<1>2. Cardinality(T) \in Nat
  BY <1>1, FS_CardinalityType
<1>3. x \notin T => Cardinality(T \cup {x}) = Cardinality(T) + 1
  BY <1>1, FS_AddElement
<1>4. x \in T => Cardinality(T \ {x}) = Cardinality(T) - 1
  BY <1>1, FS_RemoveElement
<1> QED
  BY <1>2, <1>3, <1>4

LEMMA ActorsFinite == IsFiniteSet(Slots) /\ IsFiniteSet(Freers) /\ IsFiniteSet(Holders)
<1>1. IsFiniteSet(Slots)
  BY KeeperAssumption, FS_Interval DEF Slots
<1>2. IsFiniteSet(Writers \cup {Monitor})
  BY KeeperAssumption, FS_AddElement
<1>3. Freers = Writers \cup {Monitor}
  BY DEF Freers
<1> QED
  BY <1>1, <1>2, <1>3, KeeperAssumption

\* The three counts, now and in the next state, whoever joins or leaves.
LEMMA Counts ==
  ASSUME NEW h, NEW x
  PROVE  /\ Cardinality(SlotsOf(h)) \in Nat /\ Cardinality(SlotsOf(h)') \in Nat
         /\ Cardinality(Asking(h)) \in Nat /\ Cardinality(Asking(h)') \in Nat
         /\ Cardinality(Releasing(h)) \in Nat /\ Cardinality(Releasing(h)') \in Nat
         /\ x \notin SlotsOf(h) => Cardinality(SlotsOf(h) \cup {x}) = Cardinality(SlotsOf(h)) + 1
         /\ x \in SlotsOf(h) => Cardinality(SlotsOf(h) \ {x}) = Cardinality(SlotsOf(h)) - 1
         /\ x \notin Asking(h) => Cardinality(Asking(h) \cup {x}) = Cardinality(Asking(h)) + 1
         /\ x \in Asking(h) => Cardinality(Asking(h) \ {x}) = Cardinality(Asking(h)) - 1
         /\ x \notin Releasing(h) =>
              Cardinality(Releasing(h) \cup {x}) = Cardinality(Releasing(h)) + 1
         /\ x \in Releasing(h) => Cardinality(Releasing(h) \ {x}) = Cardinality(Releasing(h)) - 1
<1>1. /\ SlotsOf(h) \in SUBSET Slots /\ SlotsOf(h)' \in SUBSET Slots
      /\ Asking(h) \in SUBSET Holders /\ Asking(h)' \in SUBSET Holders
      /\ Releasing(h) \in SUBSET Freers /\ Releasing(h)' \in SUBSET Freers
  BY DEF SlotsOf, Asking, Releasing
<1>2. /\ Cardinality(SlotsOf(h)) \in Nat /\ Cardinality(SlotsOf(h)') \in Nat
      /\ x \notin SlotsOf(h) => Cardinality(SlotsOf(h) \cup {x}) = Cardinality(SlotsOf(h)) + 1
      /\ x \in SlotsOf(h) => Cardinality(SlotsOf(h) \ {x}) = Cardinality(SlotsOf(h)) - 1
  BY <1>1, ActorsFinite, Counting
<1>3. /\ Cardinality(Asking(h)) \in Nat /\ Cardinality(Asking(h)') \in Nat
      /\ x \notin Asking(h) => Cardinality(Asking(h) \cup {x}) = Cardinality(Asking(h)) + 1
      /\ x \in Asking(h) => Cardinality(Asking(h) \ {x}) = Cardinality(Asking(h)) - 1
  BY <1>1, ActorsFinite, Counting
<1>4. /\ Cardinality(Releasing(h)) \in Nat /\ Cardinality(Releasing(h)') \in Nat
      /\ x \notin Releasing(h) => Cardinality(Releasing(h) \cup {x}) = Cardinality(Releasing(h)) + 1
      /\ x \in Releasing(h) => Cardinality(Releasing(h) \ {x}) = Cardinality(Releasing(h)) - 1
  BY <1>1, ActorsFinite, Counting
<1> QED
  BY <1>2, <1>3, <1>4

LEMMA CountsAreNumbers ==
  ASSUME NEW h
  PROVE  /\ Cardinality(SlotsOf(h)) \in Nat /\ Cardinality(SlotsOf(h)') \in Nat
         /\ Cardinality(Asking(h)) \in Nat /\ Cardinality(Asking(h)') \in Nat
         /\ Cardinality(Releasing(h)) \in Nat /\ Cardinality(Releasing(h)') \in Nat
BY Counts

\* Balanced references are a sum of counts, so that they do not fall below 0.
LEMMA BalancedRefs ==
  ASSUME keeperRefs' \in [Handles -> Int], ReferencesBalanced'
  PROVE  keeperRefs' \in [Handles -> Nat]
<1>1. ASSUME NEW h \in Handles PROVE keeperRefs'[h] \in Nat
  <2>1. keeperRefs'[h] = Cardinality(SlotsOf(h)') + Cardinality(Asking(h)')
                         + Cardinality(Releasing(h)')
    BY DEF ReferencesBalanced
  <2>2. /\ Cardinality(SlotsOf(h)') \in Nat /\ Cardinality(Asking(h)') \in Nat
        /\ Cardinality(Releasing(h)') \in Nat
    BY Counts
  <2> QED
    BY <2>1, <2>2
<1> QED
  BY <1>1

\* Steps that touch neither the list, nor who asks and who releases.
LEMMA RefsUntouched ==
  ASSUME Inv, UNCHANGED <<handle, keeperRefs>>,
         \A h \in Handles : Asking(h)' = Asking(h) /\ Releasing(h)' = Releasing(h)
  PROVE  ReferencesBalanced'
BY DEF Inv, ReferencesBalanced, SlotsOf
-----------------------------------------------------------------------------
\* A call for h begins: its reference is the one more that is asking.
LEMMA RequestInv ==
  ASSUME Inv, NEW u \in Holders, NEW h \in Handles, Request(u, h)
  PROVE  Inv'
<1> USE DEF Inv
<1>1. /\ pc[u] = "idle" /\ pc' = [pc EXCEPT ![u] = "mask"] /\ mem' = [mem EXCEPT ![u] = h]
      /\ keeperRefs' = [keeperRefs EXCEPT ![h] = @ + 1] /\ old' = [old EXCEPT ![u] = id[u]]
      /\ UNCHANGED <<listVars, pending, id, ret, notify, freerVars, use>>
  BY DEF Request, At, Goes, Referenced
<1>2. ReferencesBalanced'
  <2> SUFFICES ASSUME NEW g \in Handles
               PROVE  keeperRefs'[g] = Cardinality(SlotsOf(g)') + Cardinality(Asking(g)')
                                       + Cardinality(Releasing(g)')
    BY DEF ReferencesBalanced
  <2>1. SlotsOf(g)' = SlotsOf(g) /\ Releasing(g)' = Releasing(g)
    BY <1>1 DEF SlotsOf, Releasing, listVars, freerVars
  <2>2. keeperRefs[g] = Cardinality(SlotsOf(g)) + Cardinality(Asking(g)) + Cardinality(Releasing(g))
    BY DEF ReferencesBalanced
  <2>3. CASE g = h
    <3>1. u \notin Asking(h) /\ Asking(h)' = Asking(h) \cup {u}
      BY <1>1 DEF Asking, TypeOK
    <3>2. keeperRefs'[h] = keeperRefs[h] + 1
      BY <1>1 DEF TypeOK
    <3>3. Cardinality(Asking(h)') = Cardinality(Asking(h)) + 1
      BY <3>1, Counts
    <3> QED
      BY <2>1, <2>2, <2>3, <3>2, <3>3, CountsAreNumbers
  <2>4. CASE g # h
    <3>1. Asking(g)' = Asking(g)
      BY <1>1, <2>4 DEF Asking, TypeOK
    <3>2. keeperRefs'[g] = keeperRefs[g]
      BY <1>1, <2>4 DEF TypeOK
    <3> QED
      BY <2>1, <2>2, <3>1, <3>2
  <2> QED
    BY <2>3, <2>4
<1>3. keeperRefs' \in [Handles -> Nat]
  BY <1>1, <1>2, BalancedRefs DEF TypeOK
<1>4. TypeOK'
  BY <1>1, <1>3 DEF TypeOK, listVars, freerVars
<1>5. InHand'
  BY <1>1 DEF InHand, TypeOK, freerVars
<1> QED
  BY <1>2, <1>4, <1>5

\* The reference goes with the memory into a slot, or back.
LEMMA MaskInv ==
  ASSUME Inv, NEW u \in Holders, Mask(u)
  PROVE  Inv'
<1> USE DEF Inv
<1>1. PICK h \in Handles : h = mem[u] /\ pc[u] = "mask"
  BY DEF Mask, At, InHand
<1> DEFINE fills == SlotsOf(h) = {} /\ Empty # {}
<1>2. PICK to \in {"idle", "unmask", "assign"} :
        /\ pc' = [pc EXCEPT ![u] = to] /\ mem' = [mem EXCEPT ![u] = None]
        /\ next_id' = next_id + 1
        /\ UNCHANGED <<due, pending, id, notify, freerVars, use>>
        /\ ret' \in [Holders -> Int] /\ old' \in [Holders -> Int]
  <2>1. /\ mem' = [mem EXCEPT ![u] = None] /\ next_id' = next_id + 1
        /\ UNCHANGED <<due, pending, id, notify, freerVars, use>>
    BY DEF Mask
  <2>2. CASE SlotsOf(h) = {} /\ Empty = {}
    BY <1>1, <2>1, <2>2 DEF Mask, Returns, Goes, TypeOK
  <2>3. CASE ~(SlotsOf(h) = {} /\ Empty = {})
    <3>1. PICK k \in IF SlotsOf(h) = {} THEN {next_id} ELSE {keep_id[i] : i \in SlotsOf(h)} :
            /\ ret' = [ret EXCEPT ![u] = k] /\ UNCHANGED old
            /\ Goes(u, IF old[u] > 0 /\ k # old[u] THEN "unmask" ELSE "assign")
      BY <1>1, <2>3 DEF Mask
    <3>2. k \in Int
      BY <3>1 DEF TypeOK, SlotsOf
    <3> QED
      BY <2>1, <3>1, <3>2 DEF Goes, TypeOK
  <2> QED
    BY <2>2, <2>3
<1>3. CASE fills
  <2> DEFINE i == FirstEmpty
  <2>1. i \in Slots /\ handle[i] = None
    BY <1>3, FirstEmptyIsEmpty DEF Empty
  <2>2. /\ handle' = [handle EXCEPT ![i] = h] /\ keep_id' = [keep_id EXCEPT ![i] = next_id]
        /\ user' = [user EXCEPT ![i] = 1] /\ num' = num + 1 /\ UNCHANGED keeperRefs
    BY <1>1, <1>3 DEF Mask
  <2> HIDE DEF i
  <2>3. TypeOK'
    BY <1>1, <1>2, <2>1, <2>2 DEF TypeOK, freerVars
  <2>4. ReferencesBalanced'
    <3> SUFFICES ASSUME NEW g \in Handles
                 PROVE  keeperRefs'[g] = Cardinality(SlotsOf(g)') + Cardinality(Asking(g)')
                                         + Cardinality(Releasing(g)')
      BY DEF ReferencesBalanced
    <3>1. Releasing(g)' = Releasing(g)
      BY <1>2 DEF Releasing, freerVars
    <3>2. keeperRefs'[g] = Cardinality(SlotsOf(g)) + Cardinality(Asking(g))
                           + Cardinality(Releasing(g))
      BY <2>2 DEF ReferencesBalanced
    <3>3. CASE g = h
      <4>1. u \in Asking(h) /\ Asking(h)' = Asking(h) \ {u}
        BY <1>1, <1>2 DEF Asking, TypeOK
      <4>2. i \notin SlotsOf(h) /\ SlotsOf(h)' = SlotsOf(h) \cup {i}
        BY <1>1, <2>1, <2>2, KeeperAssumption DEF SlotsOf, TypeOK
      <4>3. /\ Cardinality(Asking(h)') = Cardinality(Asking(h)) - 1
            /\ Cardinality(SlotsOf(h)') = Cardinality(SlotsOf(h)) + 1
        BY <4>1, <4>2, Counts
      <4> QED
        BY <3>1, <3>2, <3>3, <4>3, CountsAreNumbers
    <3>4. CASE g # h
      <4>1. Asking(g)' = Asking(g) /\ SlotsOf(g)' = SlotsOf(g)
        BY <1>1, <1>2, <2>1, <2>2, <3>4, KeeperAssumption DEF Asking, SlotsOf, TypeOK
      <4> QED
        BY <3>1, <3>2, <4>1
    <3> QED
      BY <3>3, <3>4
  <2>5. InHand'
    BY <1>2 DEF InHand, TypeOK, freerVars
  <2> QED
    BY <2>3, <2>4, <2>5
<1>4. CASE ~fills
  <2>1. keeperRefs' = [keeperRefs EXCEPT ![h] = @ - 1] /\ UNCHANGED <<handle, keep_id, user, num>>
    BY <1>1, <1>4 DEF Mask, TakenBack, Dereferenced
  <2>2. ReferencesBalanced'
    <3> SUFFICES ASSUME NEW g \in Handles
                 PROVE  keeperRefs'[g] = Cardinality(SlotsOf(g)') + Cardinality(Asking(g)')
                                         + Cardinality(Releasing(g)')
      BY DEF ReferencesBalanced
    <3>1. Releasing(g)' = Releasing(g) /\ SlotsOf(g)' = SlotsOf(g)
      BY <1>2, <2>1 DEF Releasing, SlotsOf, freerVars
    <3>2. keeperRefs[g] = Cardinality(SlotsOf(g)) + Cardinality(Asking(g))
                          + Cardinality(Releasing(g))
      BY DEF ReferencesBalanced
    <3>3. CASE g = h
      <4>1. u \in Asking(h) /\ Asking(h)' = Asking(h) \ {u}
        BY <1>1, <1>2 DEF Asking, TypeOK
      <4>2. Cardinality(Asking(h)') = Cardinality(Asking(h)) - 1
        BY <4>1, Counts
      <4>3. keeperRefs'[h] = keeperRefs[h] - 1
        BY <1>1, <2>1 DEF TypeOK
      <4> QED
        BY <3>1, <3>2, <3>3, <4>2, <4>3, CountsAreNumbers
    <3>4. CASE g # h
      <4>1. Asking(g)' = Asking(g) /\ keeperRefs'[g] = keeperRefs[g]
        BY <1>1, <1>2, <2>1, <3>4 DEF Asking, TypeOK
      <4> QED
        BY <3>1, <3>2, <4>1
    <3> QED
      BY <3>3, <3>4
  <2>3. keeperRefs' \in [Handles -> Nat]
    BY <1>1, <2>1, <2>2, BalancedRefs DEF TypeOK
  <2>4. TypeOK'
    BY <1>2, <2>1, <2>3 DEF TypeOK, freerVars
  <2>5. InHand'
    BY <1>2 DEF InHand, TypeOK, freerVars
  <2> QED
    BY <2>2, <2>4, <2>5
<1> QED
  BY <1>3, <1>4
-----------------------------------------------------------------------------
\* The other steps of the holders leave memory and references alone.
LEMMA UnmaskTypes ==
  ASSUME TypeOK, NEW k, Unmask(k)
  PROVE  user' \in [Slots -> Int] /\ due' \subseteq Slots
<1>1. CASE WithId(k) = {}
  BY <1>1 DEF Unmask, TypeOK
<1>2. CASE WithId(k) # {}
  <2>1. FirstWithId(k) \in Slots
    BY <1>2, FirstWithIdHasIt DEF WithId
  <2> QED
    BY <1>2, <2>1 DEF Unmask, TypeOK
<1> QED
  BY <1>1, <1>2

LEMMA UnmaskOldInv ==
  ASSUME Inv, NEW u \in Holders, UnmaskOld(u)
  PROVE  Inv'
<1> USE DEF Inv
<1>1. /\ pc[u] = "unmask" /\ pc' = [pc EXCEPT ![u] = "schedule"]
      /\ UNCHANGED <<handle, keep_id, num, next_id, pending, keeperRefs>>
      /\ UNCHANGED <<id, mem, ret, old, notify, freerVars, use>>
  BY DEF UnmaskOld, At, Goes
<1>2. user' \in [Slots -> Int] /\ due' \subseteq Slots
  BY UnmaskTypes DEF UnmaskOld
<1>3. TypeOK'
  BY <1>1, <1>2 DEF TypeOK, freerVars
<1>4. InHand'
  BY <1>1 DEF InHand, TypeOK, freerVars
<1>5. ASSUME NEW h \in Handles PROVE Asking(h)' = Asking(h) /\ Releasing(h)' = Releasing(h)
  BY <1>1 DEF Asking, Releasing, TypeOK, freerVars
<1>6. ReferencesBalanced'
  BY <1>1, <1>5, RefsUntouched
<1> QED
  BY <1>3, <1>4, <1>6

LEMMA AssignInv ==
  ASSUME Inv, NEW u \in Holders, Assign(u)
  PROVE  Inv'
<1> USE DEF Inv
<1>1. /\ pc[u] \in {"schedule", "assign"} /\ pc' = [pc EXCEPT ![u] = "idle"]
      /\ ret' = [ret EXCEPT ![u] = 0] /\ old' = [old EXCEPT ![u] = 0]
      /\ id' = [id EXCEPT ![u] = ret[u]]
      /\ UNCHANGED <<listVars, keeperRefs, mem, notify, freerVars, use>>
  BY DEF Assign, Returns, Goes
<1>2. pending' \in BOOLEAN
  BY DEF Assign, TypeOK
<1>3. TypeOK'
  BY <1>1, <1>2 DEF TypeOK, listVars, freerVars
<1>4. InHand'
  BY <1>1 DEF InHand, TypeOK, freerVars
<1>5. ASSUME NEW h \in Handles PROVE Asking(h)' = Asking(h) /\ Releasing(h)' = Releasing(h)
  BY <1>1 DEF Asking, Releasing, TypeOK, freerVars
<1>6. ReferencesBalanced'
  BY <1>1, <1>5, RefsUntouched DEF listVars
<1> QED
  BY <1>3, <1>4, <1>6

LEMMA NotifyInv ==
  ASSUME Inv, NEW u \in Holders, Notify(u) \/ NotifyClear(u)
  PROVE  Inv'
<1> USE DEF Inv
<1>1. UNCHANGED <<handle, keep_id, num, next_id, keeperRefs, pc, mem, ret, old, freerVars, use>>
  BY DEF Notify, NotifyClear, listVars
<1>2. /\ user' \in [Slots -> Int] /\ due' \subseteq Slots /\ pending' \in BOOLEAN
      /\ id' \in [Holders -> Int] /\ notify' \in [Holders -> {"idle", "clear"}]
  <2>1. CASE Notify(u)
    BY <2>1, UnmaskTypes DEF Notify, TypeOK
  <2>2. CASE NotifyClear(u)
    BY <2>2 DEF NotifyClear, Scheduled, TypeOK, listVars
  <2> QED
    BY <2>1, <2>2
<1>3. TypeOK'
  BY <1>1, <1>2 DEF TypeOK, freerVars
<1>4. InHand'
  BY <1>1 DEF InHand, freerVars
<1>5. ASSUME NEW h \in Handles PROVE Asking(h)' = Asking(h) /\ Releasing(h)' = Releasing(h)
  BY <1>1 DEF Asking, Releasing, freerVars
<1>6. ReferencesBalanced'
  BY <1>1, <1>5, RefsUntouched
<1> QED
  BY <1>3, <1>4, <1>6

LEMMA ElapseInv ==
  ASSUME Inv, NEW i \in Slots, Elapse(i)
  PROVE  Inv'
<1> USE DEF Inv
<1>1. /\ due' = due \cup {i}
      /\ UNCHANGED <<handle, keep_id, user, num, next_id, pending, keeperRefs, use>>
      /\ UNCHANGED <<holderVars, freerVars>>
  BY DEF Elapse
<1>2. TypeOK'
  BY <1>1 DEF TypeOK, holderVars, freerVars
<1>3. InHand'
  BY <1>1 DEF InHand, holderVars, freerVars
<1>4. ASSUME NEW h \in Handles PROVE Asking(h)' = Asking(h) /\ Releasing(h)' = Releasing(h)
  BY <1>1 DEF Asking, Releasing, holderVars, freerVars
<1>5. ReferencesBalanced'
  BY <1>1, <1>4, RefsUntouched
<1> QED
  BY <1>2, <1>3, <1>5
-----------------------------------------------------------------------------
\* Where a freer goes behind a slot, it has nothing to release.
LEMMA FollowingTypes ==
  ASSUME TypeOK, NEW f \in Freers, Following(f)
  PROVE  /\ timeAfter' \in [Freers -> BOOLEAN] /\ force' \in [Freers -> 0..2]
         /\ index' \in [Freers -> Slots] /\ freed' = [freed EXCEPT ![f] = None]
         /\ \E to \in {"time", "again", "idle"} : fpc' = [fpc EXCEPT ![f] = to]
<1>1. timeAfter' \in [Freers -> BOOLEAN] /\ freed' = [freed EXCEPT ![f] = None]
  BY DEF Following, TypeOK
<1>2. CASE index[f] < MAX_KEEP_FRAME
  <2>1. index[f] + 1 \in Slots
    BY <1>2, KeeperAssumption DEF TypeOK, Slots
  <2> QED
    BY <1>1, <1>2, <2>1 DEF Following, TypeOK
<1>3. CASE ~(index[f] < MAX_KEEP_FRAME)
  <2>1. 1 \in Slots
    BY KeeperAssumption DEF Slots
  <2>2. /\ index' = [index EXCEPT ![f] = 1] /\ force' = [force EXCEPT ![f] = 0]
        /\ fpc' = [fpc EXCEPT ![f] = IF f = Monitor THEN "again" ELSE "idle"]
    BY <1>3 DEF Following
  <2>3. index' \in [Freers -> Slots] /\ force' \in [Freers -> 0..2]
    BY <2>1, <2>2 DEF TypeOK
  <2>4. \E to \in {"time", "again", "idle"} : fpc' = [fpc EXCEPT ![f] = to]
    BY <2>2
  <2> QED
    BY <1>1, <2>3, <2>4
<1> QED
  BY <1>2, <1>3

\* A freer that is not about to release moves on to a place where it is not
\* either, and leaves list and references alone.
LEMMA FreerMoves ==
  ASSUME Inv, NEW f \in Freers, fpc[f] # "release",
         NEW to \in {"idle", "time", "user", "free", "again"}, fpc' = [fpc EXCEPT ![f] = to],
         freed' \in [Freers -> Handles \cup {None}],
         \A g \in Freers \ {f} : freed'[g] = freed[g],
         timeAfter' \in [Freers -> BOOLEAN], force' \in [Freers -> 0..2],
         index' \in [Freers -> Slots], pending' \in BOOLEAN,
         UNCHANGED <<listVars, keeperRefs, holderVars, use>>
  PROVE  Inv'
<1> USE DEF Inv
<1>1. TypeOK'
  BY DEF TypeOK, listVars, holderVars
<1>2. InHand'
  BY DEF InHand, TypeOK, holderVars
<1>3. ASSUME NEW h \in Handles PROVE Asking(h)' = Asking(h) /\ Releasing(h)' = Releasing(h)
  <2>1. Asking(h)' = Asking(h)
    BY DEF Asking, holderVars
  <2>2. Releasing(h)' = Releasing(h)
    BY DEF Releasing, TypeOK
  <2> QED
    BY <2>1, <2>2
<1>4. ReferencesBalanced'
  BY <1>3, RefsUntouched DEF listVars
<1> QED
  BY <1>1, <1>2, <1>4

LEMMA FreeAllInv ==
  ASSUME Inv, MonitorRuns \/ \E f \in Writers : WriterForces(f)
  PROVE  Inv'
<1> USE DEF Inv
<1>1. PICK f \in Freers, value \in 0..2 : FreeAll(f, value) /\ pending' \in BOOLEAN
  <2>1. CASE MonitorRuns
    <3>1. Monitor \in Freers /\ 0 \in 0..2 /\ pending' = FALSE /\ FreeAll(Monitor, 0)
      BY <2>1 DEF MonitorRuns, Freers
    <3> QED
      BY <3>1
  <2>2. CASE \E f \in Writers : WriterForces(f)
    <3>1. PICK f \in Writers : WriterForces(f)
      BY <2>2
    <3>2. PICK value \in use.forced : FreeAll(f, value) /\ UNCHANGED pending
      BY <3>1 DEF WriterForces
    <3>3. use.forced \subseteq 0..2
      BY KeeperAssumption DEF Use, TypeOK
    <3> QED
      BY <3>2, <3>3 DEF Freers, TypeOK
  <2> QED
    BY <2>1, <2>2
<1>2. /\ fpc[f] = "idle" /\ fpc' = [fpc EXCEPT ![f] = "time"]
      /\ force' = [force EXCEPT ![f] = value]
      /\ UNCHANGED <<listVars, keeperRefs, holderVars, index, timeAfter, freed, use>>
  BY <1>1 DEF FreeAll
<1>3. force' \in [Freers -> 0..2]
  BY <1>2 DEF TypeOK
<1> QED
  BY <1>1, <1>2, <1>3, FreerMoves DEF TypeOK

\* An array of Booleans that is told whether an element is in a set.
LEMMA WhetherIn ==
  ASSUME NEW S, NEW x, NEW D, NEW g \in [D -> BOOLEAN], NEW d \in D
  PROVE  [g EXCEPT ![d] = x \in S] \in [D -> BOOLEAN]
BY SMT

LEMMA LooksInv ==
  ASSUME Inv, NEW f \in Freers, LookTime(f) \/ LookUser(f)
  PROVE  Inv'
<1> USE DEF Inv
<1>1. /\ fpc[f] # "release" /\ pending' \in BOOLEAN
      /\ UNCHANGED <<listVars, keeperRefs, holderVars, use>>
  BY DEF LookTime, LookUser, TypeOK
<1>2. CASE Following(f)
  <2>1. PICK to \in {"time", "again", "idle"} : fpc' = [fpc EXCEPT ![f] = to]
    BY <1>2, FollowingTypes
  <2>2. /\ timeAfter' \in [Freers -> BOOLEAN] /\ force' \in [Freers -> 0..2]
        /\ index' \in [Freers -> Slots] /\ freed' = [freed EXCEPT ![f] = None]
    BY <1>2, FollowingTypes
  <2> QED
    BY <1>1, <2>1, <2>2, FreerMoves DEF TypeOK
<1>3. CASE ~Following(f)
  <2>1. PICK to \in {"user", "free"} : fpc' = [fpc EXCEPT ![f] = to] /\ UNCHANGED <<index, force, freed>>
    <3>1. CASE LookTime(f)
      <4>1. fpc' = [fpc EXCEPT ![f] = "user"] /\ UNCHANGED <<index, force, freed>>
        BY <1>3, <3>1 DEF LookTime, Stays
      <4> QED
        BY <4>1
    <3>2. CASE LookUser(f)
      <4>1. fpc' = [fpc EXCEPT ![f] = "free"] /\ UNCHANGED <<index, force, freed>>
        BY <1>3, <3>2 DEF LookUser, Stays
      <4> QED
        BY <4>1
    <3> QED
      BY <3>1, <3>2
  <2>2. timeAfter' \in [Freers -> BOOLEAN]
    <3>1. CASE LookTime(f)
      <4>1. timeAfter' = [timeAfter EXCEPT ![f] = index[f] \in due]
        BY <1>3, <3>1 DEF LookTime
      <4>2. timeAfter \in [Freers -> BOOLEAN]
        BY DEF TypeOK
      <4>3. [timeAfter EXCEPT ![f] = index[f] \in due] \in [Freers -> BOOLEAN]
        BY <4>2, WhetherIn, Zenon
      <4> QED
        BY <4>1, <4>3, Zenon
    <3>2. CASE LookUser(f)
      BY <1>3, <3>2 DEF LookUser, TypeOK
    <3> QED
      BY <3>1, <3>2
  <2> QED
    BY <1>1, <2>1, <2>2, FreerMoves DEF TypeOK
<1> QED
  BY <1>2, <1>3

LEMMA MonitorAgainInv ==
  ASSUME Inv, MonitorAgain
  PROVE  Inv'
<1>1. /\ fpc[Monitor] = "again" /\ fpc' = [fpc EXCEPT ![Monitor] = "idle"] /\ pending' \in BOOLEAN
      /\ UNCHANGED <<listVars, keeperRefs, holderVars, index, timeAfter, force, freed, use>>
  BY DEF MonitorAgain, Inv, TypeOK
<1> QED
  BY <1>1, FreerMoves DEF Inv, TypeOK, Freers
-----------------------------------------------------------------------------
\* What is taken out of a slot is with the freer that has to release it.
LEMMA FreeKeepInv ==
  ASSUME Inv, NEW f \in Freers, FreeKeep(f)
  PROVE  Inv'
<1> USE DEF Inv
<1> DEFINE i == index[f]
<1>1. /\ i \in Slots /\ fpc[f] = "free" /\ handle' = [handle EXCEPT ![i] = None]
      /\ due' = due \cup {i} /\ num' = num - 1
      /\ UNCHANGED <<keep_id, user, next_id, pending, keeperRefs, holderVars, use>>
  BY DEF FreeKeep, TakenOut, TypeOK
<1>2. CASE handle[i] = None
  <2>1. Following(f)
    BY <1>2 DEF FreeKeep
  <2>2. PICK to \in {"time", "again", "idle"} : fpc' = [fpc EXCEPT ![f] = to]
    BY <2>1, FollowingTypes
  <2>3. /\ timeAfter' \in [Freers -> BOOLEAN] /\ force' \in [Freers -> 0..2]
        /\ index' \in [Freers -> Slots] /\ freed' = [freed EXCEPT ![f] = None]
    BY <2>1, FollowingTypes
  <2>4. TypeOK'
    BY <1>1, <2>2, <2>3 DEF TypeOK, holderVars
  <2>5. InHand'
    BY <1>1, <2>2, <2>3 DEF InHand, TypeOK, holderVars
  <2>6. handle' = handle
    BY <1>1, <1>2 DEF TypeOK
  <2>7. ASSUME NEW h \in Handles PROVE Asking(h)' = Asking(h) /\ Releasing(h)' = Releasing(h)
    <3>1. Asking(h)' = Asking(h)
      BY <1>1 DEF Asking, holderVars
    <3>2. Releasing(h)' = Releasing(h)
      BY <1>1, <2>2, <2>3 DEF Releasing, TypeOK
    <3> QED
      BY <3>1, <3>2
  <2>8. ReferencesBalanced'
    BY <1>1, <2>6, <2>7, RefsUntouched
  <2> QED
    BY <2>4, <2>5, <2>8
<1>3. CASE handle[i] # None
  <2>1. PICK h \in Handles : h = handle[i]
    BY <1>1, <1>3 DEF TypeOK
  <2>2. /\ fpc' = [fpc EXCEPT ![f] = "release"] /\ freed' = [freed EXCEPT ![f] = h]
        /\ UNCHANGED <<index, force, timeAfter>>
    BY <1>3, <2>1 DEF FreeKeep, Stays
  <2>3. TypeOK'
    BY <1>1, <2>1, <2>2 DEF TypeOK, holderVars
  <2>4. InHand'
    BY <1>1, <2>2 DEF InHand, TypeOK, holderVars
  <2>5. ReferencesBalanced'
    <3> SUFFICES ASSUME NEW g \in Handles
                 PROVE  keeperRefs'[g] = Cardinality(SlotsOf(g)') + Cardinality(Asking(g)')
                                         + Cardinality(Releasing(g)')
      BY DEF ReferencesBalanced
    <3>1. Asking(g)' = Asking(g)
      BY <1>1 DEF Asking, holderVars
    <3>2. keeperRefs'[g] = Cardinality(SlotsOf(g)) + Cardinality(Asking(g))
                           + Cardinality(Releasing(g))
      BY <1>1 DEF ReferencesBalanced
    <3>3. CASE g = h
      <4>1. i \in SlotsOf(h) /\ SlotsOf(h)' = SlotsOf(h) \ {i}
        BY <1>1, <2>1, KeeperAssumption DEF SlotsOf, TypeOK
      <4>2. f \notin Releasing(h) /\ Releasing(h)' = Releasing(h) \cup {f}
        BY <1>1, <2>2 DEF Releasing, TypeOK
      <4>3. /\ Cardinality(SlotsOf(h)') = Cardinality(SlotsOf(h)) - 1
            /\ Cardinality(Releasing(h)') = Cardinality(Releasing(h)) + 1
        BY <4>1, <4>2, Counts
      <4> QED
        BY <3>1, <3>2, <3>3, <4>3, CountsAreNumbers
    <3>4. CASE g # h
      <4>1. SlotsOf(g)' = SlotsOf(g)
        BY <1>1, <2>1, <3>4, KeeperAssumption DEF SlotsOf, TypeOK
      <4>2. Releasing(g)' = Releasing(g)
        BY <1>1, <2>2, <3>4 DEF Releasing, TypeOK
      <4> QED
        BY <3>1, <3>2, <4>1, <4>2
    <3> QED
      BY <3>3, <3>4
  <2> QED
    BY <2>3, <2>4, <2>5
<1> QED
  BY <1>2, <1>3

\* It gives back what it took out, once.
LEMMA ReleaseInv ==
  ASSUME Inv, NEW f \in Freers, Release(f)
  PROVE  Inv'
<1> USE DEF Inv
<1>1. PICK h \in Handles : h = freed[f] /\ fpc[f] = "release"
  BY DEF Release, InHand
<1>2. /\ keeperRefs' = [keeperRefs EXCEPT ![h] = @ - 1] /\ Following(f)
      /\ UNCHANGED <<listVars, pending, holderVars, use>>
  BY <1>1 DEF Release, Dereferenced
<1>3. PICK to \in {"time", "again", "idle"} : fpc' = [fpc EXCEPT ![f] = to]
  BY <1>2, FollowingTypes
<1>4. /\ timeAfter' \in [Freers -> BOOLEAN] /\ force' \in [Freers -> 0..2]
      /\ index' \in [Freers -> Slots] /\ freed' = [freed EXCEPT ![f] = None]
  BY <1>2, FollowingTypes
<1>5. ReferencesBalanced'
  <2> SUFFICES ASSUME NEW g \in Handles
               PROVE  keeperRefs'[g] = Cardinality(SlotsOf(g)') + Cardinality(Asking(g)')
                                       + Cardinality(Releasing(g)')
    BY DEF ReferencesBalanced
  <2>1. Asking(g)' = Asking(g) /\ SlotsOf(g)' = SlotsOf(g)
    BY <1>2 DEF Asking, SlotsOf, holderVars, listVars
  <2>2. keeperRefs[g] = Cardinality(SlotsOf(g)) + Cardinality(Asking(g))
                        + Cardinality(Releasing(g))
    BY DEF ReferencesBalanced
  <2>3. CASE g = h
    <3>1. f \in Releasing(h) /\ Releasing(h)' = Releasing(h) \ {f}
      BY <1>1, <1>3, <1>4 DEF Releasing, TypeOK
    <3>2. Cardinality(Releasing(h)') = Cardinality(Releasing(h)) - 1
      BY <3>1, Counts
    <3>3. keeperRefs'[h] = keeperRefs[h] - 1
      BY <1>2 DEF TypeOK
    <3> QED
      BY <2>1, <2>2, <2>3, <3>2, <3>3, CountsAreNumbers
  <2>4. CASE g # h
    <3>1. Releasing(g)' = Releasing(g) /\ keeperRefs'[g] = keeperRefs[g]
      BY <1>1, <1>2, <1>3, <1>4, <2>4 DEF Releasing, TypeOK
    <3> QED
      BY <2>1, <2>2, <3>1
  <2> QED
    BY <2>3, <2>4
<1>6. keeperRefs' \in [Handles -> Nat]
  BY <1>2, <1>5, BalancedRefs DEF TypeOK
<1>7. TypeOK'
  BY <1>2, <1>3, <1>4, <1>6 DEF TypeOK, listVars, holderVars
<1>8. InHand'
  BY <1>1, <1>2, <1>3, <1>4 DEF InHand, TypeOK, holderVars
<1> QED
  BY <1>5, <1>7, <1>8
-----------------------------------------------------------------------------
LEMMA InitInv == Init => Inv
<1> SUFFICES ASSUME Init PROVE Inv
  OBVIOUS
<1>1. TypeOK
  <2>1. 1 \in Slots /\ START_KEEP_ID \in Nat
    BY KeeperAssumption DEF Slots
  <2>2. /\ handle \in [Slots -> Handles \cup {None}] /\ keep_id \in [Slots -> Nat]
        /\ user \in [Slots -> Int] /\ due \subseteq Slots
        /\ num \in Int /\ next_id \in Nat /\ pending \in BOOLEAN
        /\ keeperRefs \in [Handles -> Nat]
    <3>1. pending \in BOOLEAN /\ due \subseteq Slots /\ next_id \in Nat
      BY <2>1, Zenon DEF Init
    <3>2. num \in Int
      BY DEF Init
    <3>3. handle \in [Slots -> Handles \cup {None}]
      BY DEF Init
    <3>4. keep_id \in [Slots -> Nat] /\ user \in [Slots -> Int] /\ keeperRefs \in [Handles -> Nat]
      BY DEF Init
    <3> QED
      BY <3>1, <3>2, <3>3, <3>4
  <2>3. /\ id \in [Holders -> Int] /\ ret \in [Holders -> Int] /\ old \in [Holders -> Int]
        /\ pc \in [Holders -> {"idle", "mask", "unmask", "schedule", "assign"}]
        /\ mem \in [Holders -> Handles \cup {None}]
        /\ notify \in [Holders -> {"idle", "clear"}]
    BY DEF Init
  <2>4. /\ fpc \in [Freers -> {"idle", "time", "user", "free", "release", "again"}]
        /\ index \in [Freers -> Slots] /\ timeAfter \in [Freers -> BOOLEAN]
        /\ force \in [Freers -> 0..2] /\ freed \in [Freers -> Handles \cup {None}]
        /\ use \in Uses
    BY <2>1 DEF Init
  <2> QED
    BY <2>2, <2>3, <2>4 DEF TypeOK
<1>2. InHand
  BY DEF Init, InHand
<1>3. ASSUME NEW h \in Handles PROVE SlotsOf(h) = {} /\ Asking(h) = {} /\ Releasing(h) = {}
  BY KeeperAssumption DEF Init, SlotsOf, Asking, Releasing
<1>4. ReferencesBalanced
  <2> SUFFICES ASSUME NEW h \in Handles
               PROVE  keeperRefs[h] = Cardinality(SlotsOf(h)) + Cardinality(Asking(h))
                                      + Cardinality(Releasing(h))
    BY DEF ReferencesBalanced
  <2>1. keeperRefs[h] = 0
    BY DEF Init
  <2>2. Cardinality({}) = 0
    BY FS_EmptySet
  <2> QED
    BY <1>3, <2>1, <2>2
<1> QED
  BY <1>1, <1>2, <1>4 DEF Inv

LEMMA StutterInv == Inv /\ UNCHANGED vars => Inv'
<1> SUFFICES ASSUME Inv, UNCHANGED vars PROVE Inv'
  OBVIOUS
<1> USE DEF Inv, vars, listVars, holderVars, freerVars
<1>1. TypeOK' /\ InHand'
  BY DEF TypeOK, InHand
<1>2. ASSUME NEW h \in Handles PROVE Asking(h)' = Asking(h) /\ Releasing(h)' = Releasing(h)
  BY DEF Asking, Releasing
<1>3. ReferencesBalanced'
  BY <1>2, RefsUntouched
<1> QED
  BY <1>1, <1>3

LEMMA NextInv == Inv /\ [Next]_vars => Inv'
<1> SUFFICES ASSUME Inv, [Next]_vars PROVE Inv'
  OBVIOUS
<1>1. CASE \E h \in use.handles, u \in use.holders : Request(u, h)
  <2>1. use.holders \subseteq Holders /\ use.handles \subseteq Handles
    BY KeeperAssumption DEF Inv, TypeOK, Use
  <2> QED
    BY <1>1, <2>1, RequestInv
<1>2. CASE \E u \in Holders : HolderGoesOn(u) \/ Notify(u) \/ NotifyClear(u)
  BY <1>2, MaskInv, UnmaskOldInv, AssignInv, NotifyInv DEF HolderGoesOn
<1>3. CASE \E i \in Slots : Elapse(i)
  BY <1>3, ElapseInv
<1>4. CASE \E f \in Freers : FreerGoesOn(f)
  BY <1>4, LooksInv, FreeKeepInv, ReleaseInv DEF FreerGoesOn
<1>5. CASE MonitorRuns \/ MonitorAgain \/ \E f \in Writers : WriterForces(f)
  BY <1>5, FreeAllInv, MonitorAgainInv
<1>6. CASE UNCHANGED vars
  BY <1>6, StutterInv
<1> QED
  BY <1>1, <1>2, <1>3, <1>4, <1>5, <1>6 DEF Next

LEMMA Invariant == Spec => []Inv
<1>1. Init => Inv
  BY InitInv
<1>2. Inv /\ [Next]_vars => Inv'
  BY NextInv
<1> QED
  BY <1>1, <1>2, PTL DEF Spec

\* Every variable keeps its type; above all no reference is given back that the
\* keeper does not hold: a count never falls below zero, which would free
\* memory that its decoder still uses.
THEOREM KeeperTypes == Spec => []TypeOK
<1>1. Inv => TypeOK
  BY DEF Inv
<1> QED
  BY <1>1, Invariant, PTL

\* However calls, interrupts, the work and forced freeing interleave, and
\* whichever memory is kept twice, the keeper has one reference for each slot,
\* each call that asks and each that has taken memory out.
THEOREM KeeperReferencesBalanced == Spec => []ReferencesBalanced
<1>1. Inv => ReferencesBalanced
  BY DEF Inv
<1> QED
  BY <1>1, Invariant, PTL
-----------------------------------------------------------------------------
(***************************************************************************)
(* What is held is kept, where nothing is kept twice and no freeing forced *)
(***************************************************************************)
Simple == ~use.rekeep /\ use.forced = {}

\* Ids are given out once; a slot keeps its id until it is filled again.
IdsInv ==
  /\ next_id >= START_KEEP_ID
  /\ \A i \in Slots :
       /\ user[i] <= 1 /\ keep_id[i] < next_id
       /\ handle[i] # None => keep_id[i] >= START_KEEP_ID
  /\ \A i, j \in Slots : keep_id[i] = keep_id[j] /\ keep_id[i] >= START_KEEP_ID => i = j

\* What a call is about to keep is in no slot, and no other call asks for it.
AskingInv ==
  /\ \A u \in Holders : pc[u] = "mask" => \A i \in Slots : handle[i] # mem[u]
  /\ \A u, v \in Holders : pc[u] = "mask" /\ pc[v] = "mask" /\ mem[u] = mem[v] => u = v

\* Only the work frees, and only what has no user: a slot that it has found
\* occupied stays so, and a slot without a user does not get one.
FreeingInv ==
  /\ \A f \in Writers : fpc[f] = "idle"
  /\ force[Monitor] = 0
  /\ fpc[Monitor] \in {"user", "free"} => handle[index[Monitor]] # None
  /\ fpc[Monitor] = "free" => user[index[Monitor]] <= 0

\* The ids a holder may unmask are its own.
Mine(u) == {id[u], old[u], ret[u]}
Replacing(u) == pc[u] \in {"unmask", "schedule", "assign"}

HoldingInv ==
  /\ \A u \in Holders : Mine(u) \subseteq 0..(next_id - 1)
  /\ \A u, v \in Holders : u # v => Mine(u) \cap Mine(v) \subseteq {0}
  /\ \A u \in Holders :
       /\ Replacing(u) => ret[u] \in MaskedIds /\ ret[u] # id[u] /\ ret[u] # old[u]
       /\ ~Replacing(u) => ret[u] = 0
       /\ pc[u] # "schedule" /\ notify[u] = "idle" /\ id[u] > 0 => id[u] \in MaskedIds

\* Without interrupts an id is forgotten only after it was unmasked.
UndisturbedInv ==
  /\ \A u \in Holders :
       /\ pc[u] # "idle" => notify[u] = "idle" /\ old[u] = id[u]
       /\ pc[u] = "assign" => id[u] = 0
       /\ notify[u] = "clear" \/ pc[u] = "schedule" => id[u] \notin MaskedIds
  /\ \A k \in MaskedIds : \E u \in Holders : k \in {id[u], ret[u]}

Holds == IdsInv /\ AskingInv /\ FreeingInv /\ HoldingInv /\ (~use.interrupt => UndisturbedInv)

KInv == Inv /\ (Simple => Holds)

\* Unmasking an id takes it, and no other, from those that are masked.
LEMMA Unmasked ==
  ASSUME TypeOK, IdsInv, NEW k \in Int, Unmask(k), UNCHANGED <<handle, keep_id, next_id>>
  PROVE  /\ IdsInv' /\ k \notin MaskedIds'
         /\ \A i \in Slots : user'[i] <= user[i]
         /\ \A x : x # k => (x \in MaskedIds' <=> x \in MaskedIds)
         /\ MaskedIds' \subseteq MaskedIds
<1>1. /\ user \in [Slots -> Int] /\ keep_id \in [Slots -> Nat] /\ START_KEEP_ID \in Nat \ {0}
  BY KeeperAssumption DEF TypeOK
<1>2. /\ \A i \in Slots : user[i] <= 1 /\ (handle[i] # None => keep_id[i] >= START_KEEP_ID)
      /\ \A i, j \in Slots : keep_id[i] = keep_id[j] /\ keep_id[i] >= START_KEEP_ID => i = j
  BY DEF IdsInv
<1>3. CASE WithId(k) = {}
  <2>1. user' = user
    BY <1>3 DEF Unmask
  <2>2. MaskedIds' = MaskedIds
    BY <2>1 DEF MaskedIds
  <2>3. k \notin MaskedIds
    BY <1>2, <1>3 DEF MaskedIds, WithId
  <2>4. IdsInv'
    BY <2>1 DEF IdsInv
  <2> QED
    BY <1>1, <2>1, <2>2, <2>3, <2>4
<1>4. CASE WithId(k) # {}
  <2>1. PICK s \in Slots : s = FirstWithId(k) /\ keep_id[s] = k /\ k >= START_KEEP_ID
    BY <1>4, FirstWithIdHasIt DEF WithId
  <2>2. user' = [user EXCEPT ![s] = user[s] - 1]
    BY <1>4, <2>1 DEF Unmask
  <2>3. user'[s] <= 0 /\ \A i \in Slots \ {s} : user'[i] = user[i]
    BY <1>1, <1>2, <2>2
  <2>4. \A i \in Slots : user'[i] <= user[i]
    <3> TAKE i \in Slots
    <3>1. user[i] \in Int /\ (i # s => user'[i] = user[i]) /\ user'[s] = user[s] - 1
      BY <1>1, <2>2, <2>3
    <3> QED
      BY <3>1
  <2>5. user' \in [Slots -> Int]
    BY <1>1, <2>2
  <2>6. k \notin MaskedIds'
    <3> SUFFICES ASSUME NEW i \in Slots, keep_id[i] = k, user'[i] > 0 PROVE FALSE
      BY DEF MaskedIds
    <3>1. i = s
      BY <1>2, <2>1
    <3> QED
      BY <1>1, <2>3, <2>5, <3>1
  <2>7. \A x : x # k => (x \in MaskedIds' <=> x \in MaskedIds)
    BY <2>1, <2>3 DEF MaskedIds
  <2>8. IdsInv'
    <3>1. \A i \in Slots : user'[i] <= 1
      BY <1>1, <1>2, <2>4, <2>5
    <3> QED
      BY <3>1 DEF IdsInv
  <2> QED
    BY <2>4, <2>6, <2>7, <2>8
<1> QED
  BY <1>3, <1>4

\* Steps that change neither the list nor the holders.
LEMMA HoldersUntouched ==
  ASSUME Holds, UNCHANGED <<handle, keep_id, user, next_id, holderVars, use>>
  PROVE  IdsInv' /\ AskingInv' /\ HoldingInv' /\ (~use'.interrupt => UndisturbedInv')
<1>1. IdsInv'
  BY DEF Holds, IdsInv
<1>2. AskingInv'
  BY DEF Holds, AskingInv, holderVars
<1>3. MaskedIds' = MaskedIds
  BY DEF MaskedIds
<1>4. HoldingInv'
  BY <1>3 DEF Holds, HoldingInv, Mine, Replacing, holderVars
<1>5. ~use'.interrupt => UndisturbedInv'
  BY <1>3 DEF Holds, UndisturbedInv, holderVars
<1> QED
  BY <1>1, <1>2, <1>4, <1>5

LEMMA RequestHolds ==
  ASSUME Inv, Simple, Holds, NEW u \in Holders, NEW h \in Handles, Request(u, h)
  PROVE  Holds'
<1>1. /\ pc[u] = "idle" /\ pc' = [pc EXCEPT ![u] = "mask"] /\ mem' = [mem EXCEPT ![u] = h]
      /\ old' = [old EXCEPT ![u] = id[u]] /\ (use.interrupt \/ notify[u] = "idle")
      /\ SlotsOf(h) = {} /\ Asking(h) = {}
      /\ UNCHANGED <<listVars, pending, id, ret, notify, freerVars, use>>
  BY DEF Request, At, Goes, Simple, Kept
<1>2. /\ pc \in [Holders -> {"idle", "mask", "unmask", "schedule", "assign"}]
      /\ mem \in [Holders -> Handles \cup {None}] /\ old \in [Holders -> Int]
  BY DEF Inv, TypeOK
<1>3. /\ pc'[u] = "mask" /\ mem'[u] = h /\ old'[u] = id[u]
      /\ \A v \in Holders \ {u} : pc'[v] = pc[v] /\ mem'[v] = mem[v] /\ old'[v] = old[v]
  BY <1>1, <1>2
<1>4. IdsInv' /\ FreeingInv'
  BY <1>1 DEF Holds, IdsInv, FreeingInv, listVars, freerVars
<1>5. MaskedIds' = MaskedIds
  BY <1>1 DEF MaskedIds, listVars
<1>6. AskingInv'
  <2>1. \A i \in Slots : handle[i] # h
    BY <1>1 DEF SlotsOf
  <2>2. \A v \in Holders : pc[v] = "mask" => mem[v] # h
    BY <1>1 DEF Asking
  <2> QED
    BY <1>1, <1>3, <2>1, <2>2 DEF Holds, AskingInv, listVars
<1>7. \A v \in Holders : Mine(v)' \subseteq Mine(v)
  BY <1>1, <1>3 DEF Mine
<1>8. HoldingInv'
  <2>1. \A v \in Holders : Mine(v)' \subseteq 0..(next_id' - 1)
    BY <1>1, <1>7 DEF Holds, HoldingInv, listVars
  <2>2. \A v, w \in Holders : v # w => Mine(v)' \cap Mine(w)' \subseteq {0}
    BY <1>7 DEF Holds, HoldingInv
  <2>3. \A v \in Holders :
          /\ Replacing(v)' => ret'[v] \in MaskedIds' /\ ret'[v] # id'[v] /\ ret'[v] # old'[v]
          /\ ~Replacing(v)' => ret'[v] = 0
          /\ pc'[v] # "schedule" /\ notify'[v] = "idle" /\ id'[v] > 0 => id'[v] \in MaskedIds'
    BY <1>1, <1>3, <1>5 DEF Holds, HoldingInv, Replacing
  <2> QED
    BY <2>1, <2>2, <2>3 DEF HoldingInv
<1>9. ~use'.interrupt => UndisturbedInv'
  BY <1>1, <1>3, <1>5 DEF Holds, UndisturbedInv
<1> QED
  BY <1>4, <1>6, <1>8, <1>9 DEF Holds

\* The memory gets a slot, with an id that nobody had before; or there is none.
LEMMA MaskHolds ==
  ASSUME Inv, Simple, Holds, NEW u \in Holders, Mask(u)
  PROVE  Holds'
<1>1. PICK h \in Handles : h = mem[u] /\ pc[u] = "mask"
  BY DEF Mask, At, Inv, InHand
<1>2. /\ pc \in [Holders -> {"idle", "mask", "unmask", "schedule", "assign"}]
      /\ mem \in [Holders -> Handles \cup {None}] /\ old \in [Holders -> Int]
      /\ ret \in [Holders -> Int] /\ next_id \in Nat /\ user \in [Slots -> Int]
      /\ keep_id \in [Slots -> Nat] /\ handle \in [Slots -> Handles \cup {None}]
      /\ START_KEEP_ID \in Nat \ {0} /\ id \in [Holders -> Int]
  BY KeeperAssumption DEF Inv, TypeOK
<1>3. SlotsOf(h) = {} /\ \A i \in Slots : handle[i] # h
  BY <1>1 DEF Holds, AskingInv, SlotsOf
<1>4. /\ next_id' = next_id + 1 /\ mem' = [mem EXCEPT ![u] = None]
      /\ UNCHANGED <<due, pending, id, notify, freerVars, use>>
  BY DEF Mask
<1>5. ret[u] = 0
  BY <1>1 DEF Holds, HoldingInv, Replacing
<1>6. \A v \in Holders : Mine(v) \subseteq 0..(next_id - 1)
  BY DEF Holds, HoldingInv
<1>7. CASE Empty = {}
  <2>1. /\ pc' = [pc EXCEPT ![u] = "idle"] /\ ret' = [ret EXCEPT ![u] = 0]
        /\ old' = [old EXCEPT ![u] = 0] /\ UNCHANGED <<handle, keep_id, user>>
    BY <1>1, <1>3, <1>7 DEF Mask, Returns, Goes
  <2>2. /\ pc'[u] = "idle" /\ ret'[u] = 0 /\ old'[u] = 0
        /\ \A v \in Holders \ {u} :
             pc'[v] = pc[v] /\ ret'[v] = ret[v] /\ old'[v] = old[v] /\ mem'[v] = mem[v]
    BY <1>2, <1>4, <2>1
  <2>3. MaskedIds' = MaskedIds
    BY <2>1 DEF MaskedIds
  <2>4. IdsInv'
    BY <1>2, <1>4, <2>1 DEF Holds, IdsInv
  <2>5. AskingInv' /\ FreeingInv'
    BY <1>4, <2>1, <2>2 DEF Holds, AskingInv, FreeingInv, freerVars
  <2>6. \A v \in Holders : Mine(v)' \subseteq Mine(v) \cup {0}
    BY <1>4, <2>2 DEF Mine
  <2>7. HoldingInv'
    <3>1. ASSUME NEW v \in Holders PROVE Mine(v)' \subseteq 0..(next_id' - 1)
      <4>1. 0..(next_id - 1) \subseteq 0..(next_id' - 1) /\ 0 \in 0..(next_id' - 1)
        BY <1>2, <1>4
      <4> QED
        BY <1>6, <2>6, <4>1
    <3>2. \A v, w \in Holders : v # w => Mine(v)' \cap Mine(w)' \subseteq {0}
      BY <2>6 DEF Holds, HoldingInv
    <3>3. \A v \in Holders :
            /\ Replacing(v)' => ret'[v] \in MaskedIds' /\ ret'[v] # id'[v] /\ ret'[v] # old'[v]
            /\ ~Replacing(v)' => ret'[v] = 0
            /\ pc'[v] # "schedule" /\ notify'[v] = "idle" /\ id'[v] > 0 => id'[v] \in MaskedIds'
      BY <1>1, <1>4, <2>2, <2>3 DEF Holds, HoldingInv, Replacing
    <3> QED
      BY <3>1, <3>2, <3>3 DEF HoldingInv
  <2>8. ~use'.interrupt => UndisturbedInv'
    <3> SUFFICES ASSUME ~use.interrupt PROVE UndisturbedInv'
      BY <1>4
    <3>1. UndisturbedInv
      BY DEF Holds
    <3>2. \A v \in Holders :
            /\ pc'[v] # "idle" => notify'[v] = "idle" /\ old'[v] = id'[v]
            /\ pc'[v] = "assign" => id'[v] = 0
            /\ notify'[v] = "clear" \/ pc'[v] = "schedule" => id'[v] \notin MaskedIds'
      BY <1>1, <1>4, <2>2, <2>3, <3>1 DEF UndisturbedInv
    <3>3. \A v \in Holders : id'[v] = id[v] /\ ret'[v] = ret[v]
      BY <1>4, <1>5, <2>2
    <3> QED
      BY <2>3, <3>1, <3>2, <3>3 DEF UndisturbedInv
  <2> QED
    BY <2>4, <2>5, <2>7, <2>8 DEF Holds
<1>8. CASE Empty # {}
  <2> DEFINE s == FirstEmpty
             to == IF old[u] > 0 /\ next_id # old[u] THEN "unmask" ELSE "assign"
  <2>1. s \in Slots /\ handle[s] = None
    BY <1>8, FirstEmptyIsEmpty DEF Empty
  <2>2. /\ handle' = [handle EXCEPT ![s] = h] /\ keep_id' = [keep_id EXCEPT ![s] = next_id]
        /\ user' = [user EXCEPT ![s] = 1]
    BY <1>1, <1>3, <1>8 DEF Mask
  <2>3. ret' = [ret EXCEPT ![u] = next_id] /\ old' = old /\ pc' = [pc EXCEPT ![u] = to]
    BY <1>1, <1>3, <1>8 DEF Mask, Goes
  <2> HIDE DEF s
  <2>4. to \in {"unmask", "assign"} /\ (to = "assign" => old[u] = 0)
    BY <1>2, <1>6 DEF Mine
  <2> HIDE DEF to
  <2>5. /\ pc'[u] = to /\ ret'[u] = next_id
        /\ \A v \in Holders \ {u} : pc'[v] = pc[v] /\ ret'[v] = ret[v] /\ mem'[v] = mem[v]
    BY <1>2, <1>4, <2>3
  <2>6. /\ handle'[s] = h /\ keep_id'[s] = next_id /\ user'[s] = 1
        /\ \A i \in Slots \ {s} :
             handle'[i] = handle[i] /\ keep_id'[i] = keep_id[i] /\ user'[i] = user[i]
    BY <1>2, <2>1, <2>2
  <2>7. h # None
    BY KeeperAssumption
  <2>8. \A k : k \in MaskedIds' <=> k \in MaskedIds \/ k = next_id
    BY <2>1, <2>6, <2>7 DEF MaskedIds
  <2>9. IdsInv'
    <3>1. next_id >= START_KEEP_ID /\ \A i \in Slots : keep_id[i] < next_id /\ user[i] <= 1
      BY DEF Holds, IdsInv
    <3>2. next_id' >= START_KEEP_ID
      BY <1>2, <1>4, <3>1
    <3>3. ASSUME NEW i \in Slots
          PROVE  /\ user'[i] <= 1 /\ keep_id'[i] < next_id'
                 /\ handle'[i] # None => keep_id'[i] >= START_KEEP_ID
      <4>1. keep_id[i] \in Nat
        BY <1>2
      <4>2. CASE i = s
        BY <1>2, <1>4, <2>6, <3>1, <4>2
      <4>3. CASE i # s
        BY <1>2, <1>4, <2>6, <3>1, <4>1, <4>3 DEF Holds, IdsInv
      <4> QED
        BY <4>2, <4>3
    <3>4. ASSUME NEW i \in Slots, NEW j \in Slots, keep_id'[i] = keep_id'[j],
                 keep_id'[i] >= START_KEEP_ID
          PROVE  i = j
      <4>1. keep_id[i] # next_id /\ keep_id[j] # next_id
        BY <1>2, <3>1
      <4> QED
        BY <2>6, <3>4, <4>1 DEF Holds, IdsInv
    <3> QED
      BY <3>2, <3>3, <3>4 DEF IdsInv
  <2>10. AskingInv'
    <3>1. ASSUME NEW v \in Holders, pc'[v] = "mask"
          PROVE  v # u /\ pc[v] = "mask" /\ mem'[v] = mem[v] /\ mem[v] # h
      <4>1. v # u
        BY <2>4, <2>5, <3>1
      <4>2. pc[v] = "mask" /\ mem'[v] = mem[v]
        BY <2>5, <3>1, <4>1
      <4> QED
        BY <1>1, <4>1, <4>2 DEF Holds, AskingInv
    <3>2. \A v \in Holders : pc'[v] = "mask" => \A i \in Slots : handle'[i] # mem'[v]
      BY <2>6, <3>1 DEF Holds, AskingInv
    <3>3. \A v, w \in Holders : pc'[v] = "mask" /\ pc'[w] = "mask" /\ mem'[v] = mem'[w] => v = w
      BY <3>1 DEF Holds, AskingInv
    <3> QED
      BY <3>2, <3>3 DEF AskingInv
  <2>11. FreeingInv'
    <3>1. index[Monitor] \in Slots
      BY DEF Inv, TypeOK, Freers
    <3>2. fpc[Monitor] \in {"user", "free"} => index[Monitor] # s
      BY <2>1 DEF Holds, FreeingInv
    <3> QED
      BY <1>4, <2>6, <3>1, <3>2 DEF Holds, FreeingInv, freerVars
  <2>12. Mine(u)' = {id[u], old[u], next_id} /\ \A v \in Holders \ {u} : Mine(v)' = Mine(v)
    BY <1>4, <2>3, <2>5 DEF Mine
  <2>13. ASSUME NEW v \in Holders PROVE next_id \notin Mine(v) /\ Mine(v) \subseteq 0..(next_id' - 1)
    <3>1. 0..(next_id - 1) \subseteq 0..(next_id' - 1) /\ next_id \notin 0..(next_id - 1)
      BY <1>2, <1>4
    <3> QED
      BY <1>6, <3>1
  <2>14. HoldingInv'
    <3>1. ASSUME NEW v \in Holders PROVE Mine(v)' \subseteq 0..(next_id' - 1)
      <4>1. next_id \in 0..(next_id' - 1)
        BY <1>2, <1>4
      <4>2. id[u] \in Mine(u) /\ old[u] \in Mine(u)
        BY DEF Mine
      <4>3. Mine(v)' \subseteq Mine(v) \cup {next_id}
        BY <2>12, <4>2
      <4> QED
        BY <2>13, <4>1, <4>3
    <3>2. ASSUME NEW v \in Holders, NEW w \in Holders, v # w
          PROVE  Mine(v)' \cap Mine(w)' \subseteq {0}
      <4>1. Mine(v) \cap Mine(w) \subseteq {0}
        BY <3>2 DEF Holds, HoldingInv
      <4>2. id[u] \in Mine(u) /\ old[u] \in Mine(u)
        BY DEF Mine
      <4>3. /\ v = u => Mine(v)' \subseteq Mine(v) \cup {next_id} /\ Mine(w)' = Mine(w)
            /\ w = u => Mine(w)' \subseteq Mine(w) \cup {next_id} /\ Mine(v)' = Mine(v)
            /\ v # u /\ w # u => Mine(v)' = Mine(v) /\ Mine(w)' = Mine(w)
        BY <2>12, <3>2, <4>2
      <4> QED
        BY <2>13, <3>2, <4>1, <4>3
    <3>3. ASSUME NEW v \in Holders
          PROVE  /\ Replacing(v)' => ret'[v] \in MaskedIds' /\ ret'[v] # id'[v] /\ ret'[v] # old'[v]
                 /\ ~Replacing(v)' => ret'[v] = 0
                 /\ pc'[v] # "schedule" /\ notify'[v] = "idle" /\ id'[v] > 0 => id'[v] \in MaskedIds'
      <4>1. CASE v = u
        <5>1. next_id # id[u] /\ next_id # old[u]
          BY <2>13 DEF Mine
        <5>2. Replacing(u)' /\ ret'[u] \in MaskedIds'
          BY <2>4, <2>5, <2>8 DEF Replacing
        <5> QED
          BY <1>1, <1>4, <2>3, <2>5, <2>8, <4>1, <5>1, <5>2 DEF Holds, HoldingInv
      <4>2. CASE v # u
        BY <1>4, <2>3, <2>5, <2>8, <4>2 DEF Holds, HoldingInv, Replacing
      <4> QED
        BY <4>1, <4>2
    <3> QED
      BY <3>1, <3>2, <3>3 DEF HoldingInv
  <2>15. ~use'.interrupt => UndisturbedInv'
    <3> SUFFICES ASSUME ~use.interrupt PROVE UndisturbedInv'
      BY <1>4
    <3>1. UndisturbedInv
      BY DEF Holds
    <3>2. ASSUME NEW v \in Holders
          PROVE  /\ pc'[v] # "idle" => notify'[v] = "idle" /\ old'[v] = id'[v]
                 /\ pc'[v] = "assign" => id'[v] = 0
                 /\ notify'[v] = "clear" \/ pc'[v] = "schedule" => id'[v] \notin MaskedIds'
      <4>1. next_id # id[v]
        BY <2>13 DEF Mine
      <4>2. CASE v = u
        BY <1>1, <1>4, <2>3, <2>4, <2>5, <3>1, <4>2 DEF UndisturbedInv
      <4>3. CASE v # u
        BY <1>4, <2>3, <2>5, <2>8, <3>1, <4>1, <4>3 DEF UndisturbedInv
      <4> QED
        BY <4>2, <4>3
    <3>3. ASSUME NEW k \in MaskedIds' PROVE \E v \in Holders : k \in {id'[v], ret'[v]}
      <4>1. CASE k = next_id
        BY <2>5, <4>1
      <4>2. CASE k \in MaskedIds
        <5>1. PICK v \in Holders : k \in {id[v], ret[v]}
          BY <3>1, <4>2 DEF UndisturbedInv
        <5>2. k # 0
          BY <1>2, <4>2 DEF MaskedIds, Holds, IdsInv
        <5>3. v = u => k = id[u]
          BY <1>5, <5>1, <5>2
        <5> QED
          BY <1>4, <2>5, <5>1, <5>3
      <4> QED
        BY <2>8, <4>1, <4>2
    <3> QED
      BY <3>2, <3>3 DEF UndisturbedInv
  <2> QED
    BY <2>9, <2>10, <2>11, <2>14, <2>15 DEF Holds
<1> QED
  BY <1>7, <1>8

\* Steps that take users from slots leave what the work has found as it was.
LEMMA FewerUsers ==
  ASSUME Inv, FreeingInv, UNCHANGED <<handle, freerVars>>,
         user' \in [Slots -> Int], \A i \in Slots : user'[i] <= user[i]
  PROVE  FreeingInv'
<1>1. index[Monitor] \in Slots /\ user \in [Slots -> Int]
  BY DEF Inv, TypeOK, Freers
<1>2. user'[index[Monitor]] <= user[index[Monitor]]
  BY <1>1
<1>3. user'[index[Monitor]] \in Int /\ user[index[Monitor]] \in Int
  BY <1>1
<1>4. index' = index /\ fpc' = fpc /\ force' = force
  BY DEF freerVars
<1>5. user[index[Monitor]] <= 0 => user'[index[Monitor]] <= 0
  BY <1>2, <1>3
<1> QED
  BY <1>4, <1>5 DEF FreeingInv

\* The id that is replaced belongs to nobody else.
LEMMA UnmaskOldHolds ==
  ASSUME Inv, Simple, Holds, NEW u \in Holders, UnmaskOld(u)
  PROVE  Holds'
<1>1. /\ pc[u] = "unmask" /\ pc' = [pc EXCEPT ![u] = "schedule"] /\ Unmask(old[u])
      /\ UNCHANGED <<handle, keep_id, num, next_id, pending, keeperRefs>>
      /\ UNCHANGED <<id, mem, ret, old, notify, freerVars, use>>
  BY DEF UnmaskOld, At, Goes
<1>2. /\ pc \in [Holders -> {"idle", "mask", "unmask", "schedule", "assign"}]
      /\ old \in [Holders -> Int] /\ START_KEEP_ID \in Nat \ {0} /\ TypeOK
  BY KeeperAssumption DEF Inv, TypeOK
<1>3. IdsInv /\ AskingInv /\ FreeingInv /\ HoldingInv
  BY DEF Holds
<1>4. pc'[u] = "schedule" /\ \A v \in Holders \ {u} : pc'[v] = pc[v]
  BY <1>1, <1>2
<1>5. /\ IdsInv' /\ old[u] \notin MaskedIds' /\ MaskedIds' \subseteq MaskedIds
      /\ \A i \in Slots : user'[i] <= user[i]
      /\ \A x : x # old[u] => (x \in MaskedIds' <=> x \in MaskedIds)
  BY <1>1, <1>2, <1>3, Unmasked
<1>6. AskingInv'
  BY <1>1, <1>3, <1>4 DEF AskingInv
<1>7. FreeingInv'
  BY <1>1, <1>2, <1>3, <1>5, UnmaskTypes, FewerUsers
<1>8. ASSUME NEW v \in Holders, v # u, NEW k \in Mine(v), k \in MaskedIds PROVE k \in MaskedIds'
  <2>1. k # 0
    BY <1>2, <1>3, <1>8 DEF MaskedIds, IdsInv
  <2>2. k # old[u]
    BY <1>3, <1>8, <2>1 DEF HoldingInv, Mine
  <2> QED
    BY <1>5, <1>8, <2>2
<1>9. HoldingInv'
  <2>1. \A v \in Holders : Mine(v)' = Mine(v)
    BY <1>1 DEF Mine
  <2>2. ASSUME NEW v \in Holders
        PROVE  /\ Replacing(v)' => ret[v] \in MaskedIds' /\ ret[v] # id[v] /\ ret[v] # old[v]
               /\ ~Replacing(v)' => ret[v] = 0
               /\ pc'[v] # "schedule" /\ notify[v] = "idle" /\ id[v] > 0 => id[v] \in MaskedIds'
    <3>1. CASE v = u
      <4>1. Replacing(u)
        BY <1>1 DEF Replacing
      <4>2. ret[u] \in MaskedIds /\ ret[u] # id[u] /\ ret[u] # old[u]
        BY <1>3, <4>1 DEF HoldingInv
      <4>3. ret[u] \in MaskedIds' /\ Replacing(u)'
        BY <1>4, <1>5, <4>2 DEF Replacing
      <4> QED
        BY <1>4, <3>1, <4>2, <4>3
    <3>2. CASE v # u
      <4>1. ret[v] \in Mine(v) /\ id[v] \in Mine(v) /\ pc'[v] = pc[v] /\ (Replacing(v)' <=> Replacing(v))
        BY <1>4, <3>2 DEF Mine, Replacing
      <4> QED
        BY <1>3, <1>8, <3>2, <4>1 DEF HoldingInv
    <3> QED
      BY <3>1, <3>2
  <2> QED
    BY <1>1, <1>3, <2>1, <2>2 DEF HoldingInv
<1>10. ~use'.interrupt => UndisturbedInv'
  <2> SUFFICES ASSUME ~use.interrupt PROVE UndisturbedInv'
    BY <1>1
  <2>1. UndisturbedInv
    BY DEF Holds
  <2>2. notify[u] = "idle" /\ old[u] = id[u]
    BY <1>1, <2>1 DEF UndisturbedInv
  <2>3. ASSUME NEW v \in Holders
        PROVE  /\ pc'[v] # "idle" => notify[v] = "idle" /\ old[v] = id[v]
               /\ pc'[v] = "assign" => id[v] = 0
               /\ notify[v] = "clear" \/ pc'[v] = "schedule" => id[v] \notin MaskedIds'
    <3>1. CASE v = u
      BY <1>4, <1>5, <2>2, <3>1
    <3>2. CASE v # u
      BY <1>4, <1>5, <2>1, <3>2 DEF UndisturbedInv
    <3> QED
      BY <3>1, <3>2
  <2>4. \A k \in MaskedIds' : \E v \in Holders : k \in {id[v], ret[v]}
    BY <1>5, <2>1 DEF UndisturbedInv
  <2> QED
    BY <1>1, <2>3, <2>4 DEF UndisturbedInv
<1> QED
  BY <1>5, <1>6, <1>7, <1>9, <1>10 DEF Holds

\* The new id is masked already when it is stored.
LEMMA AssignHolds ==
  ASSUME Inv, Simple, Holds, NEW u \in Holders, Assign(u)
  PROVE  Holds'
<1>1. /\ pc[u] \in {"schedule", "assign"} /\ pc' = [pc EXCEPT ![u] = "idle"]
      /\ id' = [id EXCEPT ![u] = ret[u]] /\ ret' = [ret EXCEPT ![u] = 0]
      /\ old' = [old EXCEPT ![u] = 0]
      /\ UNCHANGED <<listVars, keeperRefs, mem, notify, freerVars, use>>
  BY DEF Assign, Returns, Goes
<1>2. /\ pc \in [Holders -> {"idle", "mask", "unmask", "schedule", "assign"}]
      /\ old \in [Holders -> Int] /\ ret \in [Holders -> Int] /\ id \in [Holders -> Int]
      /\ next_id \in Nat /\ START_KEEP_ID \in Nat \ {0}
  BY KeeperAssumption DEF Inv, TypeOK
<1>3. IdsInv /\ AskingInv /\ FreeingInv /\ HoldingInv
  BY DEF Holds
<1>4. /\ pc'[u] = "idle" /\ id'[u] = ret[u] /\ ret'[u] = 0 /\ old'[u] = 0
      /\ \A v \in Holders \ {u} :
           pc'[v] = pc[v] /\ id'[v] = id[v] /\ ret'[v] = ret[v] /\ old'[v] = old[v]
  BY <1>1, <1>2
<1>5. IdsInv' /\ FreeingInv'
  BY <1>1, <1>3 DEF IdsInv, FreeingInv, listVars, freerVars
<1>6. AskingInv'
  BY <1>1, <1>3, <1>4 DEF AskingInv, listVars
<1>7. MaskedIds' = MaskedIds
  BY <1>1 DEF MaskedIds, listVars
<1>8. \A v \in Holders : Mine(v)' \subseteq Mine(v) \cup {0}
  BY <1>4 DEF Mine
<1>9. ret[u] \in MaskedIds
  BY <1>1, <1>3 DEF HoldingInv, Replacing
<1>10. HoldingInv'
  <2>1. ASSUME NEW v \in Holders PROVE Mine(v)' \subseteq 0..(next_id' - 1)
    <3>1. next_id' = next_id /\ Mine(v) \subseteq 0..(next_id - 1)
      BY <1>1, <1>3 DEF HoldingInv, listVars
    <3>2. next_id >= START_KEEP_ID
      BY <1>3 DEF IdsInv
    <3>3. 0 \in 0..(next_id - 1)
      BY <1>2, <3>2
    <3> QED
      BY <1>8, <3>1, <3>3
  <2>2. \A v, w \in Holders : v # w => Mine(v)' \cap Mine(w)' \subseteq {0}
    BY <1>3, <1>8 DEF HoldingInv
  <2>3. ASSUME NEW v \in Holders
        PROVE  /\ Replacing(v)' => ret'[v] \in MaskedIds' /\ ret'[v] # id'[v] /\ ret'[v] # old'[v]
               /\ ~Replacing(v)' => ret'[v] = 0
               /\ pc'[v] # "schedule" /\ notify'[v] = "idle" /\ id'[v] > 0 => id'[v] \in MaskedIds'
    <3>1. CASE v = u
      BY <1>4, <1>7, <1>9, <3>1 DEF Replacing
    <3>2. CASE v # u
      BY <1>1, <1>3, <1>4, <1>7, <3>2 DEF HoldingInv, Replacing
    <3> QED
      BY <3>1, <3>2
  <2> QED
    BY <2>1, <2>2, <2>3 DEF HoldingInv
<1>11. ~use'.interrupt => UndisturbedInv'
  <2> SUFFICES ASSUME ~use.interrupt PROVE UndisturbedInv'
    BY <1>1
  <2>1. UndisturbedInv
    BY DEF Holds
  <2>2. notify[u] = "idle" /\ id[u] \notin MaskedIds
    <3>1. notify[u] = "idle" /\ (pc[u] = "schedule" => id[u] \notin MaskedIds)
          /\ (pc[u] = "assign" => id[u] = 0)
      BY <1>1, <2>1 DEF UndisturbedInv
    <3>2. 0 \notin MaskedIds
      BY <1>2, <1>3 DEF MaskedIds, IdsInv
    <3> QED
      BY <1>1, <3>1, <3>2
  <2>3. ASSUME NEW v \in Holders
        PROVE  /\ pc'[v] # "idle" => notify'[v] = "idle" /\ old'[v] = id'[v]
               /\ pc'[v] = "assign" => id'[v] = 0
               /\ notify'[v] = "clear" \/ pc'[v] = "schedule" => id'[v] \notin MaskedIds'
    <3>1. CASE v = u
      BY <1>1, <1>4, <2>2, <3>1
    <3>2. CASE v # u
      BY <1>1, <1>4, <1>7, <2>1, <3>2 DEF UndisturbedInv
    <3> QED
      BY <3>1, <3>2
  <2>4. ASSUME NEW k \in MaskedIds' PROVE \E v \in Holders : k \in {id'[v], ret'[v]}
    <3>1. PICK v \in Holders : k \in {id[v], ret[v]}
      BY <1>7, <2>1, <2>4 DEF UndisturbedInv
    <3>2. CASE v = u
      <4>1. k = ret[u]
        BY <1>7, <2>2, <2>4, <3>1, <3>2
      <4> QED
        BY <1>4, <4>1
    <3>3. CASE v # u
      BY <1>4, <3>1, <3>3
    <3> QED
      BY <3>2, <3>3
  <2> QED
    BY <2>3, <2>4 DEF UndisturbedInv
<1> QED
  BY <1>5, <1>6, <1>10, <1>11 DEF Holds

\* An interrupt, or a call that nothing disturbs, takes the holder's own id.
LEMMA NotifyHolds ==
  ASSUME Inv, Simple, Holds, NEW u \in Holders, Notify(u)
  PROVE  Holds'
<1>1. /\ notify[u] = "idle" /\ (use.interrupt \/ pc[u] = "idle") /\ id[u] > 0 /\ Unmask(id[u])
      /\ notify' = [notify EXCEPT ![u] = "clear"]
      /\ UNCHANGED <<handle, keep_id, num, next_id, pending, keeperRefs>>
      /\ UNCHANGED <<id, pc, mem, ret, old, freerVars, use>>
  BY DEF Notify, At
<1>2. /\ notify \in [Holders -> {"idle", "clear"}] /\ id \in [Holders -> Int]
      /\ START_KEEP_ID \in Nat \ {0} /\ TypeOK
  BY KeeperAssumption DEF Inv, TypeOK
<1>3. IdsInv /\ AskingInv /\ FreeingInv /\ HoldingInv
  BY DEF Holds
<1>4. notify'[u] = "clear" /\ \A v \in Holders \ {u} : notify'[v] = notify[v]
  BY <1>1, <1>2
<1>5. /\ IdsInv' /\ id[u] \notin MaskedIds' /\ MaskedIds' \subseteq MaskedIds
      /\ \A i \in Slots : user'[i] <= user[i]
      /\ \A x : x # id[u] => (x \in MaskedIds' <=> x \in MaskedIds)
  BY <1>1, <1>2, <1>3, Unmasked
<1>6. AskingInv'
  BY <1>1, <1>3 DEF AskingInv
<1>7. FreeingInv'
  BY <1>1, <1>2, <1>3, <1>5, UnmaskTypes, FewerUsers
<1>8. ASSUME NEW v \in Holders, v # u, NEW k \in Mine(v), k \in MaskedIds PROVE k \in MaskedIds'
  <2>1. k # 0
    BY <1>2, <1>3, <1>8 DEF MaskedIds, IdsInv
  <2>2. k # id[u]
    BY <1>3, <1>8, <2>1 DEF HoldingInv, Mine
  <2> QED
    BY <1>5, <1>8, <2>2
<1>9. HoldingInv'
  <2>1. \A v \in Holders : Mine(v)' = Mine(v) /\ (Replacing(v)' <=> Replacing(v))
    BY <1>1 DEF Mine, Replacing
  <2>2. ASSUME NEW v \in Holders
        PROVE  /\ Replacing(v) => ret[v] \in MaskedIds' /\ ret[v] # id[v] /\ ret[v] # old[v]
               /\ ~Replacing(v) => ret[v] = 0
               /\ pc[v] # "schedule" /\ notify'[v] = "idle" /\ id[v] > 0 => id[v] \in MaskedIds'
    <3>1. CASE v = u
      <4>1. Replacing(u) => ret[u] \in MaskedIds /\ ret[u] # id[u] /\ ret[u] # old[u]
        BY <1>3 DEF HoldingInv
      <4>2. ~Replacing(u) => ret[u] = 0
        BY <1>3 DEF HoldingInv
      <4> QED
        BY <1>4, <1>5, <3>1, <4>1, <4>2
    <3>2. CASE v # u
      <4>1. ret[v] \in Mine(v) /\ id[v] \in Mine(v)
        BY DEF Mine
      <4> QED
        BY <1>3, <1>4, <1>8, <3>2, <4>1 DEF HoldingInv
    <3> QED
      BY <3>1, <3>2
  <2> QED
    BY <1>1, <1>3, <2>1, <2>2 DEF HoldingInv
<1>10. ~use'.interrupt => UndisturbedInv'
  <2> SUFFICES ASSUME ~use.interrupt PROVE UndisturbedInv'
    BY <1>1
  <2>1. UndisturbedInv
    BY DEF Holds
  <2>2. pc[u] = "idle"
    BY <1>1
  <2>3. ASSUME NEW v \in Holders
        PROVE  /\ pc[v] # "idle" => notify'[v] = "idle" /\ old[v] = id[v]
               /\ pc[v] = "assign" => id[v] = 0
               /\ notify'[v] = "clear" \/ pc[v] = "schedule" => id[v] \notin MaskedIds'
    <3>1. CASE v = u
      BY <1>4, <1>5, <2>2, <3>1
    <3>2. CASE v # u
      BY <1>4, <1>5, <2>1, <3>2 DEF UndisturbedInv
    <3> QED
      BY <3>1, <3>2
  <2>4. \A k \in MaskedIds' : \E v \in Holders : k \in {id[v], ret[v]}
    BY <1>5, <2>1 DEF UndisturbedInv
  <2> QED
    BY <1>1, <2>3, <2>4 DEF UndisturbedInv
<1> QED
  BY <1>5, <1>6, <1>7, <1>9, <1>10 DEF Holds

\* Without interrupts, an id that is cleared is not masked any more.
LEMMA NotifyClearHolds ==
  ASSUME Inv, Simple, Holds, NEW u \in Holders, NotifyClear(u)
  PROVE  Holds'
<1>1. /\ notify[u] = "clear" /\ notify' = [notify EXCEPT ![u] = "idle"]
      /\ id' = [id EXCEPT ![u] = 0]
      /\ UNCHANGED <<listVars, keeperRefs, pc, mem, ret, old, freerVars, use>>
  BY DEF NotifyClear
<1>2. /\ notify \in [Holders -> {"idle", "clear"}] /\ id \in [Holders -> Int]
      /\ START_KEEP_ID \in Nat \ {0} /\ next_id \in Nat
  BY KeeperAssumption DEF Inv, TypeOK
<1>3. IdsInv /\ AskingInv /\ FreeingInv /\ HoldingInv
  BY DEF Holds
<1>4. /\ notify'[u] = "idle" /\ id'[u] = 0
      /\ \A v \in Holders \ {u} : notify'[v] = notify[v] /\ id'[v] = id[v]
  BY <1>1, <1>2
<1>5. IdsInv' /\ FreeingInv'
  BY <1>1, <1>3 DEF IdsInv, FreeingInv, listVars, freerVars
<1>6. AskingInv'
  BY <1>1, <1>3 DEF AskingInv, listVars
<1>7. MaskedIds' = MaskedIds
  BY <1>1 DEF MaskedIds, listVars
<1>8. \A v \in Holders : Mine(v)' \subseteq Mine(v) \cup {0}
  BY <1>1, <1>4 DEF Mine
<1>9. 0 \notin MaskedIds
  BY <1>2, <1>3 DEF MaskedIds, IdsInv
<1>10. HoldingInv'
  <2>1. ASSUME NEW v \in Holders PROVE Mine(v)' \subseteq 0..(next_id' - 1)
    <3>1. next_id' = next_id /\ Mine(v) \subseteq 0..(next_id - 1)
      BY <1>1, <1>3 DEF HoldingInv, listVars
    <3>2. next_id >= START_KEEP_ID
      BY <1>3 DEF IdsInv
    <3>3. 0 \in 0..(next_id - 1)
      BY <1>2, <3>2
    <3> QED
      BY <1>8, <3>1, <3>3
  <2>2. \A v, w \in Holders : v # w => Mine(v)' \cap Mine(w)' \subseteq {0}
    BY <1>3, <1>8 DEF HoldingInv
  <2>3. ASSUME NEW v \in Holders
        PROVE  /\ Replacing(v)' => ret'[v] \in MaskedIds' /\ ret'[v] # id'[v] /\ ret'[v] # old'[v]
               /\ ~Replacing(v)' => ret'[v] = 0
               /\ pc'[v] # "schedule" /\ notify'[v] = "idle" /\ id'[v] > 0 => id'[v] \in MaskedIds'
    <3>1. CASE v = u
      BY <1>1, <1>3, <1>4, <1>7, <1>9, <3>1 DEF HoldingInv, Replacing
    <3>2. CASE v # u
      BY <1>1, <1>3, <1>4, <1>7, <3>2 DEF HoldingInv, Replacing
    <3> QED
      BY <3>1, <3>2
  <2> QED
    BY <2>1, <2>2, <2>3 DEF HoldingInv
<1>11. ~use'.interrupt => UndisturbedInv'
  <2> SUFFICES ASSUME ~use.interrupt PROVE UndisturbedInv'
    BY <1>1
  <2>1. UndisturbedInv
    BY DEF Holds
  <2>2. pc[u] = "idle" /\ id[u] \notin MaskedIds
    BY <1>1, <2>1 DEF UndisturbedInv
  <2>3. ASSUME NEW v \in Holders
        PROVE  /\ pc'[v] # "idle" => notify'[v] = "idle" /\ old'[v] = id'[v]
               /\ pc'[v] = "assign" => id'[v] = 0
               /\ notify'[v] = "clear" \/ pc'[v] = "schedule" => id'[v] \notin MaskedIds'
    <3>1. CASE v = u
      BY <1>1, <1>4, <2>2, <3>1
    <3>2. CASE v # u
      BY <1>1, <1>4, <1>7, <2>1, <3>2 DEF UndisturbedInv
    <3> QED
      BY <3>1, <3>2
  <2>4. ASSUME NEW k \in MaskedIds' PROVE \E v \in Holders : k \in {id'[v], ret'[v]}
    <3>1. PICK v \in Holders : k \in {id[v], ret[v]}
      BY <1>7, <2>1, <2>4 DEF UndisturbedInv
    <3>2. v = u => k = ret[u]
      BY <1>7, <2>2, <2>4, <3>1
    <3> QED
      BY <1>1, <1>4, <3>1, <3>2
  <2> QED
    BY <2>3, <2>4 DEF UndisturbedInv
<1> QED
  BY <1>5, <1>6, <1>10, <1>11 DEF Holds

\* The time passes, and the work looks at the list: nothing is freed that has a
\* user.
LEMMA LooksHolds ==
  ASSUME Inv, Simple, Holds,
         \/ \E i \in Slots : Elapse(i)
         \/ \E f \in Freers : LookTime(f) \/ LookUser(f) \/ Release(f)
         \/ MonitorRuns \/ MonitorAgain
  PROVE  Holds'
<1>1. UNCHANGED <<handle, keep_id, user, next_id, holderVars, use>>
  BY DEF Elapse, LookTime, LookUser, Release, MonitorRuns, FreeAll, MonitorAgain, listVars
<1>2. /\ fpc \in [Freers -> {"idle", "time", "user", "free", "release", "again"}]
      /\ index \in [Freers -> Slots] /\ force \in [Freers -> 0..2]
      /\ Monitor \in Freers /\ Monitor \notin Writers
  BY KeeperAssumption DEF Inv, TypeOK, Freers
<1>3. FreeingInv
  BY DEF Holds
<1>4. ASSUME NEW to \in {"idle", "time", "again"}, fpc' = [fpc EXCEPT ![Monitor] = to],
             force'[Monitor] = 0
      PROVE  FreeingInv'
  <2>1. fpc'[Monitor] = to /\ \A f \in Writers : fpc'[f] = fpc[f]
    BY <1>2, <1>4 DEF Freers
  <2> QED
    BY <1>3, <1>4, <2>1 DEF FreeingInv
<1>5. ASSUME Following(Monitor) PROVE FreeingInv'
  <2>1. PICK to \in {"time", "again", "idle"} : fpc' = [fpc EXCEPT ![Monitor] = to]
    BY <1>2, <1>5, FollowingTypes DEF Inv
  <2>2. force' = force \/ force' = [force EXCEPT ![Monitor] = 0]
    BY <1>5 DEF Following
  <2>3. force'[Monitor] = 0
    BY <1>2, <1>3, <2>2 DEF FreeingInv
  <2> QED
    BY <1>4, <2>1, <2>3
<1>6. ASSUME NEW f \in Freers, fpc[f] # "idle" PROVE f = Monitor
  BY <1>3, <1>6 DEF FreeingInv, Freers
<1>7. FreeingInv'
  <2>1. CASE \E i \in Slots : Elapse(i)
    BY <1>3, <2>1 DEF Elapse, FreeingInv, freerVars
  <2>2. CASE \E f \in Freers : LookTime(f)
    <3>1. LookTime(Monitor) /\ fpc[Monitor] = "time"
      BY <1>6, <2>2 DEF LookTime
    <3>2. CASE handle[index[Monitor]] = None
      BY <1>5, <3>1, <3>2 DEF LookTime
    <3>3. CASE handle[index[Monitor]] # None
      <4>1. fpc' = [fpc EXCEPT ![Monitor] = "user"] /\ UNCHANGED <<index, force>>
        BY <3>1, <3>3 DEF LookTime, Stays
      <4>2. fpc'[Monitor] = "user" /\ \A f \in Writers : fpc'[f] = fpc[f]
        BY <1>2, <4>1 DEF Freers
      <4> QED
        BY <1>1, <1>3, <3>3, <4>1, <4>2 DEF FreeingInv
    <3> QED
      BY <3>2, <3>3
  <2>3. CASE \E f \in Freers : LookUser(f)
    <3>1. LookUser(Monitor) /\ fpc[Monitor] = "user"
      BY <1>6, <2>3 DEF LookUser
    <3>2. CASE ~WantFree(Monitor, user[index[Monitor]])
      BY <1>5, <3>1, <3>2 DEF LookUser
    <3>3. CASE WantFree(Monitor, user[index[Monitor]])
      <4>1. fpc' = [fpc EXCEPT ![Monitor] = "free"] /\ UNCHANGED <<index, force>>
        BY <3>1, <3>3 DEF LookUser, Stays
      <4>2. fpc'[Monitor] = "free" /\ \A f \in Writers : fpc'[f] = fpc[f]
        BY <1>2, <4>1 DEF Freers
      <4>3. user[index[Monitor]] <= 0
        BY <1>3, <3>3 DEF WantFree, FreeingInv
      <4> QED
        BY <1>1, <1>3, <3>1, <4>1, <4>2, <4>3 DEF FreeingInv
    <3> QED
      BY <3>2, <3>3
  <2>4. CASE \E f \in Freers : Release(f)
    <3>1. Following(Monitor)
      BY <1>6, <2>4 DEF Release
    <3> QED
      BY <1>5, <3>1
  <2>5. CASE MonitorRuns
    <3>1. fpc' = [fpc EXCEPT ![Monitor] = "time"] /\ force' = [force EXCEPT ![Monitor] = 0]
      BY <2>5 DEF MonitorRuns, FreeAll
    <3>2. force'[Monitor] = 0
      BY <1>2, <3>1
    <3> QED
      BY <1>4, <3>1, <3>2
  <2>6. CASE MonitorAgain
    <3>1. fpc' = [fpc EXCEPT ![Monitor] = "idle"] /\ force' = force
      BY <2>6 DEF MonitorAgain
    <3> QED
      BY <1>3, <1>4, <3>1 DEF FreeingInv
  <2> QED
    BY <2>1, <2>2, <2>3, <2>4, <2>5, <2>6
<1> QED
  BY <1>1, <1>7, HoldersUntouched DEF Holds

\* What is taken out of the list has no user.
LEMMA FreeKeepHolds ==
  ASSUME Inv, Simple, Holds, NEW f \in Freers, FreeKeep(f)
  PROVE  Holds'
<1>1. IdsInv /\ AskingInv /\ FreeingInv /\ HoldingInv
  BY DEF Holds
<1>2. f = Monitor
  BY <1>1 DEF FreeKeep, FreeingInv, Freers
<1>3. PICK i \in Slots : i = index[Monitor] /\ handle[i] # None /\ user[i] <= 0
  BY <1>1, <1>2 DEF FreeKeep, FreeingInv, Inv, TypeOK
<1>4. /\ handle' = [handle EXCEPT ![i] = None] /\ fpc' = [fpc EXCEPT ![Monitor] = "release"]
      /\ UNCHANGED <<force, index, keep_id, user, next_id, pending, keeperRefs, holderVars, use>>
  BY <1>2, <1>3 DEF FreeKeep, TakenOut, Stays
<1>5. /\ handle \in [Slots -> Handles \cup {None}] /\ user \in [Slots -> Int]
      /\ fpc \in [Freers -> {"idle", "time", "user", "free", "release", "again"}]
      /\ Monitor \in Freers /\ Monitor \notin Writers
  BY KeeperAssumption DEF Inv, TypeOK, Freers
<1>6. handle'[i] = None /\ \A j \in Slots \ {i} : handle'[j] = handle[j]
  BY <1>4, <1>5
<1>7. MaskedIds' = MaskedIds
  <2>1. ~(user[i] > 0)
    BY <1>3, <1>5
  <2>2. \A j \in Slots : (handle'[j] # None /\ user'[j] > 0) <=> (handle[j] # None /\ user[j] > 0)
    BY <1>4, <1>6, <2>1
  <2> QED
    BY <1>4, <2>2 DEF MaskedIds
<1>8. IdsInv'
  BY <1>1, <1>4, <1>6 DEF IdsInv
<1>9. AskingInv'
  <2>1. ASSUME NEW u \in Holders, pc[u] = "mask", NEW j \in Slots PROVE handle'[j] # mem[u]
    <3>1. mem[u] \in Handles /\ mem[u] # None
      BY <2>1, KeeperAssumption DEF Inv, InHand
    <3> QED
      BY <1>1, <1>6, <2>1, <3>1 DEF AskingInv
  <2> QED
    BY <1>1, <1>4, <2>1 DEF AskingInv, holderVars
<1>10. FreeingInv'
  <2>1. fpc'[Monitor] = "release" /\ \A g \in Writers : fpc'[g] = fpc[g]
    BY <1>4, <1>5 DEF Freers
  <2> QED
    BY <1>1, <1>4, <2>1 DEF FreeingInv
<1>11. HoldingInv'
  BY <1>1, <1>4, <1>7 DEF HoldingInv, Mine, Replacing, holderVars
<1>12. ~use'.interrupt => UndisturbedInv'
  BY <1>4, <1>7 DEF Holds, UndisturbedInv, holderVars
<1> QED
  BY <1>8, <1>9, <1>10, <1>11, <1>12 DEF Holds
-----------------------------------------------------------------------------
LEMMA InitHolds == Init => Holds
<1> SUFFICES ASSUME Init PROVE Holds
  OBVIOUS
<1>1. START_KEEP_ID \in Nat \ {0} /\ Monitor \in Freers
  BY KeeperAssumption DEF Freers
<1>2. MaskedIds = {}
  BY DEF Init, MaskedIds
<1>3. IdsInv
  BY <1>1 DEF Init, IdsInv
<1>4. AskingInv
  BY DEF Init, AskingInv
<1>5. FreeingInv
  BY <1>1 DEF Init, FreeingInv, Freers
<1>6. HoldingInv
  <2>1. \A u \in Holders : Mine(u) = {0} /\ ~Replacing(u)
    BY DEF Init, Mine, Replacing
  <2>2. 0 \in 0..(next_id - 1)
    BY <1>1 DEF Init
  <2>3. \A u \in Holders : id[u] = 0 /\ ret[u] = 0
    BY DEF Init
  <2> QED
    BY <2>1, <2>2, <2>3 DEF HoldingInv
<1>7. UndisturbedInv
  BY <1>2 DEF Init, UndisturbedInv
<1> QED
  BY <1>3, <1>4, <1>5, <1>6, <1>7 DEF Holds

LEMMA StutterHolds == Holds /\ UNCHANGED vars => Holds'
<1> SUFFICES ASSUME Holds, UNCHANGED vars PROVE Holds'
  OBVIOUS
<1>1. UNCHANGED <<handle, keep_id, user, next_id, holderVars, use>>
  BY DEF vars, listVars
<1>2. FreeingInv'
  BY DEF Holds, FreeingInv, vars, listVars, freerVars
<1> QED
  BY <1>1, <1>2, HoldersUntouched DEF Holds

\* No writer forces the freeing: in these uses there is none that may.
LEMMA NextHolds ==
  ASSUME Inv, Simple, Holds, [Next]_vars
  PROVE  Holds'
<1>1. CASE \E h \in use.handles, u \in use.holders : Request(u, h)
  <2>1. use.holders \subseteq Holders /\ use.handles \subseteq Handles
    BY KeeperAssumption DEF Inv, TypeOK, Use
  <2> QED
    BY <1>1, <2>1, RequestHolds
<1>2. CASE \E u \in Holders : HolderGoesOn(u) \/ Notify(u) \/ NotifyClear(u)
  BY <1>2, MaskHolds, UnmaskOldHolds, AssignHolds, NotifyHolds, NotifyClearHolds
  DEF HolderGoesOn
<1>3. CASE \E f \in Freers : FreeKeep(f)
  BY <1>3, FreeKeepHolds
<1>4. CASE \/ \E i \in Slots : Elapse(i)
           \/ \E f \in Freers : LookTime(f) \/ LookUser(f) \/ Release(f)
           \/ MonitorRuns \/ MonitorAgain
  BY <1>4, LooksHolds
<1>5. CASE \E f \in Writers : WriterForces(f)
  BY <1>5 DEF WriterForces, Simple
<1>6. CASE UNCHANGED vars
  BY <1>6, StutterHolds
<1> QED
  BY <1>1, <1>2, <1>3, <1>4, <1>5, <1>6 DEF Next, FreerGoesOn

LEMMA UseNeverChanges == [Next]_vars => use' = use
BY DEF Next, vars, Request, HolderGoesOn, Mask, UnmaskOld, Assign, Notify, NotifyClear, Elapse,
       FreerGoesOn, LookTime, LookUser, FreeKeep, Release, MonitorRuns, FreeAll, MonitorAgain,
       WriterForces

LEMMA HoldsInvariant == Spec => []KInv
<1>1. Init => KInv
  BY InitInv, InitHolds DEF KInv
<1>2. KInv /\ [Next]_vars => KInv'
  <2> SUFFICES ASSUME KInv, [Next]_vars PROVE KInv'
    OBVIOUS
  <2>1. Inv'
    BY NextInv DEF KInv
  <2>2. ASSUME Simple' PROVE Holds'
    <3>1. Simple
      BY <2>2, UseNeverChanges DEF Simple
    <3> QED
      BY <3>1, NextHolds DEF KInv
  <2> QED
    BY <2>1, <2>2 DEF KInv
<1> QED
  BY <1>1, <1>2, PTL DEF Spec

\* Where no memory is kept twice and no freeing is forced, the memory of a
\* holder that is in no call is in the list under its id and is not freed,
\* whatever interrupts do; and without interrupts, once every call has ended,
\* nothing else in the list is kept for ever.
THEOREM KeeperKeptWhileHeld == Spec => []KeptWhileHeld
<1>1. KInv => KeptWhileHeld
  <2> SUFFICES ASSUME KInv, Simple PROVE
        LET quiet == {u \in Holders : pc[u] = "idle" /\ notify[u] = "idle"} IN
          /\ \A u \in quiet : id[u] > 0 => id[u] \in MaskedIds
          /\ quiet = Holders /\ ~use.interrupt => MaskedIds \subseteq {id[u] : u \in Holders}
    BY DEF KeptWhileHeld, Simple
  <2> DEFINE quiet == {u \in Holders : pc[u] = "idle" /\ notify[u] = "idle"}
  <2>1. Holds /\ START_KEEP_ID \in Nat \ {0} /\ keep_id \in [Slots -> Nat]
    BY KeeperAssumption DEF KInv, Inv, TypeOK
  <2>2. \A u \in quiet : id[u] > 0 => id[u] \in MaskedIds
    BY <2>1 DEF Holds, HoldingInv
  <2>3. ASSUME quiet = Holders, ~use.interrupt, NEW k \in MaskedIds
        PROVE  \E u \in Holders : k = id[u]
    <3>1. PICK u \in Holders : k \in {id[u], ret[u]}
      BY <2>1, <2>3 DEF Holds, UndisturbedInv
    <3>2. u \in quiet
      BY <2>3
    <3>3. ret[u] = 0
      BY <2>1, <3>2 DEF Holds, HoldingInv, Replacing
    <3>4. k # 0
      BY <2>1, <2>3 DEF MaskedIds, Holds, IdsInv
    <3> QED
      BY <3>1, <3>3, <3>4
  <2> QED
    BY <2>2, <2>3
<1> QED
  BY <1>1, HoldsInvariant, PTL
=============================================================================
