--------------------------- MODULE VframeProviders ---------------------------
(***************************************************************************)
(* drivers/media/common/vfm: the providers of one frame path.  A provider  *)
(* (a decoder, a deinterlacer) is registered and unregistered by the       *)
(* module that owns it, while other modules, interrupt handlers among      *)
(* them, call its operations through the path.  No lock is held during an  *)
(* operation: two counters keep the provider alive, use_cnt of the         *)
(* provider and provider_used for all of them, and unregistration waits    *)
(* for both, but not for ever.                                             *)
(*                                                                         *)
(* The table's mutex is held for single steps only and is left out.  Other *)
(* code sees the use of a provider as its memory: once vf_unreg_provider   *)
(* has returned, it may be gone.                                           *)
(***************************************************************************)
EXTENDS Integers, FiniteSets

CONSTANTS
  Providers,    \* the providers of the path: one structure and one name each
  Source,       \* the first one of the path
  Tables,       \* the tables: how many slots (MAX_PROVIDER_NUM), and a bound: how
                \* often somebody registers a name that does not fit
  Getters,      \* callers of vf_get, vf_peek and vf_put
  Askers,       \* callers of vf_get_states_by_name
  Notifiers,    \* callers of vf_notify_provider and vf_notify_provider_by_name
  Polls,        \* how often unregistration looks at a counter (10000)
  CLOSED_CNT,   \* -100000
  Upstream      \* the provider in front of a client in the path

Clients == Getters \cup Askers \cup Notifiers

ASSUME VfmAssumption ==
  /\ Source \in Providers /\ Tables \subseteq [slots : Nat, tooLong : Nat]
  /\ Upstream \in [Clients -> Providers]
  /\ IsFiniteSet(Getters) /\ IsFiniteSet(Askers) /\ IsFiniteSet(Notifiers)
  /\ Getters \cap Askers = {} /\ Getters \cap Notifiers = {} /\ Askers \cap Notifiers = {}
  /\ Polls \in Nat
  /\ CLOSED_CNT \in Int /\ CLOSED_CNT < -Cardinality(Clients)

VARIABLES
  registered,      \* provider_table: is the provider in it
  active,          \* vfm_map_s.active: the provider's bit
  table,           \* one of Tables, once and for all
  lost,            \* slots of the table that are used by no provider
  use_cnt, provider_used,
  stage, polls,    \* of each provider: where its owner is, and what is left of a wait
  pc,              \* of each client: where it is
  gaveUp,          \* history: the last unregistration gave up waiting
  overrun,         \* history: use_cnt was set to 0 over the heads of its users
  unlisted         \* history: the last registration did not reach the table

tableVars == <<registered, active, table, lost>>
ownerVars == <<stage, polls, gaveUp, overrun, unlisted>>
vars == <<tableVars, use_cnt, provider_used, ownerVars, pc>>

\* The client has the address of the provider.
Holds(c, p) == pc[c] \in {"lock", "use", "op", "refused"} /\ Upstream[c] = p

\* The clients that use_cnt counts.
Users(p) == {c \in Clients : pc[c] \in {"op", "refused"} /\ Upstream[c] = p}

Init ==
  /\ registered = [p \in Providers |-> FALSE] /\ active = [p \in Providers |-> FALSE]
  /\ table \in Tables /\ lost = 0
  /\ use_cnt = [p \in Providers |-> 0] /\ provider_used = 0
  /\ stage = [p \in Providers |-> "out"] /\ polls = [p \in Providers |-> Polls]
  /\ pc = [c \in Clients |-> "idle"]
  /\ gaveUp = [p \in Providers |-> FALSE] /\ overrun = [p \in Providers |-> FALSE]
  /\ unlisted = [p \in Providers |-> FALSE]
-----------------------------------------------------------------------------
\* vf_update_active_map.  A bit is set only while that of the source is, and
\* outlives it.  Faulty version: bits are only ever set.
MapKept == [p \in Providers |-> active[p] \/ (registered[p] /\ registered[Source])]
UpdatedMap == [p \in Providers |-> registered[p] /\ (registered[Source] \/ active[p])]

Goes(p, from, to) == stage[p] = from /\ stage' = [stage EXCEPT ![p] = to]

\* Faulty version: a provider that is registered again stays closed.
NotReady(p) == use_cnt
Ready(p) == [use_cnt EXCEPT ![p] = 0]

\* vf_reg_provider, also of a provider that is registered.
RegReset(p) ==
  /\ Goes(p, "out", "insert") \/ Goes(p, "in", "insert")
  /\ use_cnt' = Ready(p)
  /\ gaveUp' = [gaveUp EXCEPT ![p] = FALSE]
  /\ overrun' = [overrun EXCEPT ![p] = Users(p) # {}]
  /\ unlisted' = [unlisted EXCEPT ![p] = FALSE]
  /\ UNCHANGED <<tableVars, provider_used, polls, pc>>

\* The name is in the table: -1.
RegRefused(p) ==
  /\ registered[p] /\ Goes(p, "insert", "in")
  /\ UNCHANGED <<tableVars, use_cnt, provider_used, polls, gaveUp, overrun, unlisted, pc>>

HasFreeSlot == Cardinality({p \in Providers : registered[p]}) + lost < table.slots

\* A provider whose name does not fit is refused, and its slot stays used.  It
\* is none of Providers: nobody ever finds it.
RegTooLong ==
  /\ HasFreeSlot /\ lost < table.tooLong
  /\ lost' = lost + 1
  /\ UNCHANGED <<registered, active, table, use_cnt, provider_used, ownerVars, pc>>

\* No slot is free: 0, as if the provider were in the table.
RegNoSlot(p) ==
  /\ ~registered[p] /\ ~HasFreeSlot /\ Goes(p, "insert", "in")
  /\ unlisted' = [unlisted EXCEPT ![p] = TRUE]
  /\ UNCHANGED <<tableVars, use_cnt, provider_used, polls, gaveUp, overrun, pc>>

RegInsert(p) ==
  /\ ~registered[p] /\ HasFreeSlot /\ Goes(p, "insert", "map")
  /\ registered' = [registered EXCEPT ![p] = TRUE]
  /\ UNCHANGED <<active, table, lost, use_cnt, provider_used, polls, gaveUp, overrun, unlisted, pc>>

\* The receiver is told, if there is one.
RegUpdateMap(p) ==
  /\ Goes(p, "map", "in")
  /\ active' = UpdatedMap
  /\ UNCHANGED <<registered, table, lost, use_cnt, provider_used, polls, gaveUp, overrun, unlisted, pc>>

\* vf_unreg_provider: the provider leaves the table.
UnregRemove(p) ==
  /\ registered[p] /\ Goes(p, "in", "close")
  /\ registered' = [registered EXCEPT ![p] = FALSE]
  /\ UNCHANGED <<active, table, lost, use_cnt, provider_used, polls, gaveUp, overrun, unlisted, pc>>

\* It is not found there: it is not closed, and nobody is told.
UnregMissing(p) ==
  /\ ~registered[p] /\ Goes(p, "in", "draining")
  /\ UNCHANGED <<tableVars, use_cnt, provider_used, polls, gaveUp, overrun, unlisted, pc>>

\* vf_provider_close waits until nobody uses the provider.  Faulty version: it
\* does not wait.
NeverInUse(count) == FALSE
InUse(count) == count > CLOSED_CNT

UnregClose(p) ==
  LET count == use_cnt[p] + CLOSED_CNT IN
  /\ Goes(p, "close", IF InUse(count) THEN "closing" ELSE "closed")
  /\ use_cnt' = [use_cnt EXCEPT ![p] = count]
  /\ UNCHANGED <<tableVars, provider_used, polls, gaveUp, overrun, unlisted, pc>>

\* Faulty version: the turns of a wait are not counted.
PollKept(p) == polls
Polled(p) == [polls EXCEPT ![p] = @ - 1]

\* One more turn of the wait at this stage.
Waits(p, at) == stage[p] = at /\ polls[p] > 0 /\ polls' = Polled(p) /\ UNCHANGED stage

\* The wait ends, because its condition holds or its turns are used up.
WaitEnds(p, from, to, satisfied) ==
  /\ satisfied \/ polls[p] = 0
  /\ Goes(p, from, to)
  /\ polls' = [polls EXCEPT ![p] = Polls]
  /\ gaveUp' = [gaveUp EXCEPT ![p] = @ \/ ~satisfied]

UnregClosePoll(p) ==
  /\ InUse(use_cnt[p]) /\ Waits(p, "closing")
  /\ UNCHANGED <<tableVars, use_cnt, provider_used, gaveUp, overrun, unlisted, pc>>

UnregCloseEnds(p) ==
  /\ WaitEnds(p, "closing", "closed", ~InUse(use_cnt[p]))
  /\ UNCHANGED <<tableVars, use_cnt, provider_used, overrun, unlisted, pc>>

\* The receiver is told VFRAME_EVENT_PROVIDER_UNREG.
UnregTell(p) ==
  /\ Goes(p, "closed", "told")
  /\ UNCHANGED <<tableVars, use_cnt, provider_used, polls, gaveUp, overrun, unlisted, pc>>

UnregUpdateMap(p) ==
  /\ Goes(p, "told", "draining")
  /\ active' = UpdatedMap
  /\ UNCHANGED <<registered, table, lost, use_cnt, provider_used, polls, gaveUp, overrun, unlisted, pc>>

\* It waits until no provider is used at all.  Faulty version: it
\* does not wait.
NoneUsed == FALSE
SomeUsed == provider_used > 0

UnregDrainPoll(p) ==
  /\ SomeUsed /\ Waits(p, "draining")
  /\ UNCHANGED <<tableVars, use_cnt, provider_used, gaveUp, overrun, unlisted, pc>>

UnregReturn(p) ==
  /\ WaitEnds(p, "draining", "out", ~SomeUsed)
  /\ UNCHANGED <<tableVars, use_cnt, provider_used, overrun, unlisted, pc>>
-----------------------------------------------------------------------------
Moves(c, from, to) == pc[c] = from /\ pc' = [pc EXCEPT ![c] = to]

\* A client calls for the provider in front of it.  Getters take providers_lock
\* first; who knows the provider's name needs no look at the path.
Call(c) ==
  /\ \/ Moves(c, "idle", "name")
     \/ c \in Notifiers /\ Moves(c, "idle", "find")
  /\ provider_used' = IF c \in Getters THEN provider_used + 1 ELSE provider_used
  /\ UNCHANGED <<tableVars, use_cnt, ownerVars>>

\* Where a client goes that finds nobody: use_provider(NULL) is 0.  Faulty
\* version: vf_get_states unlocks what it has not locked.
NoLateLock(c) == IF c \in Notifiers THEN "idle" ELSE "unlock"
WithoutProvider(c) ==
  IF c \in Getters THEN "unlock" ELSE IF c \in Askers THEN "lockNull" ELSE "idle"

\* vf_get_provider_name
ReadPath(c) ==
  /\ Moves(c, "name", IF active[Upstream[c]] THEN "find" ELSE WithoutProvider(c))
  /\ UNCHANGED <<tableVars, use_cnt, provider_used, ownerVars>>

\* vf_get_provider_by_name, which takes no lock
FindProvider(c) ==
  /\ Moves(c, "find", IF ~registered[Upstream[c]] THEN WithoutProvider(c)
                      ELSE IF c \in Askers THEN "lock" ELSE "use")
  /\ UNCHANGED <<tableVars, use_cnt, provider_used, ownerVars>>

\* vf_get_states takes providers_lock when the provider has been looked up.
LateLock(c) ==
  /\ Moves(c, "lock", "use") \/ Moves(c, "lockNull", "unlock")
  /\ provider_used' = provider_used + 1
  /\ UNCHANGED <<tableVars, use_cnt, ownerVars>>

\* use_provider
Usable(count) == count > 0

UseProvider(c) ==
  LET count == use_cnt[Upstream[c]] + 1 IN
  /\ Moves(c, "use", IF Usable(count) THEN "op" ELSE "refused")
  /\ use_cnt' = [use_cnt EXCEPT ![Upstream[c]] = count]
  /\ UNCHANGED <<tableVars, provider_used, ownerVars>>

\* Faulty version: a use that was refused stays in the count.
RefusalCounted(c) == [use_cnt EXCEPT ![Upstream[c]] = IF pc[c] = "op" THEN @ - 1 ELSE @]
Unused(c) == [use_cnt EXCEPT ![Upstream[c]] = @ - 1]

\* unuse_provider, or the end of a use_provider that was refused.
UnuseProvider(c) ==
  /\ pc[c] \in {"op", "refused"}
  /\ pc' = [pc EXCEPT ![c] = IF c \in Notifiers THEN "idle" ELSE "unlock"]
  /\ use_cnt' = Unused(c)
  /\ UNCHANGED <<tableVars, provider_used, ownerVars>>

Unlock(c) ==
  /\ Moves(c, "unlock", "idle")
  /\ provider_used' = provider_used - 1
  /\ UNCHANGED <<tableVars, use_cnt, ownerVars>>
-----------------------------------------------------------------------------
OwnerGoesOn(p) ==
  \/ RegRefused(p) \/ RegNoSlot(p) \/ RegInsert(p) \/ RegUpdateMap(p)
  \/ UnregClose(p) \/ UnregClosePoll(p) \/ UnregCloseEnds(p) \/ UnregTell(p)
  \/ UnregUpdateMap(p) \/ UnregDrainPoll(p) \/ UnregReturn(p)

ClientGoesOn(c) ==
  \/ ReadPath(c) \/ FindProvider(c) \/ LateLock(c)
  \/ UseProvider(c) \/ UnuseProvider(c) \/ Unlock(c)

Next ==
  \/ RegTooLong
  \/ \E p \in Providers : RegReset(p) \/ UnregRemove(p) \/ UnregMissing(p) \/ OwnerGoesOn(p)
  \/ \E c \in Clients : ClientGoesOn(c) \/ Call(c)

Spec == Init /\ [][Next]_vars

\* A call that has begun goes on; nothing is assumed of an operation's end.
FairSpec == Spec /\ \A p \in Providers : WF_vars(OwnerGoesOn(p))
-----------------------------------------------------------------------------
(***************************************************************************)
(* Properties                                                              *)
(***************************************************************************)
Stages == {"out", "insert", "map", "in", "close", "closing", "closed", "told", "draining"}
Places == {"idle", "name", "find", "lock", "lockNull", "use", "op", "refused", "unlock"}

TypeOK ==
  /\ registered \in [Providers -> BOOLEAN] /\ active \in [Providers -> BOOLEAN]
  /\ table \in Tables /\ lost \in 0..table.tooLong
  /\ use_cnt \in [Providers -> Int] /\ provider_used \in Nat
  /\ stage \in [Providers -> Stages] /\ polls \in [Providers -> 0..Polls]
  /\ pc \in [Clients -> Places]
  /\ gaveUp \in [Providers -> BOOLEAN] /\ overrun \in [Providers -> BOOLEAN]
  /\ unlisted \in [Providers -> BOOLEAN]

\* CLOSED_CNT is in use_cnt.
IsClosed(p) == stage[p] \in {"closing", "closed", "told", "draining"} /\ ~unlisted[p]

\* use_cnt is the number of its users, so that a wait for it means something,
\* unless it was set to 0 when there were users left.
UsersCounted ==
  \A p \in Providers :
    stage[p] # "out" /\ ~overrun[p] =>
      use_cnt[p] = Cardinality(Users(p)) + (IF IsClosed(p) THEN CLOSED_CNT ELSE 0)

\* Once the receiver has been told that the provider is gone, no operation of
\* it is running, and none begins until it is registered again; of a provider
\* that did not get into the table nobody is told.
NoOpOnceTold ==
  \A p \in Providers :
    stage[p] \in {"told", "draining", "out"} /\ ~gaveUp[p] /\ ~overrun[p] /\ ~unlisted[p] =>
      \A c \in Clients : ~(pc[c] = "op" /\ Upstream[c] = p)

\* Once unregistration has returned, no client that takes providers_lock
\* before its look at the table has the address of the provider.
GettersGone ==
  \A p \in Providers :
    stage[p] = "out" /\ ~gaveUp[p] => \A c \in Getters : ~Holds(c, p)

\* When the owners are at rest the path leads to the providers that are
\* registered, and to no other.
PathCurrent ==
  \A p \in Providers :
    {stage[p], stage[Source]} \subseteq {"in", "out"} =>
      /\ active[p] => registered[p]
      /\ registered[p] /\ registered[Source] => active[p]

\* Unregistration returns, whatever the clients do.
UnregReturns == \A p \in Providers : stage[p] = "close" ~> stage[p] = "out"
=============================================================================
