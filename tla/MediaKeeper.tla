----------------------------- MODULE MediaKeeper -----------------------------
(***************************************************************************)
(* drivers/media/common/codec_mm/codec_mm_keeper.c: the last frame of a    *)
(* video stays on the screen after its decoder has gone, so its memory is  *)
(* kept: the keeper takes a reference and hands out an id, and gives the   *)
(* reference back some time after the id was unmasked.  The list of what   *)
(* is kept is changed under a lock; who looks for memory to free takes it  *)
(* only afterwards.  The holders of ids are the layers of                  *)
(* video_sink/video_keeper.c, whose id an interrupt may clear while it is  *)
(* replaced.                                                               *)
(*                                                                         *)
(* References to both kinds of memory (codec_mm and scatter) are counted   *)
(* alike and are one thing here; time is whether a slot's delay is over.   *)
(***************************************************************************)
EXTENDS Integers, FiniteSets

CONSTANTS
  Holders,          \* video layers: each keeps one frame
  Handles,          \* memory that can be kept
  Monitor,          \* the delayed work
  Writers,          \* writers of codec_mm's debug and tvp_enable files
  None,
  MAX_KEEP_FRAME,
  START_KEEP_ID,
  MaxId,            \* bound: ids that are given out (MAX_KEEP_ID is 2^31 - 2)
  Uses              \* who does what in a behaviour, see Use

Slots == 1..MAX_KEEP_FRAME
Freers == {Monitor} \cup Writers

\* What may happen: these layers keep this memory; memory that is kept is kept
\* again; an interrupt clears an id in the middle of its update; freeing is
\* forced (1: everything, 2: without waiting for the delay).
Use == [holders : SUBSET Holders, handles : SUBSET Handles,
        rekeep : BOOLEAN, interrupt : BOOLEAN, forced : SUBSET {1, 2}]

ASSUME KeeperAssumption ==
  /\ MAX_KEEP_FRAME \in Nat \ {0} /\ START_KEEP_ID \in Nat \ {0} /\ MaxId \in Nat
  /\ IsFiniteSet(Holders) /\ IsFiniteSet(Writers) /\ Monitor \notin Writers
  /\ None \notin Handles /\ Uses \subseteq Use

VARIABLES
  handle, keep_id, user,   \* keep_list
  due,                     \* slots whose delay_on_jiffies64 has passed
  num, next_id,
  pending,                 \* delay_work is scheduled
  keeperRefs,              \* external: the keeper's references to the memory
  id, pc, mem, ret, old,   \* of each holder: its id, and the call that changes it
  notify,                  \* of each holder: where the call is that clears its id
  fpc, index, timeAfter, force, freed,  \* of each freer: where it is and its locals
  use                      \* an element of Uses, never changed

listVars == <<handle, keep_id, user, due, num, next_id>>
holderVars == <<id, pc, mem, ret, old, notify>>
freerVars == <<fpc, index, timeAfter, force, freed>>
vars == <<listVars, pending, keeperRefs, holderVars, freerVars, use>>

Init ==
  /\ handle = [i \in Slots |-> None] /\ keep_id = [i \in Slots |-> 0]
  /\ user = [i \in Slots |-> 0] /\ due = Slots
  /\ num = 0 /\ next_id = START_KEEP_ID /\ pending = FALSE
  /\ keeperRefs = [h \in Handles |-> 0]
  /\ id = [u \in Holders |-> 0] /\ pc = [u \in Holders |-> "idle"]
  /\ mem = [u \in Holders |-> None]
  /\ ret = [u \in Holders |-> 0] /\ old = [u \in Holders |-> 0]
  /\ notify = [u \in Holders |-> "idle"]
  /\ fpc = [f \in Freers |-> "idle"] /\ index = [f \in Freers |-> 1]
  /\ timeAfter = [f \in Freers |-> FALSE] /\ force = [f \in Freers |-> 0]
  /\ freed = [f \in Freers |-> None]
  /\ use \in Uses
-----------------------------------------------------------------------------
Referenced(h) == [keeperRefs EXCEPT ![h] = @ + 1]
Dereferenced(h) == [keeperRefs EXCEPT ![h] = @ - 1]

\* The slots of the list that hold the memory, the calls that are about to put
\* it there, and those that have taken it out.
SlotsOf(h) == {i \in Slots : handle[i] = h}
Asking(h) == {u \in Holders : pc[u] = "mask" /\ mem[u] = h}
Releasing(h) == {f \in Freers : fpc[f] = "release" /\ freed[f] = h}

Kept(h) == SlotsOf(h) # {} \/ Asking(h) # {}

At(u, from) == pc[u] = from
Goes(u, to) == pc' = [pc EXCEPT ![u] = to]

\* A call ends, and its locals with it.
Returns(u) ==
  Goes(u, "idle") /\ ret' = [ret EXCEPT ![u] = 0] /\ old' = [old EXCEPT ![u] = 0]

\* video_keeper_update_keeper_mem begins codec_mm_keeper_mask_keep_mem: the
\* reference.  It may be refused, which changes nothing: the memory is gone or
\* has eight references.
Request(u, h) ==
  /\ At(u, "idle") /\ (use.interrupt \/ notify[u] = "idle")
  /\ use.rekeep \/ ~Kept(h)
  /\ keeperRefs' = Referenced(h)
  /\ Goes(u, "mask")
  /\ mem' = [mem EXCEPT ![u] = h] /\ old' = [old EXCEPT ![u] = id[u]]
  /\ UNCHANGED <<listVars, pending, id, ret, notify, freerVars, use>>

Empty == {i \in Slots : handle[i] = None}
FirstEmpty == CHOOSE i \in Empty : \A j \in Empty : i <= j

\* Faulty version: the reference is kept with memory that was kept already.
ReferenceKept(h) == keeperRefs
TakenBack(h) == Dereferenced(h)

\* Its slot is found, or filled, or there is none.  The reference goes back if
\* the slot has one already or there is none; "user" is 1 however often.
Mask(u) ==
  LET h == mem[u] IN
  /\ At(u, "mask") /\ next_id <= MaxId
  /\ next_id' = next_id + 1
  /\ IF SlotsOf(h) = {} /\ Empty # {}
     THEN /\ handle' = [handle EXCEPT ![FirstEmpty] = h]
          /\ keep_id' = [keep_id EXCEPT ![FirstEmpty] = next_id]
          /\ user' = [user EXCEPT ![FirstEmpty] = 1]
          /\ num' = num + 1
          /\ UNCHANGED keeperRefs
     ELSE keeperRefs' = TakenBack(h) /\ UNCHANGED <<handle, keep_id, user, num>>
  /\ mem' = [mem EXCEPT ![u] = None]
  /\ IF SlotsOf(h) = {} /\ Empty = {} THEN Returns(u)
     ELSE \E k \in IF SlotsOf(h) = {} THEN {next_id} ELSE {keep_id[i] : i \in SlotsOf(h)} :
            /\ ret' = [ret EXCEPT ![u] = k] /\ UNCHANGED old
            /\ Goes(u, IF old[u] > 0 /\ k # old[u] THEN "unmask" ELSE "assign")
  /\ UNCHANGED <<due, pending, id, notify, freerVars, use>>

\* The slot that has an id, or had it last: ids stay when slots are freed.
WithId(k) == {i \in Slots : keep_id[i] = k /\ k >= START_KEEP_ID}
FirstWithId(k) == CHOOSE i \in WithId(k) : \A j \in WithId(k) : i <= j

\* codec_mm_keeper_unmask_keeper under the lock
Unmask(k) ==
  IF WithId(k) = {} THEN UNCHANGED <<user, due>>
  ELSE /\ user' = [user EXCEPT ![FirstWithId(k)] = @ - 1]
       /\ due' = due \ {FirstWithId(k)}

UnmaskOld(u) ==
  /\ At(u, "unmask") /\ Unmask(old[u])
  /\ Goes(u, "schedule")
  /\ UNCHANGED <<handle, keep_id, num, next_id, pending, keeperRefs>>
  /\ UNCHANGED <<id, mem, ret, old, notify, freerVars, use>>

\* The work is scheduled, if an id was unmasked, and the new id is stored.
Assign(u) ==
  /\ pc[u] \in {"schedule", "assign"}
  /\ pending' = (pending \/ At(u, "schedule"))
  /\ id' = [id EXCEPT ![u] = ret[u]]
  /\ Returns(u)
  /\ UNCHANGED <<listVars, keeperRefs, mem, notify, freerVars, use>>

\* video_keeper_new_frame_notify: in the interrupt, or with the mutex that
\* updates hold as well.
Notify(u) ==
  /\ notify[u] = "idle" /\ (use.interrupt \/ At(u, "idle"))
  /\ id[u] > 0 /\ Unmask(id[u])
  /\ notify' = [notify EXCEPT ![u] = "clear"]
  /\ UNCHANGED <<handle, keep_id, num, next_id, pending, keeperRefs>>
  /\ UNCHANGED <<id, pc, mem, ret, old, freerVars, use>>

\* Faulty version: the work is left to whoever runs next.
NotScheduled == pending
Scheduled == TRUE

NotifyClear(u) ==
  /\ notify[u] = "clear" /\ pending' = Scheduled
  /\ id' = [id EXCEPT ![u] = 0]
  /\ notify' = [notify EXCEPT ![u] = "idle"]
  /\ UNCHANGED <<listVars, keeperRefs, pc, mem, ret, old, freerVars, use>>
-----------------------------------------------------------------------------
\* A slot's delay is over.
Elapse(i) ==
  /\ i \notin due /\ due' = due \cup {i}
  /\ UNCHANGED <<handle, keep_id, user, num, next_id, pending, keeperRefs, holderVars, freerVars, use>>

\* codec_mm_keeper_free_all_keep begins, in the work or for a writer.
FreeAll(f, value) ==
  /\ fpc[f] = "idle" /\ fpc' = [fpc EXCEPT ![f] = "time"]
  /\ force' = [force EXCEPT ![f] = value]
  /\ UNCHANGED <<listVars, keeperRefs, holderVars, index, timeAfter, freed, use>>

MonitorRuns == pending /\ FreeAll(Monitor, 0) /\ pending' = FALSE
WriterForces(f) == \E value \in use.forced : FreeAll(f, value) /\ UNCHANGED pending

\* Where the loop goes behind a slot.
Following(f) ==
  /\ timeAfter' = [timeAfter EXCEPT ![f] = FALSE] /\ freed' = [freed EXCEPT ![f] = None]
  /\ IF index[f] < MAX_KEEP_FRAME
     THEN /\ fpc' = [fpc EXCEPT ![f] = "time"] /\ index' = [index EXCEPT ![f] = @ + 1]
          /\ UNCHANGED force
     ELSE /\ fpc' = [fpc EXCEPT ![f] = IF f = Monitor THEN "again" ELSE "idle"]
          /\ index' = [index EXCEPT ![f] = 1] /\ force' = [force EXCEPT ![f] = 0]

Stays(f, to) == fpc' = [fpc EXCEPT ![f] = to] /\ UNCHANGED <<index, force>>

\* A slot is looked at without the lock: first its handle and the time.
LookTime(f) ==
  /\ fpc[f] = "time"
  /\ IF handle[index[f]] = None THEN Following(f)
     ELSE /\ timeAfter' = [timeAfter EXCEPT ![f] = index[f] \in due]
          /\ Stays(f, "user") /\ UNCHANGED freed
  /\ UNCHANGED <<listVars, pending, keeperRefs, holderVars, use>>

\* Faulty version: the users are not asked when the delay is over.
TimeOnly(f, users) == force[f] = 1 \/ timeAfter[f]
WantFree(f, users) == force[f] = 1 \/ (users <= 0 /\ (force[f] = 2 \/ timeAfter[f]))

\* Then the number of its users.
LookUser(f) ==
  /\ fpc[f] = "user"
  /\ IF WantFree(f, user[index[f]]) THEN Stays(f, "free") /\ UNCHANGED <<timeAfter, freed>>
                                    ELSE Following(f)
  /\ UNCHANGED <<listVars, pending, keeperRefs, holderVars, use>>

\* Faulty version: the slot is not emptied.
LeftIn(i) == handle
TakenOut(i) == [handle EXCEPT ![i] = None]

\* codec_mm_keeper_free_keep: whatever the slot holds by now is taken out ...
FreeKeep(f) ==
  LET i == index[f] IN
  /\ fpc[f] = "free"
  /\ handle' = TakenOut(i) /\ due' = due \cup {i} /\ num' = num - 1
  /\ IF handle[i] = None THEN Following(f)
     ELSE Stays(f, "release") /\ freed' = [freed EXCEPT ![f] = handle[i]] /\ UNCHANGED timeAfter
  /\ UNCHANGED <<keep_id, user, next_id, pending, keeperRefs, holderVars, use>>

\* ... and its reference is given back.
Release(f) ==
  /\ fpc[f] = "release" /\ keeperRefs' = Dereferenced(freed[f])
  /\ Following(f)
  /\ UNCHANGED <<listVars, pending, holderVars, use>>

\* codec_mm_keeper_monitor: it runs again while something is kept.
MonitorAgain ==
  /\ fpc[Monitor] = "again" /\ fpc' = [fpc EXCEPT ![Monitor] = "idle"]
  /\ pending' = (pending \/ num > 0)
  /\ UNCHANGED <<listVars, keeperRefs, holderVars, index, timeAfter, force, freed, use>>
-----------------------------------------------------------------------------
HolderGoesOn(u) == Mask(u) \/ UnmaskOld(u) \/ Assign(u)
FreerGoesOn(f) == LookTime(f) \/ LookUser(f) \/ FreeKeep(f) \/ Release(f)
MonitorGoesOn == MonitorRuns \/ FreerGoesOn(Monitor) \/ MonitorAgain

Next ==
  \/ \E h \in use.handles, u \in use.holders : Request(u, h)
  \/ \E u \in Holders : HolderGoesOn(u) \/ Notify(u) \/ NotifyClear(u)
  \/ \E i \in Slots : Elapse(i)
  \/ \E f \in Freers : FreerGoesOn(f)
  \/ MonitorRuns \/ MonitorAgain
  \/ \E f \in Writers : WriterForces(f)

Spec == Init /\ [][Next]_vars

\* Calls that have begun go on, the work runs when it is scheduled, and time
\* passes.
FairSpec ==
  /\ Spec /\ WF_vars(MonitorGoesOn)
  /\ \A u \in Holders : WF_vars(HolderGoesOn(u)) /\ WF_vars(NotifyClear(u))
  /\ \A i \in Slots : WF_vars(Elapse(i))
-----------------------------------------------------------------------------
(***************************************************************************)
(* Properties                                                              *)
(***************************************************************************)
TypeOK ==
  /\ handle \in [Slots -> Handles \cup {None}] /\ keep_id \in [Slots -> Nat]
  /\ user \in [Slots -> Int] /\ due \subseteq Slots
  /\ num \in Int /\ next_id \in Nat /\ pending \in BOOLEAN
  /\ keeperRefs \in [Handles -> Nat]
  /\ id \in [Holders -> Int] /\ ret \in [Holders -> Int] /\ old \in [Holders -> Int]
  /\ pc \in [Holders -> {"idle", "mask", "unmask", "schedule", "assign"}]
  /\ mem \in [Holders -> Handles \cup {None}]
  /\ notify \in [Holders -> {"idle", "clear"}]
  /\ fpc \in [Freers -> {"idle", "time", "user", "free", "release", "again"}]
  /\ index \in [Freers -> Slots] /\ timeAfter \in [Freers -> BOOLEAN]
  /\ force \in [Freers -> 0..2] /\ freed \in [Freers -> Handles \cup {None}]
  /\ use \in Uses

\* The keeper's references to memory: one for its slot, one for every call that
\* is about to put it into the list and one for every call that has taken it
\* out.  So each is given back once, whoever frees at the same time.
ReferencesBalanced ==
  \A h \in Handles :
    keeperRefs[h] =
      Cardinality(SlotsOf(h)) + Cardinality(Asking(h)) + Cardinality(Releasing(h))

\* The ids of what is in the list and has not been unmasked.
MaskedIds == {keep_id[i] : i \in {j \in Slots : handle[j] # None /\ user[j] > 0}}

\* Between calls a holder's memory is in the list and will not be freed, and no
\* other memory stays there, as long as nobody keeps what is kept already or
\* forces the freeing; the second also needs updates undisturbed by interrupts.
KeptWhileHeld ==
  LET quiet == {u \in Holders : pc[u] = "idle" /\ notify[u] = "idle"} IN
  ~use.rekeep /\ use.forced = {} =>
    /\ \A u \in quiet : id[u] > 0 => id[u] \in MaskedIds
    /\ quiet = Holders /\ ~use.interrupt => MaskedIds \subseteq {id[u] : u \in Holders}

\* What was unmasked is freed, unless several free at a time: then the counter
\* that keeps the work going may be wrong.
UnmaskedFreed ==
  use.forced = {} =>
    \A i \in Slots : (handle[i] # None /\ user[i] <= 0) ~> handle[i] = None
=============================================================================
