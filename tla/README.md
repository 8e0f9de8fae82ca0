# Verification of the Amlogic common_drivers kernel modules

This directory holds TLA+ specifications of code in `src/drivers` that coordinates several actors or survives power loss, the TLC configurations that model-check them, and theorems about them that the TLAPS proof system checks. `PROJECT.json` lists the components, the runs, the mutants that show each property can be broken, the lines of source each definition stands for, the hazards of the code and the theorems.

1. The system and what of it is modelled
2. How the components interact
3. Modules and their correspondence to the code
4. Runs: what is asked, the bounds, what they show
5. Fairness
6. Theorems and how they are proved
7. What the code does not keep
8. What is only model-checked, and what is not modelled
9. Plan

## 1. The system and what of it is modelled

The repository is a tree of Linux kernel modules for Amlogic chips: 5157 files, most of them register programming, register tables, device trees and firmware glue. What can be model-checked with profit is the code that coordinates several actors: processors that share a lock, processes that pass buffers through a driver, modules that register with each other while frames flow, memory that outlives its owner, and a store on flash that must survive power loss.

| part | state it keeps | operations | hard behaviour | what makes it correct | modelled |
|---|---|---|---|---|---|
| bakery hwspinlock (`hwspinlock/hwspinlock_bakery.c`) | a word per core in device memory: choosing bit, ticket | trylock, unlock, probe | every access interleaves with the other cores; tickets are 15 bits | mutual exclusion, order of arrival, every trylock returns | `HwspinlockBakery` |
| video tunnel, buffers (`media/video_processor/videotunnel`) | a pool of slots, two fifos, the two sessions, file references | queue, dequeue, cancel, acquire, release, refresh, connect, disconnect, close | calls of two processes under two locks, processes that die with buffers anywhere | a buffer is in one place, references balance, buffers come back, a release hits the right buffer | `VideoTunnel`, `BufferExchange` |
| video tunnel, identifiers | table of instances, reference counts, dummy and hard-coded ids | alloc, free, connect, disconnect, close | sessions share instances they do not own; failures half way; ids that are recycled | an instance exists while it is used, an id stands for one instance and has one owner while anybody is connected, references are counted | `VideoTunnelIds` |
| video tunnel, commands and poll | command fifo, game mode, last command, status flag, wait queues | send, receive, resend, poll, VT_CTRL_POLL_CMD | a flag beside a fifo, waits on several queues, three locks | a new consumer learns the settings, the waiter is woken | `VideoTunnelCommands` |
| reserved area of the NAND flash (`mtd/common/reserve/rsv-manage.c`) | pages of a few erase blocks; the block and page of the newest copy, a list of the other blocks, an abnormal flag | scan, save, read | power loss at any step, failing erases and writes, bad blocks, a scan that has to make sense of what is left | a save replaces the old value at once or not at all; a restart finds it; no page is written twice | `ReservedFlash`, `ReservedArea`, `AtomicRegister` |
| vfm (`media/common/vfm`) | table of providers, active bits of a path, a use count per provider and one for all | register, unregister, get, peek, put, get_states, notify | providers are unregistered while others, interrupts among them, call them without a lock | who is told that a provider is gone finds no operation of it running; unregistration returns | `VframeProviders` |
| codec_mm keeper (`media/common/codec_mm/codec_mm_keeper.c`, with `video_sink/video_keeper.c`) | a list of kept memory with ids, users and delays; a counter; delayed work; an id per video layer | keep, unmask, free in the work, forced free | a list that is looked at without its lock, interrupts that clear ids, freers that overlap | every reference is given back once; what is held stays, what is given up goes | `MediaKeeper` |
| decoder buffer core (`media_modules/amvdec_ports/aml_buf_core.c`) | buffers with a count, a bit map of users, a free queue | get, put, get_ref, put_ref, done, fill, callbacks, reset, attach, detach | four users hold a buffer at once; a reset while they do | a buffer is free when nobody uses it | planned |
| regmap hwspinlock, mailbox, uvm, resource manager, msync, pts server, media proxy | see `PROJECT.json` | | timeouts, deferred release, preemption | see section 9 | planned |
| decoders, deinterlacers, display, demodulators, input, security, platform control, sound, debugging, yaffs2 | mostly hardware state | | | | no: reasons in `PROJECT.json` |

## 2. How the components interact

*Bakery hwspinlock.* Each processor of the chip that runs a driver or a firmware with this code owns one word of `struct bakery_lock`. Processors interact only through these words. Above it is the kernel's hwspinlock core, which calls `trylock` and `unlock`.

*Video tunnel.* A tunnel (`struct vt_instance`) joins two processes, each with a session: a producer (a decoder's client) and a consumer (the display service). Both call ioctls on `/dev/videotunnel`, or the exported `vt_*` functions, which run the same handlers. A buffer is a `struct file` that the producer queues; the consumer acquires it under a file descriptor of its own, and releases it, perhaps with a fence that tells the producer when the display has finished reading. The three modules of the tunnel split this state by what can be told apart, and each names what it leaves to the others:

- `VideoTunnelIds`: which instance an id stands for and how long it exists. From it `VideoTunnel` and `VideoTunnelCommands` take that the instance they work on exists.
- `VideoTunnel`: what happens to the buffers of one instance.
- `VideoTunnelCommands`: what happens to its commands, and who waits for what. Of the buffers it keeps only whether a fifo holds one, which is all `poll` looks at.

Locks of the tunnel: `dev->instance_lock` protects the table of ids, `instance->lock` the slots and the sessions, `instance->cmd_lock` the command fifo. A call tests its session without a lock and looks its instance up without `dev->instance_lock` in some handlers, which is why the models split calls at the locks.

*Reserved area.* The drivers of the environment, the keys and the device tree call `meson_rsv_save` and `meson_rsv_read` on their own few blocks, each with its own `meson_rsv_info_t`; `meson_rsv_check` scans them at probe. A call holds the mutex of the chip from beginning to end. What interacts here is a call and the power loss: everything in memory is gone, and the scan starts from the pages.

*vfm.* A decoder registers a provider under a name; a path (`vfm_map_s`) lists the names from the source to the display. A module in the path asks for the provider in front of it by way of the path's `active` bits and calls its operations; the module that owns the provider registers and unregisters it whenever it likes. They interact through the table, the bits and two counters.

*Keeper.* The display (`video_keeper.c`) keeps the memory of the last frame of each layer: `codec_mm_keeper_mask_keep_mem` takes a reference and gives an id, `codec_mm_keeper_unmask_keeper` gives it up, in the interrupt too; the delayed work frees what has been given up when its delay is over, and writers of two sysfs files free as well.

The components do not call each other, except that the frames which travel along a vfm path lie in memory that the keeper may keep; nothing of the one's state is read by the other.

## 3. Modules and their correspondence to the code

### `HwspinlockBakery`

`lock_data[i]` is three functions: `booted` (the word is not the reset value any more), `choosing` (bit 0), `number` (bits 1-15). `they`, `my_ticket` and `their_ticket` are the locals of `pBakery_get_ticket` and `aml_hwspinlock_trylock`. A step is one load or store of another core's word: `Choose` and `PublishTicket` are the two stores of `pBakery_get_ticket`, `ReadTicket` one round of its loop, `PassContender` / `GiveWay` / `TicketChanged` the rounds of the loop in trylock, `Acquire` its end, `Unlock` the release, `UnlockAssert` the endless loop of `__assert`, `Probe` the first clearing of the word. A busy wait that has not ended is no step. `SpinOnStaleLoad` is what a build may do with a plain `u32` read in a loop: load it once (`Hoisted = TRUE`). The loads and stores themselves are ordered, because `devm_ioremap` maps device memory. Tickets are stored modulo `Tickets` (2^15 in the code) while the local keeps all bits, as in `make_bakery_data`; `wrapped` records that a ticket did not fit. `ahead` is a history variable for the order of arrival.

### `VideoTunnel`

Slots are the entries of `vt_buffers[]`; `status` is `item.buffer_status`; the two fifos are sequences of slots. A pointer to a session stays in a slot (`session_pro`) after the session has gone, as in the code. `current` abbreviates the comparison of `cid_pro` with the producer's connection id. `file_buffer` and `file_fence` say whether the slot's pointers are set, stale or not; `file_ref` and `fence_ref` are history and say whether the driver really owns a reference, so that a double put and a leak both show. `view` is external: the files consumer processes have open, and which slot each came from.

A queue call has two sections under the lock (`QueuePick`, `QueuePut`) and a dequeue call two (`DequeueWait`, and then `DequeuePop` or one of its failures); the other calls have one, after `Enter`, the test of the session without the lock. `Close` is `vt_session_destroy`: `CloseLeavingPeer` and `CloseLeavingNobody` are the two halves of `vt_instance_trim`. `Put` drops what does not fit, as `kfifo_put` does, whose result the code ignores. Early returns with an error are `QueueNoSlot`, `AcquireNoFd`, `ReleaseUnknown`, the second outcome of `QueuePick` (a bad file descriptor), `DequeuePrevious` (the buffer of an earlier connection) and `DequeueNoFd` (no descriptor for the fence), both of which take the slot out of the fifo all the same. `lent` and `unreported` are history: the buffers the connected producer has queued and not been given back, and those among them that a failed dequeue took.

`BufferExchange` is the abstract specification: buffers that are with the producer, on their way out, held, or on their way back. `VideoTunnel!Exchange` is the refinement mapping (the outgoing sequence is `to_consumer`, held are the slots in `acquire`, returning is `to_producer`).

### `VideoTunnelIds`

`instance_idr` is the idr, with `Dummy` for `&dummy_instance`; `instances` is the red-black tree of those that exist. `AllocId`, `AllocFull` and `Reuse` are the three outcomes of `vt_alloc_id_process`. `ConnectFound` and `ConnectNew` are its first section of `vt_connect_process` under `dev->instance_lock`, `ConnectDone` and `ConnectRefused` the second under `instance->lock`. References are put outside the locks (`Put`), and `vt_instance_destroy` takes `dev->instance_lock` by itself (`Destroy`): between the two the instance is still in the table. A session that connects to a place it has already is let in again, with a second reference (`ConnectDone`). `DisconnectFound` is the look at the table without a lock; the call then finds itself connected (`Disconnect`) or returns an error (`DisconnectFails`). `CallOnFreed` is a call whose instance was destroyed under it: the memory is gone, and the model lets the call return. `Known` is external: a session connects to and disconnects from the ids it allocated and those it knows, at any time, before they are allocated and after they were freed. `use`, chosen in the initial state from the constant `Uses` and never changed, says who allocates, frees and dies, which ids each session knows, and whether ids are asked for when there are none left. `held` is history, and so are three variables that record what the code lets go wrong, so that the properties can say that nothing else does: `unguarded` instances were given to a session without a reference, `lost` counts the references nobody will put any more, and `deserted` ids have been left by everybody who was connected to them.

### `VideoTunnelCommands`

Commands are of four kinds: game mode on and off, and the status HIDE, which is sent again to a new consumer, and SHOW, which is not. Sending is two steps (`SendCmd` under `cmd_lock`, `WakeConsumer` under `instance->lock`, both inside `dev->instance_lock`); connecting is four (`vt_resend_cmd_process_locked` looks at the mode, at the last command, and puts each into the fifo under `cmd_lock`). `DevUnlocked` and `InstanceUnlocked` say who may enter. `poll` is `PollRegister`, `PollCmds`, `PollBuffers`, `PollWake`; `PollCmdCall` is `vt_poll_cmd_process`. Commands are sent also while a consumer connects, in between the steps that allow it, and who is connected may connect again. `Reopen` is `vt_instance_trim` of a producer or a consumer whose process dies: `ModeWithout` is what becomes of the mode, with the branch that ends it when the producer dies and the one for a tunnel nobody is left in. `use` says which sessions disconnect and which commands are sent. `told`, `late`, `unheard` and `behind` are history: what a consumer was last told; that a command came since it cleared its flag; what ended without a command behind it that a consumer would receive; and what a session brought along from an earlier connection, since a disconnect resets neither its mode nor what user space knows.

### `ReservedFlash`, `ReservedArea` and `AtomicRegister`

`ReservedFlash` is the data: what a page can be (blank, torn, a part of a copy with a timestamp), and the scan as functions of the flash. `FirstStage` is one round of the loop over the blocks, with the three ways the list `free_node` changes and the case that it is full; `SecondStage` reads the valid block and settles on the last complete copy, with the early return for a clean block, the `-1` for one-page areas and the retry that erases the block. `good_addr`, the array of readable pages, survives the retry as in the code. `Newest` is the reference definition: the last whole copy of the block with the highest timestamp.

`ReservedArea` is the calls. `Boot`, `ScanBlock`, `ScanValidBlock` and `Clear` (`meson_free_rsv_info`) are the scan; `Save` and the `Search...` steps are `meson_rsv_save` up to the first write: next copy in the block, next block of the list, erase of an abnormal block before it is left, first block ever; `EraseNext`, `Write` and their failures follow; `Read`, `ReadPart`, `ReadTorn` (which scans again) and `ReadReturn` are `meson_rsv_read`. `pc` is where the call is; `stuck` is the self-deadlock of section 7, `oops` the null pointer. `PowerLoss` may come between any two steps and in the middle of an erase or a page write, which it leaves torn. `exposed` and `returned` are history: the save in progress erases the only copy it knows, and the value of the last save that returned 0.

`AtomicRegister` is the promise: `value` changes only in `Commit`, to the value being saved. The refinement maps `value` to `Newest(flash)` - what is on the flash, not what the driver believes - and suspends the promise only while `exposed` or after a failure.

### `VframeProviders`

`registered` is membership in `provider_table`, `table` how many slots it has, `lost` how many are used by nobody because the name did not fit (`RegTooLong`). A registration is refused after the use count was reset if the name is in the table (`RegRefused`), and returns 0 without an entry if the table is full (`RegNoSlot`); `UnregMissing` is the unregistration of such a provider. `active` the bits of the path, `use_cnt` and `provider_used` the counters with their arithmetic (`CLOSED_CNT` included). `stage` is where the owner of a provider is in `vf_reg_provider` or `vf_unreg_provider`, split wherever another processor can see the difference; `polls` counts the turns of the two waits, which end when the count is used up. Clients are of three kinds, by what they do in which order: `Getters` take `providers_lock` before they look the provider up, `Askers` (`vf_get_states_by_name`) after, `Notifiers` never. `gaveUp`, `overrun` and `unlisted` are history: a wait ended unsatisfied; `use_cnt` was reset under its users; the last registration found no slot.

### `MediaKeeper`

`handle`, `keep_id` and `user` are the fields of the list; `due` holds the slots whose `delay_on_jiffies64` has passed, which time (`Elapse`) does at any moment. A call of a layer is `Request` (the reference), `Mask` (the section under the lock), `UnmaskOld` and `Assign`; `Notify` and `NotifyClear` are the interrupt, two steps because the id is cleared after the unmasking. A freer goes through the slots with `LookTime` and `LookUser`, two loads without the lock, `FreeKeep` under it, and `Release` after it. `keeperRefs` is external: the references that `codec_mm` counts for this owner. `use` says what a behaviour contains, as above.

### MC and proof modules

`MCHwspinlockBakery`, `MCVideoTunnel`, `MCVideoTunnelIds`, `MCVideoTunnelCommands`, `MCReservedArea`, `MCVframeProviders` and `MCMediaKeeper` name the model values, the threads of the sessions, the ways of use and the symmetry sets. `HwspinlockBakeryProofs`, `VideoTunnelProofs`, `VideoTunnelIdsProofs`, `VideoTunnelCommandsProofs`, `BufferExchangeProofs`, `ReservedAreaProofs`, `VframeProvidersProofs` and `MediaKeeperProofs` hold the proofs; the lemmas on sequences without repetitions are in `BufferExchangeProofs`, which the tunnel's proofs cite.

Definitions commented as faulty (`NoScan`, `MatchingAnyStatus`, `FoundWithoutReference`, ...) are used by no specification. Each is what a plausible bug would make of the definition after it; `PROJECT.json` pairs them with the property that then fails.

## 4. Runs: what is asked, the bounds, what they show

| run | question | instance | states |
|---|---|---|---|
| `bakery_lock` | Does the lock exclude, in order of arrival, with its assertions holding, when loads may be stale? Does every trylock return when they are not? | 3 cores booting at any time, tickets 0..3 | 170 554 |
| `bakery_ticket_wrap` (violated) | Does the lock exclude for ever? | 2 cores, tickets 0..3 | |
| `tunnel_pair` | Do buffers come back, does a release act on its own buffer, with a refresh asked for at any time? Does the tunnel implement the exchange? | producer (may die) and consumer, 2 slots, 2 files, all calls | 695 496 |
| `tunnel_deaths` | Do slots, fifos and references stay consistent and implement the exchange when anybody dies? | 2 producers and a consumer, all may die, files abandoned, queue, dequeue, acquire and release, 2 slots, 1 file, dequeue limit 2 | 140 930 |
| `tunnel_lost_buffers` (violated) | Do buffers come back when the consumer's process dies? | a pair, the consumer may die | |
| `ids` | Are counts exact, do instances exist while used, is an id one instance and one session's own, when sessions connect at any time and ids are handed out again? | 3 sessions, ids 0 and 1 of which 1 is allocated, 3 instances, up to 3 references; two uses: nobody dies, ids are allocated and freed by two sessions while all connect to the ids they know; or two die, and more ids are asked for than there are | 987 298 |
| `ids_table_full` (violated) | Is an id one instance when the table is full and tunnel 0 is in use? | 2 sessions that connect to id 0, allocated ids 1.. | |
| `commands` | Does a new consumer learn mode and status, and when does it not learn that they ended? Is a wakeup ever lost? | producer and 2 consumers, all may die and connect again, 2 pending, fifo of 4; three uses: all commands while the producer disconnects; game mode, or the status, while everybody does | 2 692 113 |
| `commands_poll_blind` (violated) | Is a consumer in `poll` woken by a command? | a pair | |
| `reserved_power_loss` | Is a save atomic, does a restart find the newest copy, do reads return it, is every block accounted for and every page blank when written, does every call end? | 4 blocks, one of them bad, 2 copies of 2 pages in a block, 2 values, power loss at any step, one failing erase or write, until timestamp 3 | 151 694 |
| `vfm_path` | Do counters count, is a provider quiet once its receiver was told, do getters have its address no longer, is the path current, does unregistration return? | path of 2 providers, a client of each kind, waits of 1 turn, a table for both or one that fills | 503 769 |
| `media_keeper` | Are references balanced, does held memory stay, is memory that was given up freed? | list of 2 slots, ids 1..3; five uses: 2 layers and 3 memories undisturbed, 2 layers that keep memory twice, a layer with interrupts, a layer with forced freeing of each kind | 407 004 |

Why these bounds are enough to be interesting:

- *Cores.* Two cores show a lost race, three a cycle of waiting and overtaking. *Tickets* = 4 lets tickets grow by contention, reach the limit of the field and wrap within the run; everything but `AlwaysExclusive` is stated for the time before.
- *Slots.* Two slots are enough to have one on its way and one held, to fill the fifo of each direction and to exhaust the pool. *Files*: with one, descriptors run out (`AcquireNoFd`), with two a number is used again for another slot. *Dequeue limit*: 0 (never waits) and 2 (the whole pool), so that both outcomes of the test occur. *Calls*: `tunnel_deaths` leaves cancel and refresh to `tunnel_pair`, to keep the instance small.
- *Ids*: with one id to allocate, a second session that asks finds the table full, so that surplus instances are discarded and the id of a dead or a departed session is handed out again; dummies fill the id below it. Three instances leave one for a surplus instance while an old one is still being put. `MaxRef` = 3 bounds the references that repeated and refused connections gather: a connection, a call of another session and the allocation at once.
- *Commands pending*: `Pending` bounds the commands that wait when something is sent; the fifo holds two more, which is what a connection sends again, so that commands are not dropped: a full fifo drops the newest command, about which nothing is promised. Commands that fill the fifo further and uses that mix all commands with departures of everybody add no new case: game mode and status are remembered by different variables.
- *Reserved area*: two copies in a block make "the next copy in the same block" and "the block is full" both happen, two pages per copy make torn copies. With three good blocks and timestamps to 3 the area goes round; `Nodes` is more than the blocks, as in the code. `Timestamps` is above `MaxTimestamp`, so that nothing wraps (section 7). `MaxFailures` = 1: after it only what must hold of a failing flash is stated.
- *vfm*: one provider in front of three clients, so that every kind overlaps every stage of both owners; a wait of one turn has all outcomes of a longer one, satisfied at once, later, or never. A table of one slot is full when one provider is registered, or when one name did not fit.
- *Keeper*: a list of two slots fills, and a call with a third memory finds no slot; ids to `MaxId` let each layer replace its frame; a longer list adds no new interleaving of two freers on one slot. `MAX_KEEP_ID` is 2^31 - 2, so ids do not come round in practice.
- Deadlock is checked in every passing run but two: a core may fail an assertion or, with a stale load, spin for ever; and the keeper stops when its ids are used up (`MaxId`).

Properties are invariants, except `ReleaseHitsOwnBuffer` (an action property: a release takes the slot the file came from), `ImplementsExchange` and `ImplementsRegister` (refinements), and `EveryTrylockReturns`, `CallsEnd`, `UnregReturns` and `UnmaskedFreed` (leads-to).

What holds only under a restriction says so: `MutualExclusion`, `FirstComeFirstServed`, `AssertionsHold` and `EveryTrylockReturns` until a ticket wraps; `NoBufferLost` and `ReleaseHitsOwnBuffer` while the consumer's process lives and closes only what it has released, `NoBufferLost` of all buffers but those a dequeue without a descriptor took (`unreported`); `InstanceExists`, `ReferencesCounted` and `ReferencesSuffice` of the instances that were not given out without a reference (`unguarded`), and `OwnIds` until everybody who was connected has left (`deserted`); the second halves of `GameModeReaches` and `StatusReaches` but for what ended unheard (`unheard`) or was brought along (`behind`); `StatusReaches` while the status is the last command; `PollCmdWoken` of the commands sent after the flag was cleared; `RestartFindsNewest`, `ProgramsBlankPages`, `BlocksAccounted`, `ReadsCurrent` and `CallsEnd` until the flash has failed; `NoOpOnceTold` and `GettersGone` unless a wait was given up, `NoOpOnceTold` and `UsersCounted` unless the count was reset under its users, and `NoOpOnceTold` of providers that are in the table; `KeptWhileHeld` while nobody keeps memory twice or forces the freeing, `UnmaskedFreed` while nobody forces it. The behaviours excepted are in the runs, except timestamps that do not fit and, in `tunnel_pair`, the death of the consumer and abandoned files; each history is set only by the step that it names. Section 7 says what happens otherwise.

## 5. Fairness

Each leads-to property is checked under the weak fairness that the kernel's scheduling justifies, and no more.

- `bakery_lock`: `Run(i)` of each core: a core that is inside trylock, or holds the lock, takes its next step. The kernel's hwspinlock core calls trylock with a spinlock held, so that no scheduler is involved in its busy waits, and hwspinlock users release the lock after a bounded section. Nothing is assumed of `Probe` and `Choose`: a core need not boot nor ask for the lock. `EveryTrylockReturns` is about builds whose loads are fresh: with a load that was moved out of its loop it is false.
- `reserved_power_loss`: `Work`, the step of a call that has begun: erases and page operations of the controller end. A save, a read and the power loss need not happen.
- `vfm_path`: `OwnerGoesOn(p)`: the thread that registers or unregisters is not stopped for ever, and its waits are bounded loops with sleeps. Nothing is assumed of clients: an operation of a provider may never end, and unregistration returns all the same, since it gives up.
- `media_keeper`: the work queue runs what is scheduled (`MonitorGoesOn`), calls of layers and interrupts go on, and time passes (`Elapse`). Nothing is assumed of writers, of new requests or of interrupts that come.

The tunnel's waits have timeouts, so that no call waits for ever whatever happens; what matters is that no wakeup is lost, which is a safety property (`BufferPollerWoken`, `PollCmdWoken`).

## 6. Theorems and how they are proved

| theorem | statement | assumptions |
|---|---|---|
| `BakeryTypes`, `BakeryMutualExclusion`, `BakeryFirstComeFirstServed`, `BakeryAssertions` | `Spec => []TypeOK` and so on | 2 to 256 cores, at least 2 tickets, `Hoisted` either way |
| `TunnelTypes`, `TunnelStatusTellsFifo`, `TunnelReferencesBalanced` | `OneCallAtATime => (Spec => []...)` | any sessions, threads, pool, files, closers |
| `TunnelNoBufferLost` | `OneCallAtATime /\ ConsumersStay => (Spec => []NoBufferLost)` | consumers disconnect and do not die; dequeue calls that fail included |
| `TunnelImplementsExchange`, `TunnelOnePlace` | `OneCallAtATime => (Spec => ImplementsExchange)`, `... => (Spec => []Exchange!OnePlace)` | as above, deaths included |
| `TunnelReleaseHitsOwnBuffer` | `OneCallAtATime /\ OneConsumer /\ ConsumersStay /\ ~Abandon => (Spec => ReleaseHitsOwnBuffer)` | one consumer, that does not die nor close files it has not released; producers may die |
| `ExchangeOnePlace` | `Spec => []OnePlace` of `BufferExchange` | any set of buffers |
| `IdsTypes`, `IdsInstanceExists`, `IdsOneInstancePerId`, `IdsAreOwn`, `IdsReferencesSuffice`, `IdsReferencesCounted` | `TunnelZeroUnused => (Spec => []...)` | any finitely many sessions that connect, disconnect, free and die as they like, any instances and range of ids with an id below it; where ids run out, nobody connects to tunnel 0 |
| `CommandsTypes`, `CommandsBufferPollerWoken`, `CommandsPollCmdWoken` | `Spec => []TypeOK` and so on | any consumers, closers, size of the fifo and uses |
| `CommandsGameModeReaches`, `CommandsStatusReaches` | `Pending + 1 < VT_CMD_FIFO_SIZE => (Spec => []...)` | as above, and a fifo that does not overflow |
| `VfmTypes`, `VfmUsersCounted`, `VfmNoOpOnceTold`, `VfmGettersGone`, `VfmPathCurrent` | `Spec => []TypeOK` and so on | any providers and path, any finite number of clients of each kind, any number of polls, `CLOSED_CNT` below minus the number of clients |
| `KeeperTypes`, `KeeperReferencesBalanced`, `KeeperKeptWhileHeld` | `Spec => []...` | any layers and writers (finitely many), memory, length of the list, and every use, forced freeing and interrupts included |
| `AreaTypes` | `Spec => []TypeOK` | any blocks, pages, parts of a copy, nodes, bad blocks and failures |
| `AreaScanFindsNewest`, `AreaProgramsBlankPages`, `AreaBlocksAccounted`, `AreaReadsCurrent`, `AreaImplementsRegister` | `Spec /\ []TimestampsFit => ...` | as above, while the timestamp of the current block fits into its field |
| `AreaTimestampsFit` | `MaxTimestamp + Nodes <= Timestamps => (Spec => []TimestampsFit)` | the field has room for the last save that is allowed and one block for each node |

*Bakery.* `MutualExclusion` alone is not inductive: a core that has passed another in its loop relies on what that one can still do. `IInv` adds, for each core, what its word holds at each place of its program (`OwnWord`, `OwnTicket`), and for each pair, `Order`: once core i has passed core j, j is `Behind` i, that is, if j has its ticket out it has lower priority, and if j is still choosing and has read i's word, it has seen a ticket as high as i's. The last is what makes j's future ticket higher. `Queue` says the same of the cores that were there first. All parts but `OwnWord` hold until a ticket wraps. Each part has its step lemma; `IInvSafe` derives the properties: two cores in the critical section would each precede the other.

*Tunnel.* `TunnelInv` adds to `TypeOK`, `StatusTellsFifo` and `ReferencesBalanced` three facts: `InCalls` (the test at the entry of a call still holds inside it, because a session cannot disconnect during its own call), `Filling` (the slot picked by a queue call is still free or dequeued, has its file and no fence) and `Pointers` (queued and acquired slots have their file, queued ones no fence). `Filling` is where `OneCallAtATime` is needed: with two threads on a session it is false (section 7). Steps are grouped by what they do to slots: `QuietCallStep` (nothing), `MoveStep` (slots move with their references), and one lemma each for queueing, cancelling, dropping fifos and closing. `FifoHasRoom` counts: a sequence of distinct slots is no longer than the pool, so `Put` never drops. `NoBufferLost` needs `Loan`: a lent slot was queued under the current connection of the connected producer. The refinement is proved action by action: `ProducerImplements`, `ConsumerImplements`, `ConnectionImplements`, `CloseImplements`. With `ExchangeOnePlace`, every slot of a tunnel is in one place (`TunnelOnePlace`). `ReleaseHitsOwnBuffer` is about numbers: a release names a file, the driver looks for the slot with that number, and the kernel gives numbers out again. `FilesKnown` says that an acquired slot has the number of a file the consumer has open for this slot, and that a queued slot has no number; so the number a release names is found in one slot only. It breaks with a second consumer, whose files have the same numbers, and with a consumer that dies or abandons a file (section 7): hence `OneConsumer`, `ConsumersStay` and `~Abandon`.

*Identifiers.* `TunnelZeroUnused` is the one condition on clients, and it is needed: with tunnel 0 in use and no id left, `OneInstancePerId` fails (`ids_table_full`). `MIN_VIDEO_TUNNEL_ID` is above 0 so that the id 0 of an instance that was given none is never an allocated one. The invariant says that the table and the tree are one to one but for an instance about to be discarded (`Table`), that an id somebody holds stands for an instance unless everybody has left it (`Held`), that a discarded instance is known to one call (`Discards`), that one call only destroys an instance and finds no reference left (`Destroyers`), that what is used exists unless it was given out without a reference (`Users`), what is counted (`Counts`: connections, calls with a reference of their own, holders of the id, and lost ones, exactly), and what an id needs to be one session's own (`Deserted`: before everybody has left, one holder, a reference, and somebody connected if anybody was). The counts make an instance that somebody uses one that nobody can destroy (`UsedIsReferenced`), which is what closes the circle. A connection that finds a count of zero sets `unguarded`, and so does a reuse for which no lost reference is there to take over; from then on nothing is claimed of this instance, and all the others keep their counts. The lemmas `OneMore` and `OneLess` give the change of each count; there is one lemma per action.

*Commands.* The two wakeup properties are nearly inductive: what they need besides the types is who can be waiting when a command or a buffer comes. Of the other two, the property speaks of a consumer that has received everything; the invariant says what is still on its way. `ModeOnItsWay`: the last game mode command in the fifo is the mode of the tunnel, and without such a command the consumer is in that mode already; a connection that is past sending the mode again has left it in the fifo. `StatusOnItsWay` says the same of HIDE and SHOW while they are the last command. Both say as well whom a mode or status can still reach that has ended: who received it, through the fifo, or because its connection had looked before (`unheard`) or it brought it along (`behind`). `Producers` ties the mode to the producer: every step that removes it ends the mode, and `unheard` remembers that no command says so. `ConnectAlone` keeps two connections apart (`instance->lock`). `Pending` is the model's bound on commands waiting when something is sent; `Room` shows that a connection, which sends two more, then never fills the fifo if the bound is low enough. A fifo that overflows drops the newest command after the mode was changed (`videotunnel.c:1234`), and both properties are false then. Who disconnects, dies and connects again, and what is sent while a consumer connects, is not restricted.

*vfm.* The properties speak of what the counters are for, so the invariant has to say what they count: `LockCounted` (`provider_used` is the number of clients of `Lockers`), `Counted` (`use_cnt` is the number of users, plus `CLOSED_CNT` from the close on; or the provider is still as it was initialised), `PlacesInv` (which kinds of clients get where), `RegisteredAt` (a provider in the table is between insertion and removal, and one between these that is not in the table found no slot). `NoOps` is `NoOpOnceTold` from the end of the wait on, where it becomes true: `NoUsersLeft` turns the count at or below `CLOSED_CNT` into an empty set of users. `GettersGone` follows from `LockCounted` at the second wait. `PathInv` extends `PathCurrent` to every stage. The counting lemmas (`JoinCounts`, `UsersAfterMove`, `LockersAfterMove`) say what one client's step does to both sets; after that there is one lemma per action.

*Keeper.* `ReferencesBalanced` equates a counter with the sizes of three sets, so each step is a question of who joins and leaves which set (`Counts`). `InHand` is what makes it inductive: a call about to fill a slot, and a freer about to release, have memory in hand. That `keeperRefs` stays a natural number is not assumed but follows from the balance (`BalancedRefs`), which is why the types and the balance are proved together. `Smallest` shows that the first empty slot exists. `KeptWhileHeld` needs the careers of ids: `IdsInv` (an id is in one slot, and below `next_id`), `HoldingInv` (the ids a holder can still unmask are its own and no other's, and what it displays is masked), `AskingInv` (what is about to be kept is in no slot yet) and `FreeingInv` (what the work is about to free has no user, and cannot get one). These hold in uses that neither keep memory twice nor force the freeing (`Simple`). `UndisturbedInv` is what is true besides without interrupts: then each masked id is held by somebody.

*Reserved area.* `IInv` is the types together with `Sound`, which holds until an erase or a write fails. What the flash looks like after any number of power losses is `FlashOK`: a block is written from its first page on with one timestamp and, when an erase was interrupted, torn throughout (`Orderly`); the parts of a copy are of one save (`OneSave`); named blocks differ in their timestamps; bad blocks are never written. The other parts say what the driver knows at each place. During the scan (`Scanned`), info has the newest block of those that were looked at, and the list has the others that can be probed, each once; `SecondStageFinds` then shows that the second stage ends at the last whole copy of that block, whichever of its pages are torn, with the pages kept over a retry (`good_addr`) included. `Settled` and `Listing` are what a scan leaves behind and every save restores. During a search `Ahead` says why a save that is not `exposed` is safe: before the list comes round to the newest block it has a good one, and every block up to that is superseded by another (`Superseded`), so that erasing it loses nothing (`OldCopiesLost`). `WriteInv` says how far the copy has been written, and that all behind it is blank. From there `ProgramsBlankPages` is a matter of place, and the refinement one of counting parts: `Newest(flash)` stays while the copy is incomplete (`WriteStep`), changes with its last part and with nothing else. The scan's `Min` and `Max` exist by `Smallest` and `Largest`.

All this compares timestamps as numbers, which is right while they fit into the 15 bits of the page (`TimestampsFit`). `AreaTimestampsFit` shows that it is enough to stop in time: saves begin below `MaxTimestamp`, and a save takes one timestamp for each bad block it meets. `StampsInv` bounds how many these are: blocks that were written are good (`OnlyGoodWritten`), so the block that a save leaves is good, and the list with this block behind it has a good block before the timestamps are used up (`Turn`). In the run 3 + 5 <= 8; in the code the field takes 32768 timestamps, and nothing stops the driver there (section 7).

Everything is proved from the assumptions named in the modules (`BakeryCpusAssumption`, `TicketsAssumption`, `HoistedAssumption`, `SessionAssumption`, `PoolAssumption`, `SessionsAssumption`, `IdsAssumption`, `CommandsAssumption`, `VfmAssumption`, `KeeperAssumption`, `FlashAssumption`, `AreaAssumption`), which TLC evaluates in the runs, and from the library's facts on finite sets and sequences.

## 7. What the code does not keep

Four disagreements between the code and what it says of itself are runs of their own, quoted in `PROJECT.json`: the ticket that outgrows its field, the buffers that a dying consumer takes along, the tunnel 0 that leaves the table when no id is free, and the consumer that `poll` does not wake for a command.

The models show others, which are found by changing one constant of a passing run and are kept out of the list of runs:

- Two threads that queue on one session can be given the same slot, because its status changes only in the second section: `StatusTellsFifo` fails with a second thread on `p1`. Hence `OneCallAtATime`.
- Slots that a dead consumer had acquired stay acquired while the producer stays, and nobody has a file to release them with.
- A consumer that closes an unreleased file and is given its number again releases the wrong slot: `ReleaseHitsOwnBuffer` fails with `Abandon = TRUE`.
- `Hoisted = TRUE` makes `EveryTrylockReturns` false: the busy-wait loops read a plain `u32`.
- A dequeue that finds no file descriptor for the fence returns `-ENOMEM` with the slot taken out of the fifo and its status changed to dequeued (`videotunnel.c:1703`, `:1722-1731`): the producer is not told which buffer it was, the slot is used again, and the buffer never comes back (`unreported`). `NoBufferLost` fails without its exception.
- A session that connects to an id whose last reference has just been put finds the instance, which is still in the table (line 1078, between the put at 432 and the section from 362 on): the count does not leave zero and the instance is destroyed under the connection (`unguarded`). `InstanceExists` fails without its exception.
- A session that is connected may connect again to the same place (lines 1084 and 1098); the second reference (line 1078) is never put, because a disconnect puts one (line 1175). `lost` counts it.
- An id that everybody connected has left but its owner has not freed is handed out again when the table is full (line 868), and the new holder gets no reference: the first of the two that frees it destroys the other's instance, unless a reference was lost before. `OwnIds` fails without `deserted`, `ReferencesCounted` without `unguarded`.
- The references of a connection and of an allocation are never put if the session dies, so the instance survives `VT_IOC_FREE_ID` (`lost`).
- A game mode, or a HIDE, that ends while a consumer connects is sent again after the command that ended it; and a producer that disconnects or dies (lines 1153 and 704) ends the mode without telling the consumer. In these cases (`unheard`) the consumer stays in game mode, or hidden, with a tunnel that is not: `GameModeReaches` and `StatusReaches` fail without the exception.
- A session that disconnects keeps its mode and connects with it again (`behind`).
- A status is forgotten when any other command follows it, so that the next consumer does not learn it.
- A producer in `poll` waits on a queue that a release does not wake; a command that arrives between the look at the fifo and the reset of `cmd_status` is not seen by `VT_CTRL_POLL_CMD` until its timeout.

Of the reserved area:

- An erase that fails ends in `_block_markbad`, which takes the chip's mutex that the caller holds (`rsv-manage.c:345`, `:413`; the callers take it by `_get_device`, for example `rsv-key.c:96`, which is `chip->lock` in `meson_nand.c:48` and `spinand->lock` in `meson_spinand.c:96`, and the marking takes the same at `meson_nand.c:1624` and `meson_spinand.c:166`): the thread waits for itself (`pc = "stuck"`).
- A save that finds its valid block abnormal, or full with no good block to go to, erases it before the new copy is written; if the power is lost then, nothing is left, although the comment at `rsv-manage.c:316` speaks of the first power loss only. `exposed` marks these saves, and `ImplementsRegister` promises nothing during them.
- After a write that failed, a later save that returns 0 may not be what the next restart finds. A write that fails and leaves its page blank makes a hole in the block; the next copy is written behind it, the scan ends at the first blank page, so that after a restart the pages behind the hole are written a second time, and a power loss there leaves a copy of parts of two saves, on which the scan can settle. `RestartFindsNewest` fails without its condition on `failures`, which ends the promises.
- An area without a block to go to, at the end of a list of nothing but bad blocks for example, dereferences the head of an empty list (`pc = "oops"`).
- The timestamp has 15 bits (`aml_rsv.h:83`): after 32768 blocks the scan prefers the older one. The run stays below.
- A read that meets an ECC error scans again and goes on behind what it has read, with the first part of whatever copy it finds (lines 684-691); the second scan adds the blocks to `free_node` a second time, until `-ENOMEM`.
- `good_addr` and the result `-1` survive the retry of the scan; `good_addr` has 256 entries (line 441), whatever the number of pages in a block.

Of vfm:

- A notifier, and `vf_get_states_by_name`, hold the address of a provider that has been unregistered and returned to its owner, although the wait at `vframe_provider.c:374` is there for this: `GettersGone` is about the callers that lock first.
- Both waits are given up after 10000 turns, and then the operation still runs. Since the second waits for *all* providers, the clients of one can make the unregistration of another give up.
- Registering again while a late user of the last registration is still there resets its count (line 276): `overrun`. So does a registration that is then refused because the provider is in the table (line 281).
- A registration that finds no free slot returns 0 (lines 316-325): the provider is never found, and its unregistration neither closes it nor tells anybody (`unlisted`), so that a client that has its address from the last registration can begin an operation after it. A name that is too long is refused with its slot marked used for ever (lines 289-295).

Of the keeper:

- Memory that is kept again has one slot, one reference and `user` 1, so the first of its two holders to unmask it takes it from the other: `KeptWhileHeld` fails without its condition on `use.rekeep`.
- Two freers can decide on the same slot. The second then frees whatever was put there meanwhile, and takes one from `num` in any case; when `num` reaches 0 too early the work stops and what is in the list stays. Hence the conditions on `use.forced`.
- The delay and the users of a slot are read one after the other without the lock: a slot whose delay was over before it was unmasked is freed at once, without the 80 ms that the comment at `video_keeper.c:884` wants.
- An update that stores its new id between the interrupt's unmasking of the old one and its clearing loses the new id; that memory stays kept for good.
- `codec_mm_keeper_mask_keep_mem` gives a reference back with interrupts disabled (line 127); what the allocator does then may sleep.

## 8. What is only model-checked, and what is not modelled

Only model-checked: `EveryTrylockReturns`, `CallsEnd`, `UnregReturns` and `UnmaskedFreed`: liveness under fairness is outside the prover. Every other property of the passing runs has a theorem. In `VideoTunnelIds` the properties are proved for clients that leave tunnel 0 alone where ids run out, in `VideoTunnelCommands` two of them for fifos that do not overflow, and in `ReservedArea` for timestamps that fit. Liveness, ENABLED and induction over data are not attempted with TLAPS; no module declares a RECURSIVE operator, and the scan of the reserved area, which is a loop over pages in the code, is stated with the first and last members of sets.

Left out of the modelled components: statistics and debugfs; timeouts as durations (a call that can give up may do so at any time while its fifo is empty); the crop and display rectangles, resent like the other commands; a session's blocking mode, which only chooses how long a call waits; memory allocation failures other than those of ids and file descriptors; `vt_set_vsync_info`, which stores one record. In `VideoTunnelIds` what a call does to memory that was freed under it is left out: the call returns. In `VideoTunnelCommands` only the session that is connected sends and receives, although the driver checks no more than the role it had when it last connected; the tunnel exists throughout.

Of the reserved area: the erase counters in the pages, by which nothing is decided; the handler's setup and the wrappers that format environment, keys and bad block table. Of vfm: two structures with one name (a provider is one structure), light registration (`vf_light_reg_provider`), changes of the path through sysfs, the receivers' table, tracing. Of the keeper: the two kinds of memory are one, the layers' several ids (of head, enhancement layer and double write) are one each, and how the last frame is copied into memory of the display itself is left out.

Other components: `PROJECT.json` gives the reason for each. Most of the tree cannot be modelled to any purpose: its state is in hardware registers, in firmware that is not in the repository, or in the kernel.

## 9. Plan

In this order, each with its MC module and mutants as above:

1. `DecoderBuffers` (`aml_buf_core.c`): get, put, get_ref, put_ref, done, fill, the callbacks of the post processor, reset, attach, detach; abstract specification: a pool whose free queue and users partition the buffers. Properties: a buffer in the free queue has no user bit and no count, a reset never frees a buffer under the display, ports attach once.
2. `Mailbox` (`meson_mbox_fifo.c`): messages with answers that race timeouts; property: an answer completes the message it belongs to.
3. The receivers of vfm (`vframe_receiver.c`) composed with `VframeProviders`: a receiver hears of a provider's going before it calls it, and is not called itself once it has gone.
4. `RegmapHwspinlock`, the sessions of msync, the resource manager.

Proofs to come: with each of these modules its types and the property named above, and for `DecoderBuffers` that it implements the pool.
