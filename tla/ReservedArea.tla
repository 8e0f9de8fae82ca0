---------------------------- MODULE ReservedArea ----------------------------
(***************************************************************************)
(* drivers/mtd/common/reserve/rsv-manage.c: one reserved area of the NAND  *)
(* flash (environment, keys or device tree): the scan at boot, saves and   *)
(* reads.  The callers hold the device (_get_device is the mutex of the    *)
(* chip) from the beginning of a call to its end, so that one call runs at *)
(* a time; a step is one erase or one page written or read.  The power may *)
(* be lost before, in the middle of and after each of them.  An erase and  *)
(* the writing of a page may fail.                                         *)
(***************************************************************************)
EXTENDS ReservedFlash

CONSTANTS
  Bad,             \* blocks that the bad block table marks
  MaxTimestamp,    \* bound: nothing is saved once a block has this timestamp
  MaxFailures      \* bound: erases and writes that fail

ASSUME AreaAssumption ==
  /\ Bad \subseteq Blocks /\ MaxTimestamp \in Nat /\ MaxFailures \in Nat

VARIABLES
  flash,               \* external: the blocks of the area
  info,                \* struct meson_rsv_info_t
  start, good_addr, caller,   \* a scan: the block, pages found good, who asked
  pc,                  \* where the call is that holds the device
  saving,              \* the value a save writes
  part,                \* the part it writes or reads next
  got,                 \* what a read has put into its buffer
  returned,            \* history: what the last save to return 0 has saved
  exposed,             \* history: the save erases the only copy it knows
  failures             \* history: how often the flash has failed

ramVars == <<info, start, good_addr, caller, pc, saving, part, got>>
historyVars == <<returned, exposed, failures>>
vars == <<flash, ramVars, historyVars>>

TypeOK ==
  /\ flash \in [Blocks -> [Pages -> {Blank, Torn} \cup AllParts]]
  /\ info \in [valid : BOOLEAN, phy_blk_addr : Blocks \cup {-1},
               phy_page_addr : Nat, timestamp : Nat,
               status : BOOLEAN, free_node : Seq(Blocks)]
  /\ Len(info.free_node) <= Nodes
  /\ start \in 0..end_block /\ good_addr \subseteq Pages /\ caller \in {"boot", "read"}
  /\ pc \in {"off", "scan", "clear", "idle", "search", "erase", "write", "read", "stuck", "oops"}
  /\ saving \in Values \cup {None} /\ part \in 0..page_num
  /\ got \in Seq(Values \cup {None}) /\ Len(got) <= page_num
  /\ returned \in Values \cup {None}
  /\ exposed \in BOOLEAN /\ failures \in 0..MaxFailures

\* A new device: good blocks are blank, bad ones read as blank or not at all.
Init ==
  /\ flash \in [Blocks -> {Filled(Blank), Filled(Torn)}]
  /\ \A b \in Blocks \ Bad : flash[b] = Filled(Blank)
  /\ info = Unscanned /\ start = 0 /\ good_addr = {} /\ caller = "boot" /\ pc = "off"
  /\ saving = None /\ part = 0 /\ got = <<>>
  /\ returned = None /\ exposed = FALSE /\ failures = 0
-----------------------------------------------------------------------------
\* meson_rsv_check at probe.
Boot ==
  /\ pc = "off" /\ pc' = "scan" /\ caller' = "boot"
  /\ UNCHANGED <<flash, info, start, good_addr, saving, part, got, historyVars>>

\* Where the call goes on when a scan has ended with ret.
ScanReturns(ret) ==
  /\ start' = 0 /\ good_addr' = {} /\ part' = 0
  /\ IF caller = "read" /\ ret \in {"ok", "nomem"}
     THEN pc' = "read" /\ UNCHANGED got
     ELSE pc' = "idle" /\ got' = <<>>

\* The first stage: a block that cannot be probed is passed over.
ScanBlock ==
  /\ pc = "scan" /\ start < end_block
  /\ IF Probed(flash, start) = {}
     THEN start' = start + 1 /\ UNCHANGED <<info, good_addr, part, pc, got>>
     ELSE LET r == FirstStage(info, start, Probe(flash, start)) IN
          /\ info' = r.info
          /\ IF r.ret = "nomem" THEN ScanReturns("nomem")
             ELSE start' = start + 1 /\ UNCHANGED <<good_addr, part, pc, got>>
  /\ UNCHANGED <<flash, caller, saving, historyVars>>

ScanValidBlock ==
  /\ pc = "scan" /\ start = end_block
  /\ LET r == SecondStage(flash, info, good_addr) IN
     /\ info' = r.info
     /\ IF r.ret # "retry" THEN ScanReturns(r.ret)
        ELSE /\ pc' = "clear"
             /\ good_addr' = good_addr \cup Readable(flash, info.phy_blk_addr)
             /\ UNCHANGED <<start, part, got>>
  /\ UNCHANGED <<flash, caller, saving, historyVars>>

\* Faulty version: the erase is refused, as the area is still protected.
Protected(b) == flash
Erased(b) == [flash EXCEPT ![b] = Filled(Blank)]

\* meson_free_rsv_info: the block is erased, or not, and everything forgotten.
Clear ==
  /\ pc = "clear"
  /\ \/ /\ flash' = Erased(info.phy_blk_addr)
        /\ UNCHANGED failures
     \/ /\ failures < MaxFailures /\ failures' = failures + 1
        /\ UNCHANGED flash
  /\ info' = Unscanned /\ pc' = "scan" /\ start' = 0
  /\ UNCHANGED <<good_addr, caller, saving, part, got, returned, exposed>>
-----------------------------------------------------------------------------
\* Faulty version: an area found abnormal is written where the scan stopped.
PageKept == info.phy_page_addr

\* An abnormal area is not written behind its last copy: its block counts as full.
StartPage == IF info.status THEN pages_per_blk ELSE info.phy_page_addr

Full == info.phy_page_addr + 2 * page_num > pages_per_blk

\* The save will erase the valid block first: it is abnormal, or full while the
\* list has no good block to go to.
AtRisk == info.valid /\ (info.status \/ (Full /\ Range(info.free_node) \subseteq Bad))

\* Saves that end with -ENOMEM take phy_page_addr ever further; that is cut off.
Bounded == info.timestamp < MaxTimestamp /\ info.phy_page_addr <= 2 * pages_per_blk

Save(v) ==
  /\ pc = "idle" /\ Bounded
  /\ pc' = "search" /\ saving' = v
  /\ info' = [info EXCEPT !.phy_page_addr = StartPage]
  /\ exposed' = AtRisk
  /\ UNCHANGED <<flash, start, good_addr, caller, part, got, returned, failures>>

\* The save returns an error; what info says now stays.
GiveUp == pc' = "idle" /\ saving' = None /\ exposed' = FALSE

\* Faulty version: the block that is left is forgotten.
Dropped(list, b) == list
PutLast(list, b) == Append(list, b)

\* The first block of the list becomes the valid one.  If the table calls it
\* bad, the search begins again as if it had one copy left.
EnterBlock(i, list) ==
  /\ info' = [i EXCEPT !.phy_blk_addr = Head(list), !.free_node = Tail(list),
                       !.timestamp = @ + 1,
                       !.phy_page_addr = IF Head(list) \in Bad THEN pages_per_blk - page_num ELSE 0]
  /\ pc' = IF Head(list) \in Bad THEN "search" ELSE "erase"
  /\ UNCHANGED <<saving, exposed>>

\* The block is left: -ENOMEM without a node for it, a null pointer without a
\* block to go to.
LeaveBlock(i) ==
  IF NoFreeNode(i) THEN info' = i /\ GiveUp
  ELSE IF i.free_node = <<>> THEN pc' = "oops" /\ info' = i /\ UNCHANGED <<saving, exposed>>
  ELSE EnterBlock(i, PutLast(i.free_node, i.phy_blk_addr))

PageAfter == [info EXCEPT !.phy_page_addr = @ + page_num]
Erases == info.valid /\ info.phy_page_addr = pages_per_blk

\* There is room for another copy in the block.
SearchSameBlock ==
  /\ pc = "search" /\ info.valid /\ ~Full
  /\ info' = PageAfter /\ pc' = "write" /\ part' = 0
  /\ UNCHANGED <<flash, start, good_addr, caller, saving, got, historyVars>>

\* The block is full.
SearchNextBlock ==
  /\ pc = "search" /\ info.valid /\ Full /\ ~Erases
  /\ LeaveBlock(PageAfter)
  /\ UNCHANGED <<flash, start, good_addr, caller, part, got, returned, failures>>

\* The block is abnormal: it is erased before it is left.
SearchEraseBlock ==
  /\ pc = "search" /\ Erases
  /\ flash' = Erased(info.phy_blk_addr)
  /\ LeaveBlock(PageAfter)
  /\ UNCHANGED <<start, good_addr, caller, part, got, returned, failures>>

\* Nothing was saved before.
SearchFirstBlock ==
  /\ pc = "search" /\ ~info.valid
  /\ IF info.free_node = <<>> THEN pc' = "oops" /\ UNCHANGED <<info, saving, exposed>>
                              ELSE EnterBlock(info, info.free_node)
  /\ UNCHANGED <<flash, start, good_addr, caller, part, got, returned, failures>>

EraseNext ==
  /\ pc = "erase"
  /\ flash' = Erased(info.phy_blk_addr)
  /\ pc' = "write" /\ part' = 0
  /\ UNCHANGED <<info, start, good_addr, caller, saving, got, historyVars>>

\* The erase fails: _block_markbad takes the mutex that the caller holds.
EraseFails ==
  /\ pc = "erase" \/ (pc = "search" /\ Erases)
  /\ failures < MaxFailures /\ failures' = failures + 1
  /\ \E block \in {flash[info.phy_blk_addr], Filled(Torn)} :
       flash' = [flash EXCEPT ![info.phy_blk_addr] = block]
  /\ pc' = "stuck"
  /\ UNCHANGED <<info, start, good_addr, caller, saving, part, got, returned, exposed>>

\* meson_rsv_write, one page; after the last one the save returns 0.
Write ==
  /\ pc = "write"
  /\ flash' = [flash EXCEPT ![info.phy_blk_addr][info.phy_page_addr + part] =
                 Part(info.timestamp, saving)]
  /\ part' = part + 1
  /\ IF part + 1 < page_num THEN UNCHANGED <<info, pc, saving, returned, exposed>>
     ELSE /\ info' = [info EXCEPT !.valid = TRUE, !.status = FALSE]
          /\ returned' = saving /\ GiveUp
  /\ UNCHANGED <<start, good_addr, caller, got, failures>>

WriteFails ==
  /\ pc = "write" /\ failures < MaxFailures /\ failures' = failures + 1
  /\ \E page \in {flash[info.phy_blk_addr][info.phy_page_addr + part], Torn} :
       flash' = [flash EXCEPT ![info.phy_blk_addr][info.phy_page_addr + part] = page]
  /\ GiveUp
  /\ UNCHANGED <<info, start, good_addr, caller, part, got, returned>>
-----------------------------------------------------------------------------
\* The page at an offset from the beginning of a block, or of the area behind.
PageAt(b, p) ==
  IF b + (p \div pages_per_blk) \in Blocks
  THEN flash[b + (p \div pages_per_blk)][p % pages_per_blk] ELSE Blank

Read ==
  /\ pc = "idle" /\ info.valid
  /\ pc' = "read" /\ caller' = "read" /\ part' = 0 /\ got' = <<>>
  /\ UNCHANGED <<flash, info, start, good_addr, saving, historyVars>>

\* One page: a part that ends up in its place counts with its value.  The
\* name of the page is looked at, but a page without it is taken as well.
ReadPart ==
  /\ pc = "read" /\ Len(got) < page_num
  /\ LET page == PageAt(info.phy_blk_addr, info.phy_page_addr + part) IN
     /\ page.kind # "torn"
     /\ got' = Append(got, IF part = Len(got) THEN page.value ELSE None)
  /\ part' = (part + 1) % page_num
  /\ UNCHANGED <<flash, info, start, good_addr, caller, pc, saving, historyVars>>

\* An ECC error: the area is scanned again and the read goes on from the
\* first part of whatever copy is found, behind what it has read before.
ReadTorn ==
  /\ pc = "read" /\ Len(got) < page_num
  /\ PageAt(info.phy_blk_addr, info.phy_page_addr + part).kind = "torn"
  /\ pc' = "scan"
  /\ UNCHANGED <<flash, info, start, good_addr, caller, saving, part, got, historyVars>>

ReadReturn ==
  /\ pc = "read" /\ Len(got) = page_num
  /\ pc' = "idle" /\ got' = <<>>
  /\ UNCHANGED <<flash, info, start, good_addr, caller, saving, part, historyVars>>
-----------------------------------------------------------------------------
\* What the power loss can leave of the block that is being erased and of the
\* page that is being written.
TornBlock ==
  IF pc \in {"clear", "erase"} \/ (pc = "search" /\ Erases)
  THEN {[flash EXCEPT ![info.phy_blk_addr] = Filled(Torn)]} ELSE {}
TornPage ==
  IF pc = "write"
  THEN {[flash EXCEPT ![info.phy_blk_addr][info.phy_page_addr + part] = Torn]} ELSE {}

PowerLoss ==
  /\ pc # "off" /\ pc' = "off"
  /\ flash' \in {flash} \cup TornBlock \cup TornPage
  /\ info' = Unscanned /\ start' = 0 /\ good_addr' = {} /\ caller' = "boot"
  /\ saving' = None /\ part' = 0 /\ got' = <<>> /\ exposed' = FALSE
  /\ UNCHANGED <<returned, failures>>

\* The steps of a call that has begun.
Work ==
  \/ ScanBlock \/ ScanValidBlock \/ Clear
  \/ SearchSameBlock \/ SearchNextBlock \/ SearchEraseBlock \/ SearchFirstBlock
  \/ EraseNext \/ EraseFails \/ Write \/ WriteFails
  \/ ReadPart \/ ReadTorn \/ ReadReturn

Next == Boot \/ Work \/ Read \/ PowerLoss \/ (\E v \in Values : Save(v))

Spec == Init /\ [][Next]_vars

\* A call that has begun goes on.
FairSpec == Spec /\ WF_vars(Work)
-----------------------------------------------------------------------------
(***************************************************************************)
(* Properties                                                              *)
(***************************************************************************)
\* The area is an atomic register: at every moment the newest whole copy is
\* the value of the last save, or of the save in progress once that has
\* written its last page, whenever and however often the power is lost; except
\* between the beginning and the end of a save that erases the valid block.
Register ==
  INSTANCE AtomicRegister WITH
    value <- Newest(flash), pending <- saving, atRisk <- exposed \/ failures > 0
ImplementsRegister == Register!Spec

\* A restart finds what there is: the copy the scan settles on is whole and is
\* the newest one, wherever and however often the power was lost, until an
\* erase or a write has failed.
RestartFindsNewest ==
  pc = "scan" /\ start = end_block /\ caller = "boot" /\ failures = 0 =>
    LET r == SecondStage(flash, info, good_addr)
        place == <<r.info.phy_blk_addr, r.info.phy_page_addr \div page_num>>
    IN r.ret = "ok" \/ (r.ret = "bad" /\ r.info.valid) =>
         place \in Whole(flash) /\ First(flash, place).value = Newest(flash)

\* A page is written only if it is blank, in whatever state the power loss
\* left the block and whatever the scan made of it.
ProgramsBlankPages ==
  pc = "write" /\ failures = 0 => flash[info.phy_blk_addr][info.phy_page_addr + part] = Blank

\* Every block that can be used is in the list once or is the valid one, so
\* that none is lost to the area and the valid one is not given out.
BlocksAccounted ==
  pc = "idle" /\ failures = 0 =>
    LET list == info.free_node IN
    /\ IsInjective(list) /\ info.phy_blk_addr \notin Range(list)
    /\ \A b \in Blocks \ Bad :
         Probed(flash, b) # {} => b \in Range(list) \cup {info.phy_blk_addr}

\* A read that succeeds returns the newest whole copy.
ReadsCurrent ==
  pc = "read" /\ failures = 0 => \A k \in 1..Len(got) : got[k] = Newest(flash)

\* A call that has begun ends, or the power is lost; but for a flash that
\* fails and an area without a block to go to.
CallsEnd ==
  pc \notin {"off", "idle"} ~> (pc \in {"off", "idle", "oops"} \/ failures > 0)
=============================================================================
