------------------------- MODULE ReservedAreaProofs -------------------------
(***************************************************************************)
(* Proofs about ReservedArea, for any number of blocks, pages, parts of a  *)
(* copy and bad blocks: types always; the rest until the flash fails, as   *)
(* long as the timestamp fits into its field.                              *)
(***************************************************************************)
EXTENDS ReservedArea, SequenceTheorems, FiniteSetTheorems, WellFoundedInduction, TLAPS

\* The block that is written has a timestamp that the page can hold.
TimestampsFit == info.timestamp < Timestamps

-----------------------------------------------------------------------------
\* The scan takes the block for one of the area; with which timestamp; and the
\* block holds a copy from beginning to end.
Named(f, b) == f[b][0].kind = "part"
Stamp(f, b) == f[b][0].timestamp
HasCopy(f, b) == f[b][page_num - 1].kind = "part"

Page(c, k) == c * page_num + k

\* A block is written from the beginning, with one timestamp.
Orderly(f) ==
  \A b \in Blocks, p \in Pages : \A q \in 0..(p - 1) :
    /\ f[b][p].kind = "part" => f[b][q].kind = "part" /\ f[b][q].timestamp = f[b][p].timestamp
    /\ f[b][p].kind = "torn" => f[b][q].kind = "part" \/ f[b] = Filled(Torn)

\* The parts of a copy are of one save.
OneSave(f) ==
  \A b \in Blocks, c \in Copies, k \in 0..(page_num - 1) :
    f[b][Page(c, k)].kind = "part" => f[b][Page(c, k)] = f[b][Page(c, 0)]

DistinctStamps(f) ==
  \A b, o \in Blocks : Named(f, b) /\ Named(f, o) /\ b # o => Stamp(f, b) # Stamp(f, o)

BadUntouched(f) == \A b \in Bad : f[b] \in {Filled(Blank), Filled(Torn)}

FlashOK(f) == Orderly(f) /\ OneSave(f) /\ DistinctStamps(f) /\ BadUntouched(f)

\* There is a newer copy than those of a block, if it holds any.
Superseded(f, b) ==
  HasCopy(f, b) => \E o \in Blocks : HasCopy(f, o) /\ Stamp(f, o) > Stamp(f, b)

\* The other blocks are older.
OthersOlder(f, b, t) == \A o \in Blocks \ {b} : Named(f, o) => Stamp(f, o) < t

BlankFrom(f, b, first) == \A p \in Pages : p >= first => f[b][p].kind = "blank"

\* info points to the last copy of its block, which is followed by blank pages
\* unless the block is abnormal.
AtLastCopy(f, i) ==
  /\ \E c \in Copies :
       /\ i.phy_page_addr = c * page_num /\ <<i.phy_blk_addr, c>> \in Whole(f)
       /\ \A d \in Copies : <<i.phy_blk_addr, d>> \in Whole(f) => d <= c
  /\ ~i.status => BlankFrom(f, i.phy_blk_addr, i.phy_page_addr + page_num)
-----------------------------------------------------------------------------
blk == info.phy_blk_addr
list == info.free_node

\* The newest of the blocks below n; the blocks below n that can be probed.
Best(f, n, b, t) ==
  /\ b \in 0..(n - 1) /\ Named(f, b) /\ t = Stamp(f, b)
  /\ \A o \in 0..(n - 1) : Named(f, o) /\ o # b => Stamp(f, o) < t
Collected(f, n, b, l) ==
  /\ IsInjective(l) /\ b \notin Range(l) /\ Range(l) \subseteq 0..(n - 1)
  /\ \A o \in 0..(n - 1) : Probed(f, o) # {} => o \in Range(l) \cup {b}

\* What the scan knows of the blocks below n.
Scanned(n) ==
  /\ ~info.status /\ info.phy_page_addr = 0 /\ caller = "boot"
  /\ saving = None /\ exposed = FALSE
  /\ good_addr \subseteq 0..(page_num - 2)
  /\ info.valid => Best(flash, n, blk, info.timestamp) /\ Len(list) + 1 <= n
  /\ ~info.valid => blk = -1 /\ Len(list) <= n /\ \A o \in 0..(n - 1) : ~Named(flash, o)
  /\ Collected(flash, n, blk, list)

\* The list of free blocks, outside of the scan.
Listing ==
  /\ IsInjective(list) /\ blk \notin Range(list)
  /\ \A b \in Blocks \ Bad : Probed(flash, b) # {} => b \in Range(list) \cup {blk}
  /\ start = 0 /\ good_addr = {}

\* The valid block is the newest one, and info points to its last copy.
Settled ==
  /\ blk \in Blocks /\ Named(flash, blk) /\ info.timestamp = Stamp(flash, blk)
  /\ OthersOlder(flash, blk, info.timestamp)
  /\ AtLastCopy(flash, info)

\* What a save has written: the parts before page n of a block, with its
\* timestamp, and the first n parts of a copy, with its value.
PartsUpTo(f, b, n, t) == \A p \in 0..(n - 1) : f[b][p].kind = "part" /\ f[b][p].timestamp = t
ValuesUpTo(f, b, c, n, v) == \A k \in 0..(n - 1) : f[b][Page(c, k)].value = v

NothingSaved == \A b \in Blocks : ~Named(flash, b)

OffInv ==
  pc = "off" =>
    /\ info = Unscanned /\ start = 0 /\ good_addr = {} /\ caller = "boot"
    /\ saving = None /\ exposed = FALSE

ScanInv == pc = "scan" => Scanned(start)

ClearInv == pc = "clear" => info.valid /\ Scanned(end_block) /\ ~HasCopy(flash, blk)

IdleInv ==
  pc \in {"idle", "read"} =>
    /\ Listing /\ saving = None /\ exposed = FALSE
    /\ Len(list) <= end_block /\ (info.valid => Len(list) < end_block)
    /\ info.valid => Settled
    /\ ~info.valid => blk = -1 /\ NothingSaved

ReadInv ==
  pc = "read" =>
    /\ info.valid /\ part = Len(got) % page_num
    /\ \A k \in 1..Len(got) : got[k] = Newest(flash)

\* A good block comes in the list before the newest one does.
Ahead ==
  \E i \in 1..Len(list) : list[i] \notin Bad /\ \A j \in 1..i : Superseded(flash, list[j])

SearchInv ==
  pc = "search" =>
    /\ Listing
    /\ Len(list) <= end_block /\ (info.valid => Len(list) < end_block)
    /\ ~info.valid => blk \in Bad \cup {-1} /\ NothingSaved
    /\ info.valid =>
         /\ OthersOlder(flash, blk, info.timestamp)
         /\ Named(flash, blk) => Stamp(flash, blk) <= info.timestamp
         /\ ~Full => Settled /\ ~info.status
         /\ Erases => exposed
         /\ Full /\ ~exposed => Ahead

EraseInv ==
  pc = "erase" =>
    /\ Listing /\ blk \in Blocks \ Bad /\ info.phy_page_addr = 0
    /\ Len(list) < end_block
    /\ \A o \in Blocks : Named(flash, o) => Stamp(flash, o) < info.timestamp
    /\ ~exposed => Superseded(flash, blk)

WriteInv ==
  pc = "write" =>
    /\ Listing /\ blk \in Blocks \ Bad
    /\ Len(list) < end_block
    /\ OthersOlder(flash, blk, info.timestamp)
    /\ \E c \in Copies :
         /\ info.phy_page_addr = c * page_num
         /\ PartsUpTo(flash, blk, Page(c, part), info.timestamp)
         /\ ValuesUpTo(flash, blk, c, part, saving)
    /\ BlankFrom(flash, blk, info.phy_page_addr + part)

\* Until the flash fails.
Sound ==
  /\ FlashOK(flash)
  /\ OffInv /\ ScanInv /\ ClearInv /\ IdleInv /\ ReadInv /\ SearchInv /\ EraseInv /\ WriteInv

\* What the types of a step rest on.
InHand ==
  /\ info.valid => blk \in Blocks
  /\ pc = "clear" => info.valid
  /\ pc \in {"search", "erase", "write"} => saving \in Values
  /\ pc \in {"erase", "write"} => blk \in Blocks
  /\ pc \in {"write", "read"} => part < page_num

TInv == TypeOK /\ InHand

IInv == TInv /\ (failures = 0 => Sound)
-----------------------------------------------------------------------------
\* Where the copies of a block begin and end.
LEMMA Times ==
  ASSUME NEW a \in Nat, NEW b \in Nat, NEW n \in Nat, a <= b
  PROVE  /\ a * n \in Nat /\ b * n \in Nat /\ a * n <= b * n
         /\ (a + 1) * n = a * n + n
OBVIOUS

LEMMA Parameters ==
  /\ page_num \in Nat \ {0} /\ pages_per_blk \in Nat \ {0} /\ end_block \in Nat \ {0, 1}
  /\ pages_per_blk \div page_num \in Nat \ {0}
  /\ (pages_per_blk \div page_num) * page_num = pages_per_blk
BY FlashAssumption

LEMMA PageInBlock ==
  ASSUME NEW c \in Copies, NEW k \in 0..(page_num - 1)
  PROVE  /\ c \in Nat /\ c * page_num \in Nat /\ Page(c, k) = c * page_num + k
         /\ Page(c, k) \in Pages
         /\ c * page_num + page_num <= pages_per_blk
<1> DEFINE n == pages_per_blk \div page_num
<1>1. n \in Nat \ {0} /\ n * page_num = pages_per_blk /\ page_num \in Nat \ {0}
  BY Parameters
<1>2. c \in Nat /\ c + 1 <= n
  BY <1>1 DEF Copies
<1>3. (c + 1) * page_num <= n * page_num /\ (c + 1) * page_num = c * page_num + page_num
      /\ c * page_num \in Nat
  <2>1. c + 1 \in Nat /\ page_num \in Nat /\ n \in Nat
    BY <1>1, <1>2
  <2> HIDE DEF n
  <2> QED
    BY <1>2, <2>1, Times
<1>4. pages_per_blk \in Nat
  BY Parameters
<1> HIDE DEF n
<1> QED
  BY <1>1, <1>2, <1>3, <1>4 DEF Page, Pages

LEMMA FirstPages ==
  0 \in Pages /\ 0 \in Copies /\ page_num - 1 \in Pages /\ 0 \in 0..(page_num - 1)
  /\ Page(0, 0) = 0 /\ Page(0, page_num - 1) = page_num - 1
<1>1. 0 \in Copies /\ page_num - 1 \in 0..(page_num - 1) /\ 0 \in 0..(page_num - 1)
  BY Parameters DEF Copies
<1>2. 0 * page_num = 0
  BY Parameters
<1>3. Page(0, 0) = 0 /\ Page(0, page_num - 1) = page_num - 1
  BY <1>2, Parameters DEF Page
<1>4. Page(0, 0) \in Pages /\ Page(0, page_num - 1) \in Pages
  BY <1>1, PageInBlock
<1> QED
  BY <1>1, <1>3, <1>4

LEMMA LastPart ==
  ASSUME NEW c \in Copies
  PROVE  /\ c \in Nat /\ page_num - 1 \in 0..(page_num - 1)
         /\ Page(c, page_num - 1) \in Pages
         /\ Page(c, page_num - 1) = c * page_num + (page_num - 1)
         /\ Page(c, 0) \in Pages /\ Page(c, 0) = c * page_num /\ c * page_num \in Pages
<1>1. page_num - 1 \in 0..(page_num - 1) /\ 0 \in 0..(page_num - 1)
  BY Parameters
<1>2. c \in Nat /\ c * page_num \in Nat
  BY <1>1, PageInBlock
<1>3. Page(c, page_num - 1) \in Pages /\ Page(c, page_num - 1) = c * page_num + (page_num - 1)
  BY <1>1, PageInBlock
<1>4. Page(c, 0) \in Pages /\ Page(c, 0) = c * page_num + 0
  BY <1>1, PageInBlock
<1> QED
  BY <1>1, <1>2, <1>3, <1>4

LEMMA SamePage ==
  ASSUME NEW c \in Nat, NEW d \in Nat, NEW k \in 0..(page_num - 1), NEW j \in 0..(page_num - 1),
         Page(c, k) = Page(d, j)
  PROVE  c = d /\ k = j
<1>1. page_num \in Nat \ {0}
  BY Parameters
<1>2. ASSUME NEW a \in Nat, NEW b \in Nat, NEW x \in 0..(page_num - 1), NEW y \in 0..(page_num - 1),
             a < b
      PROVE  a * page_num + x < b * page_num + y
  <2>1. a + 1 \in Nat /\ a + 1 <= b
    BY <1>2
  <2>2. (a + 1) * page_num <= b * page_num /\ (a + 1) * page_num = a * page_num + page_num
        /\ a * page_num \in Nat /\ b * page_num \in Nat
    BY <1>1, <2>1, Times
  <2> QED
    BY <1>1, <2>2
<1>3. ~(c < d) /\ ~(d < c)
  <2>1. c < d => c * page_num + k < d * page_num + j
    BY <1>2
  <2>2. d < c => d * page_num + j < c * page_num + k
    BY <1>2
  <2>3. c * page_num \in Nat /\ d * page_num \in Nat /\ k \in Nat /\ j \in Nat
    BY <1>1, Times
  <2> QED
    BY <2>1, <2>2, <2>3 DEF Page
<1>4. c = d
  BY <1>3
<1>5. c * page_num \in Nat
  BY <1>1, Times
<1> QED
  BY <1>4, <1>5 DEF Page

LEMMA PageOfCopy ==
  ASSUME NEW p \in Pages
  PROVE  \E c \in Copies, k \in 0..(page_num - 1) : p = Page(c, k)
<1> DEFINE n == pages_per_blk \div page_num
           c == p \div page_num
           k == p % page_num
<1>1. n \in Nat \ {0} /\ n * page_num = pages_per_blk /\ page_num \in Nat \ {0}
      /\ pages_per_blk \in Nat
  BY Parameters
<1>2. p \in Nat /\ p < pages_per_blk
  BY <1>1 DEF Pages
<1>3. c \in Nat /\ k \in 0..(page_num - 1) /\ p = c * page_num + k
  BY <1>1, <1>2
<1> HIDE DEF n, c, k
<1>4. c < n
  <2> SUFFICES ASSUME n <= c PROVE FALSE
    BY <1>1, <1>3
  <2>1. n * page_num <= c * page_num
    BY <1>1, <1>3, Times
  <2> QED
    BY <1>1, <1>2, <1>3, <2>1, Times
<1>5. c \in Copies
  BY <1>1, <1>3, <1>4 DEF Copies, n
<1> QED
  BY <1>3, <1>5 DEF Page

\* A copy that begins at a page number is found by division.
LEMMA CopyOfPage ==
  ASSUME NEW c \in Nat
  PROVE  (c * page_num) \div page_num = c
BY Parameters

LEMMA NextCopy ==
  ASSUME NEW c \in Copies, c * page_num + 2 * page_num <= pages_per_blk
  PROVE  c + 1 \in Copies /\ (c + 1) * page_num = c * page_num + page_num
<1> DEFINE n == pages_per_blk \div page_num
<1>1. n \in Nat \ {0} /\ n * page_num = pages_per_blk /\ page_num \in Nat \ {0}
      /\ pages_per_blk \in Nat
  BY Parameters
<1>2. c \in Nat /\ 0 \in 0..(page_num - 1)
  BY FirstPages, PageInBlock
<1> HIDE DEF n
<1>3. (c + 2) * page_num = c * page_num + 2 * page_num
      /\ (c + 1) * page_num = c * page_num + page_num
      /\ c * page_num \in Nat
  BY <1>1, <1>2
<1>4. c + 2 <= n
  <2> SUFFICES ASSUME n <= c + 1 PROVE FALSE
    BY <1>1, <1>2
  <2>1. n * page_num <= (c + 1) * page_num
    BY <1>1, <1>2, Times
  <2> QED
    BY <1>1, <1>3, <2>1
<1> QED
  BY <1>1, <1>2, <1>3, <1>4 DEF Copies, n

\* Bounded sets of page numbers, of copies and of places have ends.
LEMMA Smallest ==
  ASSUME NEW T \in SUBSET Nat, T # {}
  PROVE  Min(T) \in T /\ \A y \in T : Min(T) <= y
<1>1. PICK x \in T : \A y \in T : <<y, x>> \notin OpToRel(<, Nat)
  BY NatLessThanWellFounded, WFMin
<1>2. \A y \in T : ~(y < x)
  BY <1>1 DEF OpToRel
<1>3. \A y \in T : x <= y
  BY <1>2
<1> QED
  BY <1>3 DEF Min

LEMMA Largest ==
  ASSUME NEW n \in Nat, NEW T \in SUBSET (0..n), T # {}
  PROVE  Max(T) \in T /\ \A y \in T : y <= Max(T)
<1> DEFINE U == {m \in 0..n : n - m \in T}
<1>1. PICK t \in T : t \in 0..n
  OBVIOUS
<1>2. n - t \in U
  BY <1>1
<1>3. U \in SUBSET Nat /\ U # {}
  BY <1>2
<1>4. Min(U) \in U /\ \A z \in U : Min(U) <= z
  BY <1>3, Smallest
<1>5. PICK x \in T : x = n - Min(U) /\ x \in 0..n
  BY <1>4
<1>6. ASSUME NEW y \in T PROVE x >= y /\ y <= x
  <2>1. n - y \in U
    OBVIOUS
  <2>2. Min(U) <= n - y /\ Min(U) \in 0..n
    BY <1>4, <2>1
  <2> QED
    BY <1>5, <2>2
<1> QED
  BY <1>6 DEF Max
-----------------------------------------------------------------------------
\* Types of the flash and of info.
FlashType(f) == f \in [Blocks -> [Pages -> {Blank, Torn} \cup AllParts]]
InfoType ==
  [valid : BOOLEAN, phy_blk_addr : Blocks \cup {-1}, phy_page_addr : Nat, timestamp : Nat,
   status : BOOLEAN, free_node : Seq(Blocks)]

LEMMA PageKinds ==
  ASSUME NEW f, FlashType(f), NEW b \in Blocks, NEW p \in Pages
  PROVE  /\ f[b][p] \in {Blank, Torn} \cup AllParts
         /\ f[b][p].kind \in {"blank", "torn", "part"}
         /\ f[b][p].kind = "blank" <=> f[b][p] = Blank
         /\ f[b][p].kind = "torn" <=> f[b][p] = Torn
         /\ f[b][p].kind = "part" => f[b][p].timestamp \in Nat /\ f[b][p].value \in Values
         /\ f[b][p].value \in Values \cup {None}
<1>1. f[b][p] \in {Blank, Torn} \cup AllParts
  BY DEF FlashType
<1>2. CASE f[b][p] = Blank
  BY <1>2 DEF Blank, Torn
<1>3. CASE f[b][p] = Torn
  BY <1>3 DEF Blank, Torn
<1>4. CASE f[b][p] \in AllParts
  <2>1. PICK t \in 0..(Timestamps - 1), v \in Values : f[b][p] = Part(t, v)
    BY <1>4 DEF AllParts
  <2>2. t % Timestamps \in Nat
    BY <2>1, FlashAssumption
  <2> QED
    BY <1>1, <2>1, <2>2 DEF Blank, Torn, Part
<1> QED
  BY <1>1, <1>2, <1>3, <1>4

LEMMA LastPageIsPage ==
  ASSUME NEW f, NEW i \in InfoType, i.phy_blk_addr \in Blocks
  PROVE  /\ LastPage(f, i) \in Nat
         /\ Readable(f, i.phy_blk_addr) # {} =>
              /\ LastPage(f, i) \in Readable(f, i.phy_blk_addr)
              /\ \A p \in Readable(f, i.phy_blk_addr) : p <= LastPage(f, i)
<1> DEFINE R == Readable(f, i.phy_blk_addr)
<1>1. R \in SUBSET (0..(pages_per_blk - 1)) /\ pages_per_blk - 1 \in Nat
  BY Parameters DEF Readable, Reached, Pages
<1>2. i.phy_page_addr \in Nat
  BY DEF InfoType
<1>3. CASE R = {}
  <2>1. LastPage(f, i) = Max({i.phy_page_addr})
    BY <1>3 DEF LastPage
  <2>2. {i.phy_page_addr} \in SUBSET (0..(i.phy_page_addr))
    BY <1>2
  <2>3. Max({i.phy_page_addr}) \in {i.phy_page_addr}
    BY <1>2, <2>2, Largest
  <2> QED
    BY <1>2, <1>3, <2>1, <2>3
<1>4. CASE R # {}
  <2>1. LastPage(f, i) = Max(R)
    BY <1>4 DEF LastPage
  <2>2. Max(R) \in R /\ \A p \in R : p <= Max(R)
    BY <1>1, <1>4, Largest
  <2> HIDE DEF R
  <2>3. Max(R) \in 0..(pages_per_blk - 1)
    BY <1>1, <2>2
  <2> QED
    BY <1>1, <2>1, <2>2, <2>3 DEF R
<1> QED
  BY <1>3, <1>4

LEMMA WholeCopies ==
  ASSUME NEW x \in Nat, (x + 1) % page_num = 0
  PROVE  /\ x - (page_num - 1) \in Nat
         /\ \E c \in Nat : x - (page_num - 1) = c * page_num
<1> DEFINE c == (x + 1) \div page_num
<1>1. page_num \in Nat \ {0}
  BY Parameters
<1>2. c \in Nat /\ x + 1 = c * page_num
  BY <1>1
<1> HIDE DEF c
<1>3. c # 0
  BY <1>1, <1>2
<1>4. c - 1 \in Nat /\ (c - 1) * page_num = x - (page_num - 1) /\ (c - 1) * page_num \in Nat
  BY <1>1, <1>2, <1>3
<1> QED
  BY <1>4

LEMMA CompleteCopies ==
  ASSUME NEW good, Complete(good) # {}
  PROVE  /\ Max(Complete(good)) \in Complete(good) /\ Max(Complete(good)) \in Copies
         /\ \A c \in Complete(good) : c <= Max(Complete(good))
<1>1. Complete(good) \in SUBSET (0..((pages_per_blk \div page_num) - 1))
      /\ (pages_per_blk \div page_num) - 1 \in Nat
  BY Parameters DEF Complete, Copies
<1> QED
  BY <1>1, Largest DEF Copies

\* What the second stage returns, whatever is on the flash.
SameBlock(i, j) ==
  /\ j.valid = i.valid /\ j.phy_blk_addr = i.phy_blk_addr /\ j.timestamp = i.timestamp
  /\ j.free_node = i.free_node

LEMMA SecondStageTypes ==
  ASSUME NEW f, NEW i \in InfoType, NEW good, i.valid => i.phy_blk_addr \in Blocks
  PROVE  /\ SecondStage(f, i, good).ret \in {"ok", "bad", "retry"}
         /\ SecondStage(f, i, good).info \in InfoType
         /\ SameBlock(i, SecondStage(f, i, good).info)
         /\ SecondStage(f, i, good).ret = "retry" => i.valid /\ SecondStage(f, i, good).info = i /\ page_num # 1
         /\ ~i.valid => SecondStage(f, i, good).info = i /\ SecondStage(f, i, good).ret = "bad"
<1> DEFINE complete == Complete(good \cup Readable(f, i.phy_blk_addr))
           found(page) == [i EXCEPT !.phy_page_addr = page, !.status = @ \/ Abnormal(f, i)]
<1> HIDE DEF complete
<1>0. SameBlock(i, i)
  BY DEF SameBlock
<1>1. ASSUME NEW page \in Nat
      PROVE  found(page) \in InfoType /\ SameBlock(i, found(page))
  BY DEF InfoType, SameBlock
<1>4. ASSUME NEW j \in InfoType, NEW ret \in {"ok", "bad"}, i.valid, SameBlock(i, j),
             SecondStage(f, i, good) = [info |-> j, ret |-> ret]
      PROVE  /\ SecondStage(f, i, good).ret \in {"ok", "bad"}
             /\ SecondStage(f, i, good).info \in InfoType
             /\ SameBlock(i, SecondStage(f, i, good).info)
  BY <1>4
<1>2. CASE ~i.valid
  <2>1. SecondStage(f, i, good) = [info |-> i, ret |-> "bad"]
    BY <1>2 DEF SecondStage
  <2> QED
    BY <1>0, <1>2, <2>1
<1>3. CASE i.valid
  <2>1. LastPage(f, i) \in Nat
    BY <1>3, LastPageIsPage
  <2>2. CASE ~Abnormal(f, i) /\ good = {}
    <3>1. LastPage(f, i) - (page_num - 1) \in Nat
      BY <2>1, <2>2, WholeCopies DEF Abnormal
    <3>2. SecondStage(f, i, good) = [info |-> found(LastPage(f, i) - (page_num - 1)), ret |-> "ok"]
      BY <1>3, <2>2 DEF SecondStage
    <3> QED
      BY <1>1, <1>3, <1>4, <3>1, <3>2
  <2>3. CASE ~(~Abnormal(f, i) /\ good = {}) /\ page_num = 1
    <3>1. SecondStage(f, i, good) = [info |-> found(LastPage(f, i)), ret |-> "bad"]
      BY <1>3, <2>3 DEF SecondStage
    <3> QED
      BY <1>1, <1>3, <1>4, <2>1, <3>1
  <2>4. CASE ~(~Abnormal(f, i) /\ good = {}) /\ page_num # 1 /\ complete = {}
    <3>1. SecondStage(f, i, good) = [info |-> i, ret |-> "retry"]
      BY <1>3, <2>4 DEF SecondStage, complete
    <3> HIDE DEF found
    <3> QED
      BY <1>0, <1>3, <2>4, <3>1
  <2>5. CASE ~(~Abnormal(f, i) /\ good = {}) /\ page_num # 1 /\ complete # {}
    <3>1. Max(complete) \in Copies
      BY <2>5, CompleteCopies DEF complete
    <3>2. Max(complete) * page_num \in Nat
      BY <3>1, FirstPages, PageInBlock
    <3>3. SecondStage(f, i, good) = [info |-> found(Max(complete) * page_num), ret |-> "ok"]
      BY <1>3, <2>5 DEF SecondStage, complete
    <3> QED
      BY <1>1, <1>3, <1>4, <3>2, <3>3
  <2> QED
    BY <2>2, <2>3, <2>4, <2>5
<1> QED
  BY <1>2, <1>3
-----------------------------------------------------------------------------
\* What the first stage makes of a block that it can probe.
Seen(i, named) == [i EXCEPT !.status = FALSE, !.valid = @ \/ named]
Chosen(i, b, t) ==
  [i EXCEPT !.status = FALSE, !.valid = TRUE, !.phy_blk_addr = b, !.phy_page_addr = 0,
            !.timestamp = t]

LEMMA SeenIs ==
  ASSUME NEW i \in InfoType, NEW named \in BOOLEAN
  PROVE  /\ Seen(i, named) \in InfoType
         /\ ~Seen(i, named).status /\ (Seen(i, named).valid <=> i.valid \/ named)
         /\ Seen(i, named).phy_blk_addr = i.phy_blk_addr
         /\ Seen(i, named).phy_page_addr = i.phy_page_addr
         /\ Seen(i, named).timestamp = i.timestamp /\ Seen(i, named).free_node = i.free_node
BY DEF InfoType, Seen

LEMMA ChosenIs ==
  ASSUME NEW i \in InfoType, NEW b \in Blocks, NEW t \in Nat
  PROVE  /\ Chosen(i, b, t) \in InfoType
         /\ ~Chosen(i, b, t).status /\ Chosen(i, b, t).valid
         /\ Chosen(i, b, t).phy_blk_addr = b /\ Chosen(i, b, t).phy_page_addr = 0
         /\ Chosen(i, b, t).timestamp = t /\ Chosen(i, b, t).free_node = i.free_node
BY DEF InfoType, Chosen

LEMMA ListedIs ==
  ASSUME NEW i \in InfoType, NEW b \in Blocks
  PROVE  /\ Listed(i, b) \in InfoType
         /\ Listed(i, b).status = i.status /\ Listed(i, b).valid = i.valid
         /\ Listed(i, b).phy_blk_addr = i.phy_blk_addr
         /\ Listed(i, b).phy_page_addr = i.phy_page_addr
         /\ Listed(i, b).timestamp = i.timestamp
         /\ Listed(i, b).free_node = Append(i.free_node, b)
         /\ Len(Listed(i, b).free_node) = Len(i.free_node) + 1
<1> DEFINE l == Append(i.free_node, b)
<1>1. l \in Seq(Blocks) /\ Len(l) = Len(i.free_node) + 1
  BY DEF InfoType
<1>2. Listed(i, b) = [i EXCEPT !.free_node = l]
  BY DEF Listed
<1> HIDE DEF l
<1>3. /\ Listed(i, b) \in InfoType /\ Listed(i, b).free_node = l
      /\ Listed(i, b).status = i.status /\ Listed(i, b).valid = i.valid
      /\ Listed(i, b).phy_blk_addr = i.phy_blk_addr
      /\ Listed(i, b).phy_page_addr = i.phy_page_addr
      /\ Listed(i, b).timestamp = i.timestamp
  BY <1>1, <1>2 DEF InfoType
<1> QED
  BY <1>1, <1>3 DEF l

LEMMA FirstStageIs ==
  ASSUME NEW i \in InfoType, NEW b, NEW page
  PROVE  LET named == page.kind = "part" IN
         /\ named /\ i.phy_blk_addr < 0 =>
              FirstStage(i, b, page) = [info |-> Chosen(i, b, page.timestamp), ret |-> "ok"]
         /\ ~(named /\ i.phy_blk_addr < 0) =>
              /\ NoFreeNode(i) =>
                   FirstStage(i, b, page) = [info |-> Seen(i, named), ret |-> "nomem"]
              /\ ~NoFreeNode(i) /\ named /\ Newer(i, page) =>
                   FirstStage(i, b, page) =
                     [info |-> Listed(Chosen(i, b, page.timestamp), i.phy_blk_addr), ret |-> "ok"]
              /\ ~NoFreeNode(i) /\ ~(named /\ Newer(i, page)) =>
                   FirstStage(i, b, page) = [info |-> Listed(Seen(i, named), b), ret |-> "ok"]
<1> DEFINE named == page.kind = "part"
<1>1. ASSUME named
      PROVE  [[i EXCEPT !.status = FALSE, !.valid = @ \/ named]
                EXCEPT !.phy_blk_addr = b, !.phy_page_addr = 0, !.timestamp = page.timestamp]
             = Chosen(i, b, page.timestamp)
  BY <1>1 DEF InfoType, Chosen
<1> HIDE DEF named
<1>2. [i EXCEPT !.status = FALSE, !.valid = @ \/ named] = Seen(i, named)
  BY DEF Seen
<1>3. named /\ i.phy_blk_addr < 0 =>
              FirstStage(i, b, page) = [info |-> Chosen(i, b, page.timestamp), ret |-> "ok"]
  BY <1>1 DEF FirstStage, named
<1>4. ASSUME ~(named /\ i.phy_blk_addr < 0), NoFreeNode(i)
      PROVE  FirstStage(i, b, page) = [info |-> Seen(i, named), ret |-> "nomem"]
  BY <1>2, <1>4 DEF FirstStage, named
<1>5. ASSUME ~(named /\ i.phy_blk_addr < 0), ~NoFreeNode(i), named, Newer(i, page)
      PROVE  FirstStage(i, b, page) =
                     [info |-> Listed(Chosen(i, b, page.timestamp), i.phy_blk_addr), ret |-> "ok"]
  BY <1>1, <1>5 DEF FirstStage, named
<1>6. ASSUME ~(named /\ i.phy_blk_addr < 0), ~NoFreeNode(i), ~(named /\ Newer(i, page))
      PROVE  FirstStage(i, b, page) = [info |-> Listed(Seen(i, named), b), ret |-> "ok"]
  BY <1>2, <1>6 DEF FirstStage, named
<1> QED
  BY <1>3, <1>4, <1>5, <1>6 DEF named

LEMMA FirstStageTypes ==
  ASSUME NEW i \in InfoType, Len(i.free_node) <= Nodes, i.valid => i.phy_blk_addr \in Blocks,
         NEW b \in Blocks, NEW page, page.timestamp \in Nat
  PROVE  /\ FirstStage(i, b, page).info \in InfoType
         /\ FirstStage(i, b, page).info.valid => FirstStage(i, b, page).info.phy_blk_addr \in Blocks
         /\ Len(FirstStage(i, b, page).info.free_node) <= Nodes
         /\ FirstStage(i, b, page).ret \in {"ok", "nomem"}
<1> DEFINE named == page.kind = "part"
<1>1. named \in BOOLEAN /\ Len(i.free_node) \in Nat /\ Nodes \in Nat
  BY FlashAssumption DEF InfoType
<1> HIDE DEF named
<1>2. i.phy_blk_addr < 0 \/ i.phy_blk_addr \in Blocks
  BY DEF InfoType
<1>4. CASE named /\ i.phy_blk_addr < 0
  <2> DEFINE j == Chosen(i, b, page.timestamp)
  <2>1. FirstStage(i, b, page) = [info |-> j, ret |-> "ok"]
    BY <1>4, FirstStageIs DEF named
  <2>2. j \in InfoType /\ j.phy_blk_addr \in Blocks /\ Len(j.free_node) <= Nodes
    BY ChosenIs
  <2> HIDE DEF j
  <2> QED
    BY <2>1, <2>2
<1>5. CASE ~(named /\ i.phy_blk_addr < 0) /\ NoFreeNode(i)
  <2> DEFINE j == Seen(i, named)
  <2>1. FirstStage(i, b, page) = [info |-> j, ret |-> "nomem"]
    BY <1>5, FirstStageIs DEF named
  <2>2. j \in InfoType /\ (j.valid => j.phy_blk_addr \in Blocks) /\ Len(j.free_node) <= Nodes
    BY <1>1, <1>2, <1>5, SeenIs
  <2> HIDE DEF j
  <2> QED
    BY <2>1, <2>2
<1>6. CASE ~(named /\ i.phy_blk_addr < 0) /\ ~NoFreeNode(i) /\ named /\ Newer(i, page)
  <2> DEFINE chosen == Chosen(i, b, page.timestamp)
             j == Listed(chosen, i.phy_blk_addr)
  <2>1. FirstStage(i, b, page) = [info |-> j, ret |-> "ok"]
    BY <1>6, FirstStageIs DEF named
  <2>2. i.phy_blk_addr \in Blocks /\ chosen \in InfoType /\ chosen.phy_blk_addr = b
        /\ chosen.free_node = i.free_node
    BY <1>2, <1>6, ChosenIs
  <2> HIDE DEF chosen
  <2>3. j \in InfoType /\ j.phy_blk_addr = b /\ Len(j.free_node) = Len(i.free_node) + 1
    BY <2>2, ListedIs
  <2> HIDE DEF j
  <2>4. Len(j.free_node) <= Nodes
    BY <1>1, <1>6, <2>3 DEF NoFreeNode
  <2> QED
    BY <2>1, <2>3, <2>4
<1>7. CASE ~(named /\ i.phy_blk_addr < 0) /\ ~NoFreeNode(i) /\ ~(named /\ Newer(i, page))
  <2> DEFINE seen == Seen(i, named)
             j == Listed(seen, b)
  <2>1. FirstStage(i, b, page) = [info |-> j, ret |-> "ok"]
    BY <1>7, FirstStageIs DEF named
  <2>2. seen \in InfoType /\ (seen.valid <=> i.valid \/ named)
        /\ seen.phy_blk_addr = i.phy_blk_addr /\ seen.free_node = i.free_node
    BY <1>1, SeenIs
  <2> HIDE DEF seen
  <2>3. /\ j \in InfoType /\ j.valid = seen.valid /\ j.phy_blk_addr = seen.phy_blk_addr
        /\ Len(j.free_node) = Len(i.free_node) + 1
    BY <2>2, ListedIs
  <2> HIDE DEF j
  <2>4. Len(j.free_node) <= Nodes
    BY <1>1, <1>7, <2>3 DEF NoFreeNode
  <2>5. j.valid => j.phy_blk_addr \in Blocks
    BY <1>2, <1>7, <2>2, <2>3
  <2> QED
    BY <2>1, <2>3, <2>4, <2>5
<1> QED
  BY <1>4, <1>5, <1>6, <1>7

\* The parts of the flash that a step can change.
LEMMA FlashChanges ==
  ASSUME NEW f, FlashType(f), NEW b, NEW p, NEW page \in {Blank, Torn} \cup AllParts
  PROVE  /\ FlashType([f EXCEPT ![b] = Filled(page)])
         /\ FlashType([f EXCEPT ![b][p] = page])
BY DEF FlashType, Filled

LEMMA Pieces == Blank \in {Blank, Torn} \cup AllParts /\ Torn \in {Blank, Torn} \cup AllParts
OBVIOUS

LEMMA PieceValue ==
  ASSUME NEW x \in {Blank, Torn} \cup AllParts
  PROVE  x.value \in Values \cup {None}
<1>1. CASE x \in {Blank, Torn}
  BY <1>1 DEF Blank, Torn
<1>2. CASE x \in AllParts
  BY <1>2 DEF AllParts, Part
<1> QED
  BY <1>1, <1>2

LEMMA PartIsPart ==
  ASSUME NEW t \in Nat, NEW v \in Values
  PROVE  Part(t, v) \in AllParts
<1>1. t % Timestamps \in 0..(Timestamps - 1) /\ (t % Timestamps) % Timestamps = t % Timestamps
  BY FlashAssumption
<1>2. Part(t, v) = Part(t % Timestamps, v)
  BY <1>1 DEF Part
<1> QED
  BY <1>1, <1>2 DEF AllParts
-----------------------------------------------------------------------------
\* The first block of a list becomes the one that is written.
LEMMA EnterBlockIs ==
  ASSUME NEW i \in InfoType, NEW l \in Seq(Blocks), l # <<>>, EnterBlock(i, l)
  PROVE  /\ info' \in InfoType
         /\ info'.valid = i.valid /\ info'.status = i.status
         /\ info'.phy_blk_addr = Head(l) /\ Head(l) \in Blocks
         /\ info'.timestamp = i.timestamp + 1
         /\ info'.free_node = Tail(l) /\ Tail(l) \in Seq(Blocks)
         /\ Len(info'.free_node) = Len(l) - 1
         /\ Head(l) \in Bad => pc' = "search" /\ info'.phy_page_addr = pages_per_blk - page_num
         /\ Head(l) \notin Bad => pc' = "erase" /\ info'.phy_page_addr = 0
         /\ saving' = saving /\ exposed' = exposed
<1>1. Head(l) \in Blocks /\ Tail(l) \in Seq(Blocks) /\ Len(Tail(l)) = Len(l) - 1
  OBVIOUS
<1>2. pages_per_blk - page_num \in Nat
  BY FirstPages, PageInBlock, Parameters
<1> DEFINE head == Head(l)
           tail == Tail(l)
           first == IF head \in Bad THEN pages_per_blk - page_num ELSE 0
<1>3. head \in Blocks /\ tail \in Seq(Blocks) /\ first \in Nat
  BY <1>1, <1>2
<1>4. info' = [i EXCEPT !.phy_blk_addr = head, !.free_node = tail,
                        !.timestamp = @ + 1, !.phy_page_addr = first]
  BY DEF EnterBlock
<1>5. /\ saving' = saving /\ exposed' = exposed
      /\ pc' = IF head \in Bad THEN "search" ELSE "erase"
      /\ first = IF head \in Bad THEN pages_per_blk - page_num ELSE 0
      /\ Len(tail) = Len(l) - 1
  BY <1>1 DEF EnterBlock
<1> HIDE DEF head, tail, first
<1>7. i.timestamp + 1 \in Nat
  BY DEF InfoType
<1> DEFINE a == [i EXCEPT !.phy_blk_addr = head, !.free_node = tail]
           z == [i EXCEPT !.phy_blk_addr = head, !.free_node = tail,
                          !.timestamp = i.timestamp + 1]
<1>8. /\ a \in InfoType /\ a.valid = i.valid /\ a.status = i.status /\ a.timestamp = i.timestamp
      /\ a.phy_blk_addr = head /\ a.free_node = tail
  BY <1>3 DEF InfoType
<1>9. z = [a EXCEPT !.timestamp = i.timestamp + 1] /\ info' = [z EXCEPT !.phy_page_addr = first]
  BY <1>4
<1> HIDE DEF a, z
<1>10. /\ z \in InfoType /\ z.valid = i.valid /\ z.status = i.status
       /\ z.timestamp = i.timestamp + 1 /\ z.phy_blk_addr = head /\ z.free_node = tail
  BY <1>7, <1>8, <1>9 DEF InfoType
<1>6. /\ info' \in InfoType /\ info'.valid = i.valid /\ info'.status = i.status
      /\ info'.phy_blk_addr = head /\ info'.timestamp = i.timestamp + 1
      /\ info'.free_node = tail /\ info'.phy_page_addr = first
  BY <1>3, <1>9, <1>10 DEF InfoType
<1> QED
  BY <1>3, <1>5, <1>6 DEF head, tail

\* The four outcomes of leaving a block.
LEMMA LeaveBlockIs ==
  ASSUME NEW i \in InfoType, i.phy_blk_addr \in Blocks, LeaveBlock(i)
  PROVE  \/ NoFreeNode(i) /\ info' = i /\ GiveUp
         \/ ~NoFreeNode(i) /\ i.free_node = <<>> /\ pc' = "oops" /\ info' = i
            /\ UNCHANGED <<saving, exposed>>
         \/ ~NoFreeNode(i) /\ i.free_node # <<>>
            /\ EnterBlock(i, Append(i.free_node, i.phy_blk_addr))
BY DEF LeaveBlock, PutLast

LEMMA PageAfterIs ==
  ASSUME info \in InfoType
  PROVE  /\ PageAfter \in InfoType
         /\ PageAfter.valid = info.valid /\ PageAfter.status = info.status
         /\ PageAfter.phy_blk_addr = info.phy_blk_addr
         /\ PageAfter.phy_page_addr = info.phy_page_addr + page_num
         /\ PageAfter.timestamp = info.timestamp /\ PageAfter.free_node = info.free_node
<1>1. info.phy_page_addr + page_num \in Nat
  BY Parameters DEF InfoType
<1> QED
  BY <1>1 DEF InfoType, PageAfter

LEMMA UnscannedIs ==
  /\ Unscanned \in InfoType /\ Unscanned.valid = FALSE /\ Unscanned.status = FALSE
  /\ Unscanned.phy_blk_addr = -1 /\ Unscanned.phy_page_addr = 0 /\ Unscanned.timestamp = 0
  /\ Unscanned.free_node = <<>> /\ Len(Unscanned.free_node) = 0
BY DEF InfoType, Unscanned
-----------------------------------------------------------------------------
(***************************************************************************)
(* Types                                                                   *)
(***************************************************************************)
LEMMA TypesInit == Init => TInv
<1> SUFFICES ASSUME Init PROVE TInv
  OBVIOUS
<1>1. info \in InfoType /\ Len(info.free_node) <= Nodes /\ ~info.valid
  BY UnscannedIs, FlashAssumption DEF Init
<1>2. FlashType(flash)
  <2>1. Filled(Blank) \in [Pages -> {Blank, Torn} \cup AllParts]
        /\ Filled(Torn) \in [Pages -> {Blank, Torn} \cup AllParts]
    BY DEF Filled
  <2> QED
    BY <2>1 DEF Init, FlashType
<1>3. 0 \in 0..end_block /\ 0 \in 0..page_num /\ 0 \in 0..MaxFailures /\ 0 <= page_num
  BY FlashAssumption, AreaAssumption
<1>4. <<>> \in Seq(Values \cup {None}) /\ Len(<<>>) = 0
  OBVIOUS
<1> QED
  BY <1>1, <1>2, <1>3, <1>4 DEF Init, TInv, TypeOK, InHand, FlashType, InfoType

LEMMA TypesScan ==
  ASSUME TInv, ScanBlock \/ ScanValidBlock
  PROVE  TInv'
<1>1. /\ FlashType(flash) /\ info \in InfoType /\ Len(info.free_node) <= Nodes
      /\ info.valid => info.phy_blk_addr \in Blocks
  BY DEF TInv, TypeOK, InHand, blk, FlashType, InfoType
<1>2. /\ UNCHANGED <<flash, caller, saving, returned, exposed, failures>>
      /\ pc = "scan" /\ start \in 0..end_block /\ part \in 0..page_num
      /\ got \in Seq(Values \cup {None}) /\ Len(got) <= page_num /\ good_addr \subseteq Pages
      /\ caller \in {"boot", "read"} /\ saving \in Values \cup {None}
      /\ returned \in Values \cup {None} /\ exposed \in BOOLEAN /\ failures \in 0..MaxFailures
  BY DEF ScanBlock, ScanValidBlock, TInv, TypeOK, historyVars
<1>3. <<>> \in Seq(Values \cup {None}) /\ Len(<<>>) = 0 /\ 0 \in 0..page_num /\ 0 < page_num
      /\ 0 \in 0..end_block /\ Len(<<>>) <= page_num
  BY FlashAssumption
<1>4. ASSUME NEW ret, ScanReturns(ret)
      PROVE  /\ start' \in 0..end_block /\ good_addr' \subseteq Pages /\ part' \in 0..page_num
             /\ got' \in Seq(Values \cup {None}) /\ Len(got') <= page_num
             /\ pc' \in {"read", "idle"} /\ part' < page_num
  BY <1>2, <1>3, <1>4 DEF ScanReturns
<1>5. CASE ScanBlock
  <2>1. start \in Blocks /\ start + 1 \in 0..end_block
    BY <1>2, <1>5, FlashAssumption DEF ScanBlock, Blocks
  <2>2. CASE Probed(flash, start) = {}
    <3>1. info' = info /\ start' = start + 1 /\ pc' = pc /\ UNCHANGED <<good_addr, part, got>>
      BY <1>5, <2>2 DEF ScanBlock
    <3> QED
      BY <1>1, <1>2, <2>1, <3>1 DEF TInv, TypeOK, InHand, blk, FlashType, InfoType
  <2>3. CASE Probed(flash, start) # {}
    <3> DEFINE r == FirstStage(info, start, Probe(flash, start))
    <3>1. info' = r.info
      BY <1>5, <2>3 DEF ScanBlock
    <3>2. (r.ret = "nomem" /\ ScanReturns("nomem"))
          \/ (start' = start + 1 /\ pc' = pc /\ UNCHANGED <<good_addr, part, got>>)
      BY <1>5, <2>3 DEF ScanBlock
    <3>3. Probe(flash, start).timestamp \in Nat
      <4>1. Probed(flash, start) \subseteq Copies /\ Probed(flash, start) \in SUBSET Nat
        BY FirstPages, PageInBlock DEF Probed
      <4>2. Min(Probed(flash, start)) \in Copies
        BY <2>3, <4>1, Smallest
      <4>3. Min(Probed(flash, start)) * page_num \in Pages
        BY <4>2, FirstPages, PageInBlock DEF Page
      <4>4. flash[start][Min(Probed(flash, start)) * page_num] \in {Blank, Torn} \cup AllParts
        BY <1>1, <2>1, <4>3, PageKinds
      <4>5. \A x \in {Blank, Torn} \cup AllParts : x.timestamp \in Nat
        BY FlashAssumption DEF Blank, Torn, AllParts, Part
      <4> QED
        BY <4>4, <4>5 DEF Probe
    <3>4. /\ r.info \in InfoType
          /\ r.info.valid => r.info.phy_blk_addr \in Blocks
          /\ Len(r.info.free_node) <= Nodes
      BY <1>1, <2>1, <3>3, FirstStageTypes
    <3> HIDE DEF r
    <3>5. /\ start' \in 0..end_block /\ good_addr' \subseteq Pages /\ part' \in 0..page_num
          /\ got' \in Seq(Values \cup {None}) /\ Len(got') <= page_num
          /\ pc' \in {"read", "idle", "scan"} /\ (pc' = "read" => part' < page_num)
      BY <1>2, <1>4, <2>1, <3>2
    <3> QED
      BY <1>1, <1>2, <3>1, <3>4, <3>5 DEF TInv, TypeOK, InHand, blk, FlashType, InfoType
  <2> QED
    BY <2>2, <2>3
<1>6. CASE ScanValidBlock
  <2> DEFINE r == SecondStage(flash, info, good_addr)
  <2>1. info' = r.info
    BY <1>6 DEF ScanValidBlock
  <2>2. (r.ret # "retry" /\ ScanReturns(r.ret))
        \/ (/\ r.ret = "retry" /\ pc' = "clear" /\ UNCHANGED <<start, part, got>>
            /\ good_addr' = good_addr \cup Readable(flash, info.phy_blk_addr))
    BY <1>6 DEF ScanValidBlock
  <2>3. /\ r.info \in InfoType
        /\ r.ret = "retry" => info.valid
        /\ SameBlock(info, r.info)
    BY <1>1, SecondStageTypes
  <2> HIDE DEF r
  <2>4. /\ r.info.valid = info.valid /\ r.info.phy_blk_addr = info.phy_blk_addr
        /\ r.info.free_node = info.free_node
    BY <2>3 DEF SameBlock
  <2>5. good_addr \cup Readable(flash, info.phy_blk_addr) \subseteq Pages
    BY <1>2 DEF Readable, Reached
  <2>6. /\ start' \in 0..end_block /\ good_addr' \subseteq Pages /\ part' \in 0..page_num
        /\ got' \in Seq(Values \cup {None}) /\ Len(got') <= page_num
        /\ pc' \in {"read", "idle", "clear"} /\ (pc' = "read" => part' < page_num)
        /\ (pc' = "clear" => info.valid)
    BY <1>2, <1>4, <2>2, <2>3, <2>5
  <2> QED
    BY <1>1, <1>2, <2>1, <2>3, <2>4, <2>6 DEF TInv, TypeOK, InHand, blk, FlashType, InfoType
<1> QED
  BY <1>5, <1>6

\* The list of info is no longer than before when a block is left.
LEMMA LeaveBlockTypes ==
  ASSUME NEW i \in InfoType, i.phy_blk_addr \in Blocks, Len(i.free_node) <= Nodes,
         saving \in Values, pc = "search", exposed \in BOOLEAN, LeaveBlock(i)
  PROVE  /\ info' \in InfoType /\ Len(info'.free_node) <= Nodes
         /\ info'.phy_blk_addr \in Blocks
         /\ pc' \in {"idle", "oops", "search", "erase"} /\ saving' \in Values \cup {None}
         /\ (pc' \in {"search", "erase"} => saving' \in Values) /\ exposed' \in BOOLEAN
<1>1. CASE NoFreeNode(i) /\ info' = i /\ GiveUp
  BY <1>1 DEF GiveUp
<1>2. CASE pc' = "oops" /\ info' = i /\ UNCHANGED <<saving, exposed>>
  BY <1>2
<1>3. CASE ~NoFreeNode(i) /\ EnterBlock(i, Append(i.free_node, i.phy_blk_addr))
  <2> DEFINE l == Append(i.free_node, i.phy_blk_addr)
  <2>1. /\ l \in Seq(Blocks) /\ l # <<>> /\ Len(l) = Len(i.free_node) + 1
        /\ Len(i.free_node) \in Nat
    BY DEF InfoType
  <2>2. EnterBlock(i, l)
    BY <1>3
  <2> HIDE DEF l
  <2>3. /\ info' \in InfoType /\ info'.phy_blk_addr \in Blocks
        /\ Len(info'.free_node) = Len(l) - 1 /\ pc' \in {"search", "erase"}
        /\ saving' = saving /\ exposed' = exposed
    BY <2>1, <2>2, EnterBlockIs
  <2> QED
    BY <2>1, <2>3
<1> QED
  BY <1>1, <1>2, <1>3, LeaveBlockIs

LEMMA TypesSave ==
  ASSUME TInv,
         \/ \E v \in Values : Save(v)
         \/ SearchSameBlock \/ SearchNextBlock \/ SearchEraseBlock \/ SearchFirstBlock
  PROVE  TInv'
<1>1. /\ FlashType(flash) /\ info \in InfoType /\ Len(info.free_node) <= Nodes
      /\ info.valid => info.phy_blk_addr \in Blocks
      /\ pc = "search" => saving \in Values
  BY DEF TInv, TypeOK, InHand, blk, FlashType, InfoType
<1>2. /\ start \in 0..end_block /\ part \in 0..page_num
      /\ got \in Seq(Values \cup {None}) /\ Len(got) <= page_num /\ good_addr \subseteq Pages
      /\ caller \in {"boot", "read"} /\ saving \in Values \cup {None}
      /\ returned \in Values \cup {None} /\ exposed \in BOOLEAN /\ failures \in 0..MaxFailures
  BY DEF TInv, TypeOK
<1>3. FlashType(Erased(info.phy_blk_addr))
  BY <1>1, FlashChanges, Pieces DEF Erased
<1>4. CASE \E v \in Values : Save(v)
  <2>1. PICK v \in Values : Save(v)
    BY <1>4
  <2>2. StartPage \in Nat
    BY <1>1, Parameters DEF StartPage, InfoType
  <2>3. /\ info' \in InfoType /\ info'.free_node = info.free_node /\ info'.valid = info.valid
        /\ info'.phy_blk_addr = info.phy_blk_addr
    BY <1>1, <2>1, <2>2 DEF Save, InfoType
  <2>4. exposed' \in BOOLEAN
    BY <2>1 DEF Save, AtRisk
  <2> QED
    BY <1>1, <1>2, <2>1, <2>3, <2>4
    DEF Save, TInv, TypeOK, InHand, blk, FlashType, InfoType
<1>5. CASE SearchSameBlock
  BY <1>1, <1>2, <1>5, PageAfterIs, FlashAssumption
  DEF SearchSameBlock, historyVars, TInv, TypeOK, InHand, blk, FlashType, InfoType
<1>6. CASE SearchNextBlock \/ SearchEraseBlock
  <2>1. /\ info.valid /\ pc = "search" /\ LeaveBlock(PageAfter)
        /\ flash' \in {flash, Erased(info.phy_blk_addr)}
        /\ UNCHANGED <<start, good_addr, caller, part, got, returned, failures>>
    BY <1>6 DEF SearchNextBlock, SearchEraseBlock, Erases
  <2>2. PageAfter \in InfoType /\ PageAfter.phy_blk_addr \in Blocks
        /\ Len(PageAfter.free_node) <= Nodes
    BY <1>1, <2>1, PageAfterIs
  <2>3. /\ info' \in InfoType /\ Len(info'.free_node) <= Nodes
        /\ info'.phy_blk_addr \in Blocks
        /\ pc' \in {"idle", "oops", "search", "erase"} /\ saving' \in Values \cup {None}
        /\ (pc' \in {"search", "erase"} => saving' \in Values) /\ exposed' \in BOOLEAN
    BY <1>1, <1>2, <2>1, <2>2, LeaveBlockTypes
  <2>4. FlashType(flash')
    BY <1>1, <1>3, <2>1
  <2> QED
    BY <1>2, <2>1, <2>3, <2>4 DEF TInv, TypeOK, InHand, blk, FlashType, InfoType
<1>7. CASE SearchFirstBlock
  <2>1. /\ pc = "search" /\ flash' = flash
        /\ UNCHANGED <<start, good_addr, caller, part, got, returned, failures>>
    BY <1>7 DEF SearchFirstBlock
  <2>2. CASE info.free_node = <<>>
    BY <1>1, <1>2, <1>7, <2>1, <2>2
    DEF SearchFirstBlock, TInv, TypeOK, InHand, blk, FlashType, InfoType
  <2>3. CASE info.free_node # <<>>
    <3>1. EnterBlock(info, info.free_node) /\ info.free_node \in Seq(Blocks)
          /\ Len(info.free_node) \in Nat
      BY <1>1, <1>7, <2>3 DEF SearchFirstBlock, InfoType
    <3>2. /\ info' \in InfoType /\ info'.phy_blk_addr \in Blocks
          /\ Len(info'.free_node) = Len(info.free_node) - 1 /\ pc' \in {"search", "erase"}
          /\ saving' = saving /\ exposed' = exposed
      BY <1>1, <2>3, <3>1, EnterBlockIs
    <3>3. Len(info'.free_node) <= Nodes
      BY <1>1, <3>1, <3>2, FlashAssumption
    <3> QED
      BY <1>1, <1>2, <2>1, <3>2, <3>3 DEF TInv, TypeOK, InHand, blk, FlashType, InfoType
  <2> QED
    BY <2>2, <2>3
<1> QED
  BY <1>4, <1>5, <1>6, <1>7

LEMMA TypesFlash ==
  ASSUME TInv, Clear \/ EraseNext \/ EraseFails \/ Write \/ WriteFails \/ PowerLoss
  PROVE  TInv'
<1>1. /\ FlashType(flash) /\ info \in InfoType /\ Len(info.free_node) <= Nodes
      /\ info.valid => info.phy_blk_addr \in Blocks
      /\ pc \in {"search", "erase", "write"} => saving \in Values
      /\ pc \in {"erase", "write"} => info.phy_blk_addr \in Blocks
      /\ pc = "write" => part < page_num
  BY DEF TInv, TypeOK, InHand, blk, FlashType, InfoType
<1>2. /\ start \in 0..end_block /\ part \in 0..page_num
      /\ got \in Seq(Values \cup {None}) /\ Len(got) <= page_num /\ good_addr \subseteq Pages
      /\ caller \in {"boot", "read"} /\ saving \in Values \cup {None}
      /\ returned \in Values \cup {None} /\ exposed \in BOOLEAN /\ failures \in 0..MaxFailures
  BY DEF TInv, TypeOK
<1>3. /\ 0 \in 0..end_block /\ 0 \in 0..page_num /\ 0 < page_num /\ {} \subseteq Pages
      /\ <<>> \in Seq(Values \cup {None}) /\ Len(<<>>) <= page_num
  BY FlashAssumption
<1>4. failures < MaxFailures => failures + 1 \in 0..MaxFailures
  BY <1>2, AreaAssumption
<1>5. FlashType(Erased(info.phy_blk_addr))
  BY <1>1, FlashChanges, Pieces DEF Erased
<1>6. FlashType([flash EXCEPT ![info.phy_blk_addr] = Filled(Torn)])
  BY <1>1, FlashChanges, Pieces
<1>7. FlashType([flash EXCEPT ![info.phy_blk_addr][info.phy_page_addr + part] = Torn])
  BY <1>1, FlashChanges, Pieces
<1>8. CASE Clear
  <2>1. flash' \in {flash, Erased(info.phy_blk_addr)} /\ failures' \in 0..MaxFailures
    BY <1>2, <1>4, <1>8 DEF Clear
  <2>2. FlashType(flash')
    BY <1>1, <1>5, <2>1
  <2>3. info' \in InfoType /\ Len(info'.free_node) <= Nodes /\ ~info'.valid
    BY <1>8, UnscannedIs, FlashAssumption DEF Clear
  <2> QED
    BY <1>2, <1>3, <1>8, <2>1, <2>2, <2>3
    DEF Clear, TInv, TypeOK, InHand, blk, FlashType, InfoType
<1>9. CASE EraseNext
  BY <1>1, <1>2, <1>3, <1>5, <1>9
  DEF EraseNext, historyVars, TInv, TypeOK, InHand, blk, FlashType, InfoType
<1>10. CASE EraseFails
  <2>1. FlashType(flash')
    <3>1. PICK block \in {flash[info.phy_blk_addr], Filled(Torn)} :
            flash' = [flash EXCEPT ![info.phy_blk_addr] = block]
      BY <1>10 DEF EraseFails
    <3>2. CASE block = Filled(Torn)
      BY <1>6, <3>1, <3>2
    <3>3. CASE block = flash[info.phy_blk_addr]
      <4>1. flash' = flash
        BY <1>1, <3>1, <3>3 DEF FlashType
      <4> QED
        BY <1>1, <4>1
    <3> QED
      BY <3>2, <3>3
  <2> QED
    BY <1>1, <1>2, <1>4, <1>10, <2>1
    DEF EraseFails, TInv, TypeOK, InHand, blk, FlashType, InfoType
<1>11. CASE Write
  <2>1. info.timestamp \in Nat /\ saving \in Values /\ pc = "write"
    BY <1>1, <1>11 DEF Write, InfoType
  <2>2. FlashType(flash')
    BY <1>1, <1>11, <2>1, FlashChanges, PartIsPart DEF Write
  <2>3. part + 1 \in 0..page_num
    BY <1>1, <1>2, <1>11, FlashAssumption DEF Write
  <2>4. CASE part + 1 < page_num
    BY <1>1, <1>2, <1>11, <2>1, <2>2, <2>3, <2>4
    DEF Write, TInv, TypeOK, InHand, blk, FlashType, InfoType
  <2>5. CASE ~(part + 1 < page_num)
    <3>1. /\ info' \in InfoType /\ info'.free_node = info.free_node
          /\ info'.phy_blk_addr = info.phy_blk_addr
      BY <1>1, <1>11, <2>5 DEF Write, InfoType
    <3> QED
      BY <1>1, <1>2, <1>11, <2>1, <2>2, <2>3, <2>5, <3>1
      DEF Write, GiveUp, TInv, TypeOK, InHand, blk, FlashType, InfoType
  <2> QED
    BY <2>4, <2>5
<1>12. CASE WriteFails
  <2>1. FlashType(flash')
    <3> DEFINE b == info.phy_blk_addr
               p == info.phy_page_addr + part
    <3>1. PICK page \in {flash[b][p], Torn} : flash' = [flash EXCEPT ![b][p] = page]
      BY <1>12 DEF WriteFails
    <3>2. CASE page = Torn
      BY <1>7, <3>1, <3>2
    <3>3. CASE page = flash[b][p]
      <4>1. b \in Blocks /\ flash[b] \in [Pages -> {Blank, Torn} \cup AllParts]
        BY <1>1, <1>12 DEF WriteFails, FlashType
      <4>2. [flash[b] EXCEPT ![p] = page] = flash[b]
        BY <3>3, <4>1
      <4>3. flash' = flash
        BY <1>1, <3>1, <4>1, <4>2 DEF FlashType
      <4> QED
        BY <1>1, <4>3
    <3> QED
      BY <3>1, <3>2, <3>3
  <2> QED
    BY <1>1, <1>2, <1>4, <1>12, <2>1
    DEF WriteFails, GiveUp, TInv, TypeOK, InHand, blk, FlashType, InfoType
<1>13. CASE PowerLoss
  <2>1. FlashType(flash')
    BY <1>1, <1>6, <1>7, <1>13 DEF PowerLoss, TornBlock, TornPage
  <2>2. info' \in InfoType /\ Len(info'.free_node) <= Nodes /\ ~info'.valid
    BY <1>13, UnscannedIs, FlashAssumption DEF PowerLoss
  <2> QED
    BY <1>2, <1>3, <1>13, <2>1, <2>2
    DEF PowerLoss, TInv, TypeOK, InHand, blk, FlashType, InfoType
<1> QED
  BY <1>8, <1>9, <1>10, <1>11, <1>12, <1>13

\* What a page read behind a copy, or behind the area, can be.
LEMMA PageAtType ==
  ASSUME FlashType(flash), NEW b \in Int, NEW p \in Nat
  PROVE  PageAt(b, p) \in {Blank, Torn} \cup AllParts
<1>1. CASE b + (p \div pages_per_blk) \in Blocks
  <2>1. p % pages_per_blk \in Pages
    BY Parameters DEF Pages
  <2> QED
    BY <1>1, <2>1, PageKinds DEF PageAt
<1>2. CASE b + (p \div pages_per_blk) \notin Blocks
  BY <1>2 DEF PageAt
<1> QED
  BY <1>1, <1>2

LEMMA TypesRead ==
  ASSUME TInv, Boot \/ Read \/ ReadPart \/ ReadTorn \/ ReadReturn
  PROVE  TInv'
<1>1. /\ FlashType(flash) /\ info \in InfoType /\ Len(info.free_node) <= Nodes
      /\ info.valid => info.phy_blk_addr \in Blocks
      /\ start \in 0..end_block /\ part \in 0..page_num
      /\ got \in Seq(Values \cup {None}) /\ Len(got) <= page_num /\ good_addr \subseteq Pages
      /\ caller \in {"boot", "read"} /\ saving \in Values \cup {None}
      /\ returned \in Values \cup {None} /\ exposed \in BOOLEAN /\ failures \in 0..MaxFailures
      /\ pc = "read" => part < page_num
  BY DEF TInv, TypeOK, InHand, blk, FlashType, InfoType
<1>2. /\ 0 \in 0..page_num /\ 0 < page_num
      /\ <<>> \in Seq(Values \cup {None}) /\ Len(<<>>) <= page_num
  BY FlashAssumption
<1>3. CASE Boot
  BY <1>1, <1>3 DEF Boot, historyVars, TInv, TypeOK, InHand, blk, FlashType, InfoType
<1>4. CASE Read
  BY <1>1, <1>2, <1>4 DEF Read, historyVars, TInv, TypeOK, InHand, blk, FlashType, InfoType
<1>5. CASE ReadPart
  <2> DEFINE page == PageAt(info.phy_blk_addr, info.phy_page_addr + part)
             next == IF part = Len(got) THEN page.value ELSE None
  <2>1. page.value \in Values \cup {None}
    <3>1. info.phy_page_addr + part \in Nat /\ info.phy_blk_addr \in Int
      BY <1>1, FlashAssumption DEF InfoType, Blocks
    <3>2. page \in {Blank, Torn} \cup AllParts
      BY <1>1, <3>1, PageAtType
    <3> HIDE DEF page
    <3> QED
      BY <3>2, PieceValue
  <2>2. next \in Values \cup {None}
    BY <2>1
  <2>3. got' = Append(got, next)
    BY <1>5 DEF ReadPart
  <2> HIDE DEF next
  <2>4. got' \in Seq(Values \cup {None}) /\ Len(got') <= page_num
    BY <1>1, <1>5, <2>2, <2>3, FlashAssumption DEF ReadPart
  <2>5. part' \in 0..page_num /\ part' < page_num
    BY <1>1, <1>5, FlashAssumption DEF ReadPart
  <2> QED
    BY <1>1, <1>5, <2>4, <2>5
    DEF ReadPart, historyVars, TInv, TypeOK, InHand, blk, FlashType, InfoType
<1>6. CASE ReadTorn
  BY <1>1, <1>6 DEF ReadTorn, historyVars, TInv, TypeOK, InHand, blk, FlashType, InfoType
<1>7. CASE ReadReturn
  BY <1>1, <1>2, <1>7 DEF ReadReturn, historyVars, TInv, TypeOK, InHand, blk, FlashType, InfoType
<1> QED
  BY <1>3, <1>4, <1>5, <1>6, <1>7

LEMMA TypesStep == TInv /\ [Next]_vars => TInv'
<1> SUFFICES ASSUME TInv, [Next]_vars PROVE TInv'
  OBVIOUS
<1>1. CASE UNCHANGED vars
  BY <1>1 DEF vars, ramVars, historyVars, TInv, TypeOK, InHand, blk
<1>2. CASE Next
  BY <1>2, TypesScan, TypesSave, TypesFlash, TypesRead DEF Next, Work
<1> QED
  BY <1>1, <1>2

\* The types, whatever fails: in particular the list of free blocks never takes
\* more nodes than there are, and a read never more pages than a copy has.
THEOREM AreaTypes == Spec => []TypeOK
<1>1. TInv => TypeOK
  BY DEF TInv
<1> QED
  BY TypesInit, TypesStep, <1>1, PTL DEF Spec
-----------------------------------------------------------------------------
(***************************************************************************)
(* What the scan can tell from a flash that is in order                    *)
(***************************************************************************)
LEMMA PartsBefore ==
  ASSUME NEW f, FlashOK(f), NEW b \in Blocks, NEW p \in Pages, f[b][p].kind = "part",
         NEW q \in Pages, q <= p
  PROVE  f[b][q].kind = "part" /\ f[b][q].timestamp = f[b][p].timestamp
<1>1. CASE q = p
  BY <1>1
<1>2. CASE q # p
  <2>1. q \in 0..(p - 1)
    BY <1>2, Parameters DEF Pages
  <2> QED
    BY <2>1 DEF FlashOK, Orderly
<1> QED
  BY <1>1, <1>2

\* A copy is whole once its last part is there.
LEMMA WholeIff ==
  ASSUME NEW f, FlashOK(f), NEW b \in Blocks, NEW c \in Copies
  PROVE  <<b, c>> \in Whole(f) <=> f[b][Page(c, page_num - 1)].kind = "part"
<1>1. page_num - 1 \in 0..(page_num - 1) /\ 0 \in 0..(page_num - 1)
  BY FirstPages, Parameters
<1>2. ASSUME <<b, c>> \in Whole(f) PROVE f[b][Page(c, page_num - 1)].kind = "part"
  BY <1>1, <1>2 DEF Whole, Page
<1>3. ASSUME f[b][Page(c, page_num - 1)].kind = "part" PROVE <<b, c>> \in Whole(f)
  <2>1. ASSUME NEW k \in 0..(page_num - 1)
        PROVE  /\ f[b][c * page_num + k].kind = "part"
               /\ f[b][c * page_num + k] = f[b][c * page_num]
    <3>1. Page(c, k) \in Pages /\ Page(c, page_num - 1) \in Pages /\ Page(c, k) <= Page(c, page_num - 1)
          /\ Page(c, 0) = c * page_num /\ Page(c, k) = c * page_num + k
      BY <1>1, PageInBlock, Parameters DEF Page
    <3>2. f[b][Page(c, k)].kind = "part"
      BY <1>3, <3>1, PartsBefore
    <3>3. f[b][Page(c, k)] = f[b][Page(c, 0)]
      BY <3>2 DEF FlashOK, OneSave
    <3> QED
      BY <3>1, <3>2, <3>3
  <2> QED
    BY <2>1 DEF Whole
<1> QED
  BY <1>2, <1>3

LEMMA WholeCopy ==
  ASSUME NEW f, FlashType(f), FlashOK(f), NEW bc \in Whole(f)
  PROVE  /\ bc[1] \in Blocks /\ bc[2] \in Copies /\ bc[2] \in Nat /\ bc = <<bc[1], bc[2]>>
         /\ HasCopy(f, bc[1]) /\ Named(f, bc[1])
         /\ First(f, bc).timestamp = Stamp(f, bc[1]) /\ Stamp(f, bc[1]) \in Nat
         /\ First(f, bc).value \in Values
<1>1. bc[1] \in Blocks /\ bc[2] \in Copies /\ bc = <<bc[1], bc[2]>>
  BY DEF Whole
<1> DEFINE b == bc[1]
           c == bc[2]
<1>2. bc = <<b, c>> /\ b \in Blocks /\ c \in Copies
  BY <1>1
<1> HIDE DEF b, c
<1>3. f[b][Page(c, page_num - 1)].kind = "part"
  BY <1>2, WholeIff
<1>4. 0 \in 0..(page_num - 1) /\ page_num - 1 \in 0..(page_num - 1)
  BY FirstPages, Parameters
<1>5. /\ c \in Nat /\ c * page_num \in Nat /\ Page(c, page_num - 1) = c * page_num + (page_num - 1)
      /\ Page(c, page_num - 1) \in Pages /\ Page(c, 0) = c * page_num
      /\ Page(c, 0) \in Pages
  BY <1>2, <1>4, PageInBlock
<1>6. page_num - 1 \in Pages /\ 0 \in Pages /\ page_num - 1 <= Page(c, page_num - 1)
      /\ 0 <= Page(c, page_num - 1) /\ Page(c, 0) <= Page(c, page_num - 1)
  BY <1>5, FirstPages, Parameters
<1>7. HasCopy(f, b) /\ Named(f, b) /\ f[b][Page(c, 0)].kind = "part"
      /\ f[b][Page(c, 0)].timestamp = Stamp(f, b)
  BY <1>2, <1>3, <1>5, <1>6, PartsBefore DEF HasCopy, Named, Stamp
<1>8. First(f, bc) = f[b][Page(c, 0)]
  BY <1>2, <1>5 DEF First
<1>9. First(f, bc).value \in Values /\ Stamp(f, b) \in Nat
  BY <1>2, <1>5, <1>7, <1>8, PageKinds
<1> QED
  BY <1>1, <1>2, <1>5, <1>7, <1>8, <1>9 DEF b, c

LEMMA FirstCopy ==
  ASSUME NEW f, FlashOK(f), NEW b \in Blocks, HasCopy(f, b)
  PROVE  <<b, 0>> \in Whole(f) /\ Named(f, b)
<1>1. <<b, 0>> \in Whole(f)
  BY FirstPages, WholeIff DEF HasCopy
<1>2. Named(f, b)
  <2>1. 0 <= page_num - 1
    BY Parameters
  <2> QED
    BY <2>1, FirstPages, PartsBefore DEF HasCopy, Named
<1> QED
  BY <1>1, <1>2

\* The probe that passes over torn pages names the same blocks as page 0.
LEMMA Probing ==
  ASSUME NEW f, FlashType(f), FlashOK(f), NEW b \in Blocks
  PROVE  /\ Named(f, b) => Probed(f, b) # {} /\ Probe(f, b) = f[b][0]
         /\ Probed(f, b) # {} => (Probe(f, b).kind = "part" <=> Named(f, b))
<1>1. Probed(f, b) \in SUBSET Nat /\ Probed(f, b) \subseteq Copies
  BY FirstPages, PageInBlock DEF Probed
<1>2. ASSUME Named(f, b) PROVE Probed(f, b) # {} /\ Probe(f, b) = f[b][0]
  <2>4. 0 * page_num = 0 /\ 0 \in Copies
    BY FirstPages, Parameters
  <2>1. 0 \in Probed(f, b)
    BY <1>2, <2>4 DEF Named, Probed
  <2>2. Min(Probed(f, b)) \in Probed(f, b) /\ Min(Probed(f, b)) <= 0
    BY <1>1, <2>1, Smallest
  <2>3. Min(Probed(f, b)) = 0
    BY <1>1, <2>2
  <2> QED
    BY <2>1, <2>3, <2>4 DEF Probe
<1>3. ASSUME Probed(f, b) # {}, Probe(f, b).kind = "part" PROVE Named(f, b)
  <2>1. Min(Probed(f, b)) \in Copies
    BY <1>1, <1>3, Smallest
  <2>2. Min(Probed(f, b)) * page_num \in Pages /\ 0 <= Min(Probed(f, b)) * page_num
    BY <2>1, FirstPages, PageInBlock DEF Page, Pages
  <2> QED
    BY <1>3, <2>2, FirstPages, PartsBefore DEF Probe, Named
<1> QED
  BY <1>2, <1>3 DEF Named
-----------------------------------------------------------------------------
(***************************************************************************)
(* The newest copy                                                         *)
(***************************************************************************)
LEMMA NewestType ==
  ASSUME NEW f, FlashType(f)
  PROVE  Newest(f) \in Values \cup {None}
<1> DEFINE newest == {bc \in Whole(f) : IsNewest(f, bc)}
<1>1. CASE newest = {}
  BY <1>1 DEF Newest
<1>2. CASE newest # {}
  <2> DEFINE bc == CHOOSE x \in newest : TRUE
  <2>1. bc \in newest
    BY <1>2
  <2> HIDE DEF bc
  <2>2. bc \in Whole(f)
    BY <2>1
  <2>3. /\ bc[1] \in Blocks /\ bc[2] \in Copies /\ 0 \in 0..(page_num - 1)
        /\ f[bc[1]][bc[2] * page_num + 0].kind = "part"
    BY <2>2, FirstPages DEF Whole
  <2>4. bc[2] * page_num + 0 = bc[2] * page_num /\ bc[2] * page_num \in Pages
    BY <2>3, PageInBlock
  <2>5. f[bc[1]][bc[2] * page_num].kind = "part"
    BY <2>3, <2>4
  <2>6. First(f, bc).value \in Values
    BY <2>3, <2>4, <2>5, PageKinds DEF First
  <2>7. Newest(f) = First(f, bc).value
    BY <1>2 DEF Newest, bc
  <2> QED
    BY <2>6, <2>7
<1> QED
  BY <1>1, <1>2

\* There is at most one newest copy.
LEMMA NewestIs ==
  ASSUME NEW f, FlashType(f), FlashOK(f), NEW bc \in Whole(f), IsNewest(f, bc)
  PROVE  Newest(f) = First(f, bc).value
<1>1. ASSUME NEW d \in Whole(f), IsNewest(f, d) PROVE d = bc
  <2>1. /\ First(f, d).timestamp \in Nat /\ First(f, bc).timestamp \in Nat
        /\ d[2] \in Nat /\ bc[2] \in Nat /\ d = <<d[1], d[2]>> /\ bc = <<bc[1], bc[2]>>
    BY <1>1, WholeCopy
  <2>2. First(f, d).timestamp < First(f, bc).timestamp \/ (d[1] = bc[1] /\ d[2] <= bc[2])
    BY DEF IsNewest
  <2>3. First(f, bc).timestamp < First(f, d).timestamp \/ (bc[1] = d[1] /\ bc[2] <= d[2])
    BY <1>1 DEF IsNewest
  <2>4. d[1] = bc[1] /\ d[2] = bc[2]
    <3>1. d[1] = bc[1] => First(f, d).timestamp = First(f, bc).timestamp
      BY <1>1, WholeCopy
    <3> QED
      BY <2>1, <2>2, <2>3, <3>1
  <2> QED
    BY <2>1, <2>4
<1>2. {d \in Whole(f) : IsNewest(f, d)} = {bc}
  BY <1>1
<1>3. (CHOOSE d \in {bc} : TRUE) = bc
  OBVIOUS
<1> QED
  BY <1>2, <1>3 DEF Newest

\* The last copy of the block with the highest timestamp.
LEMMA LastCopyNewest ==
  ASSUME NEW f, FlashType(f), FlashOK(f), NEW b \in Blocks, NEW c \in Copies,
         <<b, c>> \in Whole(f), \A d \in Copies : <<b, d>> \in Whole(f) => d <= c,
         OthersOlder(f, b, Stamp(f, b))
  PROVE  IsNewest(f, <<b, c>>) /\ Newest(f) = First(f, <<b, c>>).value
<1>1. First(f, <<b, c>>).timestamp = Stamp(f, b)
  BY WholeCopy
<1>2. ASSUME NEW other \in Whole(f)
      PROVE  First(f, other).timestamp < First(f, <<b, c>>).timestamp
             \/ (other[1] = b /\ other[2] <= c)
  <2>1. /\ other[1] \in Blocks /\ other[2] \in Copies /\ other = <<other[1], other[2]>>
        /\ Named(f, other[1]) /\ First(f, other).timestamp = Stamp(f, other[1])
    BY <1>2, WholeCopy
  <2>2. CASE other[1] = b
    BY <2>1, <2>2
  <2>3. CASE other[1] # b
    BY <1>1, <2>1, <2>3 DEF OthersOlder
  <2> QED
    BY <2>2, <2>3
<1>3. IsNewest(f, <<b, c>>)
  BY <1>2 DEF IsNewest
<1> QED
  BY <1>3, NewestIs

LEMMA NothingNewest ==
  ASSUME NEW f, FlashType(f), FlashOK(f), \A b \in Blocks : ~Named(f, b)
  PROVE  Newest(f) = None
<1>1. Whole(f) = {}
  BY WholeCopy
<1> QED
  BY <1>1 DEF Newest

LEMMA SameWhole ==
  ASSUME NEW f, NEW g,
         \A o \in Blocks, c \in Copies : <<o, c>> \in Whole(g) <=> <<o, c>> \in Whole(f)
  PROVE  Whole(g) = Whole(f)
<1>1. Whole(g) \subseteq Blocks \X Copies /\ Whole(f) \subseteq Blocks \X Copies
  BY DEF Whole
<1>2. ASSUME NEW x \in Blocks \X Copies PROVE x \in Whole(g) <=> x \in Whole(f)
  <2>1. x = <<x[1], x[2]>> /\ x[1] \in Blocks /\ x[2] \in Copies
    OBVIOUS
  <2>2. <<x[1], x[2]>> \in Whole(g) <=> <<x[1], x[2]>> \in Whole(f)
    BY <2>1
  <2> QED
    BY <2>1, <2>2
<1> QED
  BY <1>1, <1>2

SomeOf(S) == CHOOSE x \in S : TRUE

LEMMA SameNewest ==
  ASSUME NEW f, NEW g,
         {bc \in Whole(g) : IsNewest(g, bc)} = {bc \in Whole(f) : IsNewest(f, bc)},
         \A bc \in Whole(f) : IsNewest(f, bc) => First(g, bc) = First(f, bc)
  PROVE  Newest(g) = Newest(f)
<1> DEFINE newest == {bc \in Whole(f) : IsNewest(f, bc)}
           other == {bc \in Whole(g) : IsNewest(g, bc)}
<1>1. Newest(f) = IF newest = {} THEN None ELSE First(f, SomeOf(newest)).value
  BY DEF Newest, SomeOf
<1>2. Newest(g) = IF other = {} THEN None ELSE First(g, SomeOf(other)).value
  BY DEF Newest, SomeOf
<1>3. newest # {} => SomeOf(newest) \in newest
  BY DEF SomeOf
<1>4. newest # {} => First(g, SomeOf(newest)) = First(f, SomeOf(newest))
  BY <1>3
<1>5. other = newest
  OBVIOUS
<1> HIDE DEF newest, other
<1> QED
  BY <1>1, <1>2, <1>4, <1>5

\* A change that leaves the whole copies alone.
LEMMA SameCopies ==
  ASSUME NEW f, NEW g, Whole(g) = Whole(f), \A bc \in Whole(f) : First(g, bc) = First(f, bc)
  PROVE  Newest(g) = Newest(f)
<1>1. \A bc \in Whole(f) : IsNewest(g, bc) <=> IsNewest(f, bc)
  BY DEF IsNewest
<1>2. {bc \in Whole(g) : IsNewest(g, bc)} = {bc \in Whole(f) : IsNewest(f, bc)}
  BY <1>1
<1> QED
  BY <1>2, SameNewest

\* A block is erased or spoiled for which there is a newer one.
LEMMA OldCopiesLost ==
  ASSUME NEW f, FlashType(f), FlashOK(f), NEW g, FlashType(g), FlashOK(g), NEW b \in Blocks,
         \A o \in Blocks \ {b} : g[o] = f[o], ~HasCopy(g, b), Superseded(f, b)
  PROVE  Newest(g) = Newest(f)
<1>1. ASSUME NEW o \in Blocks \ {b}, NEW c \in Copies
      PROVE  /\ <<o, c>> \in Whole(g) <=> <<o, c>> \in Whole(f)
             /\ First(g, <<o, c>>) = First(f, <<o, c>>)
  BY WholeIff DEF First
<1>2. ASSUME NEW bc \in Whole(g) PROVE bc[1] # b /\ bc \in Whole(f) /\ First(g, bc) = First(f, bc)
  <2>1. bc[1] \in Blocks /\ bc[2] \in Copies /\ bc = <<bc[1], bc[2]>> /\ HasCopy(g, bc[1])
    BY <1>2, WholeCopy
  <2>2. bc[1] # b
    BY <2>1
  <2> QED
    BY <1>1, <1>2, <2>1, <2>2
<1>3. ASSUME NEW bc \in Whole(f), bc[1] # b PROVE bc \in Whole(g) /\ First(g, bc) = First(f, bc)
  <2>1. bc[1] \in Blocks /\ bc[2] \in Copies /\ bc = <<bc[1], bc[2]>>
    BY <1>3, WholeCopy
  <2> QED
    BY <1>1, <1>3, <2>1
<1>4. CASE ~HasCopy(f, b)
  <2>1. Whole(g) = Whole(f)
    <3>1. \A bc \in Whole(f) : bc[1] # b
      BY <1>4, WholeCopy
    <3> QED
      BY <1>2, <1>3, <3>1
  <2> QED
    BY <1>2, <2>1, SameCopies
<1>5. CASE HasCopy(f, b)
  <2>1. PICK o \in Blocks : HasCopy(f, o) /\ Stamp(f, o) > Stamp(f, b)
    BY <1>5 DEF Superseded
  <2>2. /\ <<o, 0>> \in Whole(f) /\ First(f, <<o, 0>>).timestamp = Stamp(f, o)
        /\ Stamp(f, o) \in Nat /\ <<b, 0>> \in Whole(f) /\ Stamp(f, b) \in Nat
    <3>1. <<o, 0>> \in Whole(f) /\ <<b, 0>> \in Whole(f)
      BY <1>5, <2>1, FirstCopy
    <3> QED
      BY <3>1, WholeCopy
  <2>3. o # b
    BY <2>1, <2>2
  <2>4. <<o, 0>> \in Whole(g) /\ First(g, <<o, 0>>).timestamp = Stamp(f, o)
    BY <1>1, <2>2, <2>3, FirstPages
  <2>5. ASSUME NEW bc \in Whole(f), bc[1] = b PROVE First(f, bc).timestamp = Stamp(f, b)
    BY <2>5, WholeCopy
  <2>6. ASSUME NEW bc \in Whole(f), IsNewest(f, bc)
        PROVE  bc \in Whole(g) /\ IsNewest(g, bc)
    <3>1. bc[1] # b
      <4> SUFFICES ASSUME bc[1] = b PROVE FALSE
        OBVIOUS
      <4>1. First(f, bc).timestamp = Stamp(f, b)
        BY <2>5
      <4> QED
        BY <2>1, <2>2, <2>3, <2>6, <4>1 DEF IsNewest
    <3>2. bc \in Whole(g) /\ First(g, bc) = First(f, bc)
      BY <1>3, <3>1
    <3> QED
      BY <1>2, <2>6, <3>2 DEF IsNewest
  <2>7. ASSUME NEW bc \in Whole(g), IsNewest(g, bc)
        PROVE  bc \in Whole(f) /\ IsNewest(f, bc)
    <3>1. bc \in Whole(f) /\ First(g, bc) = First(f, bc) /\ bc[1] # b
          /\ First(f, bc).timestamp \in Nat
      BY <1>2, WholeCopy
    <3>2. Stamp(f, o) <= First(f, bc).timestamp
      <4>1. \/ First(g, <<o, 0>>).timestamp < First(g, bc).timestamp
            \/ o = bc[1]
        BY <2>4, <2>7 DEF IsNewest
      <4>2. o = bc[1] => First(f, bc).timestamp = Stamp(f, o)
        BY <3>1, WholeCopy
      <4> QED
        BY <2>2, <2>4, <3>1, <4>1, <4>2
    <3>3. ASSUME NEW other \in Whole(f)
          PROVE  First(f, other).timestamp < First(f, bc).timestamp
                 \/ (other[1] = bc[1] /\ other[2] <= bc[2])
      <4>1. CASE other[1] = b
        <5>1. First(f, other).timestamp = Stamp(f, b)
          BY <2>5, <4>1
        <5> QED
          BY <2>1, <2>2, <3>1, <3>2, <5>1
      <4>2. CASE other[1] # b
        <5>1. other \in Whole(g) /\ First(g, other) = First(f, other)
          BY <1>3, <4>2
        <5> QED
          BY <2>7, <3>1, <5>1 DEF IsNewest
      <4> QED
        BY <4>1, <4>2
    <3> QED
      BY <3>1, <3>3 DEF IsNewest
  <2>8. {bc \in Whole(g) : IsNewest(g, bc)} = {bc \in Whole(f) : IsNewest(f, bc)}
    BY <2>6, <2>7
  <2> QED
    BY <1>2, <2>6, <2>8, SameNewest
<1> QED
  BY <1>4, <1>5
-----------------------------------------------------------------------------
(***************************************************************************)
(* What erasing and writing make of the flash, finished or broken off      *)
(***************************************************************************)
Spoil(f, b, x) == [f EXCEPT ![b] = Filled(x)]

LEMMA Spoiled ==
  ASSUME NEW f, FlashType(f), FlashOK(f), NEW b \in Blocks, NEW x \in {Blank, Torn}
  PROVE  /\ FlashType(Spoil(f, b, x)) /\ FlashOK(Spoil(f, b, x))
         /\ \A o \in Blocks \ {b} : Spoil(f, b, x)[o] = f[o]
         /\ Spoil(f, b, x)[b] = Filled(x)
         /\ ~Named(Spoil(f, b, x), b) /\ ~HasCopy(Spoil(f, b, x), b)
<1> DEFINE g == Spoil(f, b, x)
<1>1. FlashType(g)
  BY FlashChanges DEF Spoil
<1>2. /\ \A o \in Blocks \ {b} : g[o] = f[o]
      /\ g[b] = Filled(x) /\ \A p \in Pages : g[b][p] = x
  BY DEF FlashType, Filled, Spoil
<1> HIDE DEF g
<1>3. x.kind # "part"
  BY DEF Blank, Torn
<1>4. ~Named(g, b) /\ ~HasCopy(g, b)
  BY <1>2, <1>3, FirstPages DEF Named, HasCopy
<1>5. Orderly(g)
  <2> SUFFICES ASSUME NEW o \in Blocks, NEW p \in Pages, NEW q \in 0..(p - 1)
               PROVE  /\ g[o][p].kind = "part" => /\ g[o][q].kind = "part"
                                                  /\ g[o][q].timestamp = g[o][p].timestamp
                      /\ g[o][p].kind = "torn" => g[o][q].kind = "part" \/ g[o] = Filled(Torn)
    BY DEF Orderly
  <2>1. CASE o = b
    <3>1. g[o] = Filled(x) /\ g[o][p] = x
      BY <1>2, <2>1
    <3>2. Blank.kind = "blank" /\ Torn.kind = "torn"
      BY DEF Blank, Torn
    <3>3. x = Blank => g[o][p].kind = "blank"
      BY <3>1, <3>2
    <3>4. x # Blank => g[o][p].kind = "torn" /\ g[o] = Filled(Torn)
      BY <3>1, <3>2
    <3> QED
      BY <3>3, <3>4
  <2>2. CASE o # b
    <3>1. g[o] = f[o]
      BY <1>2, <2>2
    <3> QED
      BY <3>1 DEF FlashOK, Orderly
  <2> QED
    BY <2>1, <2>2
<1>6. OneSave(g)
  <2> SUFFICES ASSUME NEW o \in Blocks, NEW c \in Copies, NEW k \in 0..(page_num - 1),
                      g[o][Page(c, k)].kind = "part"
               PROVE  g[o][Page(c, k)] = g[o][Page(c, 0)]
    BY DEF OneSave
  <2>1. o # b
    BY <1>2, <1>3, PageInBlock
  <2> QED
    BY <1>2, <2>1 DEF FlashOK, OneSave
<1>7. DistinctStamps(g)
  <2> SUFFICES ASSUME NEW o \in Blocks, NEW e \in Blocks, Named(g, o), Named(g, e), o # e
               PROVE  Stamp(g, o) # Stamp(g, e)
    BY DEF DistinctStamps
  <2>1. o # b /\ e # b
    BY <1>4
  <2> QED
    BY <1>2, <2>1 DEF FlashOK, DistinctStamps, Named, Stamp
<1>8. BadUntouched(g)
  BY <1>2, AreaAssumption DEF FlashOK, BadUntouched
<1> QED
  BY <1>1, <1>2, <1>4, <1>5, <1>6, <1>7, <1>8 DEF FlashOK, g

\* The page that is written next is damaged: no copy is.
LEMMA TornPart ==
  ASSUME NEW f, FlashType(f), FlashOK(f), NEW b \in Blocks \ Bad, NEW p \in Pages,
         BlankFrom(f, b, p), \A q \in 0..(p - 1) : f[b][q].kind = "part",
         NEW g, g = [f EXCEPT ![b][p] = Torn]
  PROVE  FlashType(g) /\ FlashOK(g) /\ Newest(g) = Newest(f)
<1>1. FlashType(g)
  BY FlashChanges
<1>2. /\ \A o \in Blocks \ {b} : g[o] = f[o]
      /\ g[b][p] = Torn /\ \A q \in Pages \ {p} : g[b][q] = f[b][q]
  BY DEF FlashType
<1>3. Torn.kind = "torn" /\ p \in Nat /\ \A q \in Pages : q \in Nat
  BY Parameters DEF Torn, Pages
<1>4. \A o \in Blocks, q \in Pages :
        g[o][q].kind = "part" <=> f[o][q].kind = "part"
  <2> SUFFICES ASSUME NEW o \in Blocks, NEW q \in Pages
               PROVE  g[o][q].kind = "part" <=> f[o][q].kind = "part"
    OBVIOUS
  <2>1. f[b][p].kind = "blank"
    BY <1>3 DEF BlankFrom
  <2> QED
    BY <1>2, <1>3, <2>1
<1>5. \A o \in Blocks, q \in Pages : f[o][q].kind = "part" => g[o][q] = f[o][q]
  <2>1. f[b][p].kind = "blank"
    BY <1>3 DEF BlankFrom
  <2> QED
    BY <1>2, <2>1
<1>6. Orderly(g)
  <2> SUFFICES ASSUME NEW o \in Blocks, NEW r \in Pages, NEW q \in 0..(r - 1)
               PROVE  /\ g[o][r].kind = "part" => /\ g[o][q].kind = "part"
                                                  /\ g[o][q].timestamp = g[o][r].timestamp
                      /\ g[o][r].kind = "torn" => g[o][q].kind = "part" \/ g[o] = Filled(Torn)
    BY DEF Orderly
  <2>1. q \in Pages /\ q < r
    BY <1>3, Parameters DEF Pages
  <2>2. CASE o # b
    BY <1>2, <2>2 DEF FlashOK, Orderly
  <2>3. CASE o = b /\ g[o][r].kind = "part"
    <3>1. f[o][r].kind = "part" /\ g[o][r] = f[o][r]
      BY <1>4, <1>5, <2>3
    <3>2. f[o][q].kind = "part" /\ f[o][q].timestamp = f[o][r].timestamp
      BY <3>1 DEF FlashOK, Orderly
    <3> QED
      BY <1>5, <2>1, <2>3, <3>1, <3>2
  <2>4. CASE o = b /\ g[o][r].kind = "torn"
    <3>1. r = p
      <4> SUFFICES ASSUME r # p PROVE FALSE
        OBVIOUS
      <4>1. f[b][r].kind = "torn"
        BY <1>2, <2>4
      <4>2. r < p
        BY <1>3, <4>1 DEF BlankFrom
      <4>3. r \in 0..(p - 1)
        BY <1>3, <4>2
      <4> QED
        BY <4>1, <4>3
    <3>2. f[o][q].kind = "part"
      BY <2>4, <3>1
    <3> QED
      BY <1>4, <2>1, <2>4, <3>2
  <2> QED
    BY <2>2, <2>3, <2>4
<1>7. OneSave(g)
  <2> SUFFICES ASSUME NEW o \in Blocks, NEW c \in Copies, NEW k \in 0..(page_num - 1),
                      g[o][Page(c, k)].kind = "part"
               PROVE  g[o][Page(c, k)] = g[o][Page(c, 0)]
    BY DEF OneSave
  <2>1. Page(c, k) \in Pages /\ Page(c, 0) \in Pages
    BY FirstPages, PageInBlock
  <2>2. f[o][Page(c, k)].kind = "part" /\ g[o][Page(c, k)] = f[o][Page(c, k)]
    BY <1>4, <1>5, <2>1
  <2>3. f[o][Page(c, k)] = f[o][Page(c, 0)]
    BY <2>2 DEF FlashOK, OneSave
  <2> QED
    BY <1>5, <2>1, <2>2, <2>3
<1>8. DistinctStamps(g)
  BY <1>4, <1>5, FirstPages DEF FlashOK, DistinctStamps, Named, Stamp
<1>9. BadUntouched(g)
  BY <1>2, AreaAssumption DEF FlashOK, BadUntouched
<1>10. FlashOK(g)
  BY <1>6, <1>7, <1>8, <1>9 DEF FlashOK
<1>11. Newest(g) = Newest(f)
  <2>1. ASSUME NEW o \in Blocks, NEW c \in Copies
        PROVE  <<o, c>> \in Whole(g) <=> <<o, c>> \in Whole(f)
    <3>1. Page(c, page_num - 1) \in Pages
      BY FirstPages, PageInBlock, Parameters
    <3> QED
      BY <1>4, <1>10, <3>1, WholeIff
  <2>2. Whole(g) = Whole(f)
    BY <2>1, SameWhole
  <2>3. ASSUME NEW bc \in Whole(f) PROVE First(g, bc) = First(f, bc)
    <3>1. /\ bc[1] \in Blocks /\ bc[2] \in Copies /\ 0 \in 0..(page_num - 1)
          /\ f[bc[1]][bc[2] * page_num + 0].kind = "part"
      BY <2>3, FirstPages DEF Whole
    <3>2. bc[2] * page_num + 0 = bc[2] * page_num /\ bc[2] * page_num \in Pages
      BY <3>1, PageInBlock
    <3> QED
      BY <1>5, <3>1, <3>2 DEF First
  <2> QED
    BY <2>2, <2>3, SameCopies
<1> QED
  BY <1>1, <1>10, <1>11

Programmed(f, b, p, x) == [f EXCEPT ![b][p] = x]

PartWritten(f, g, b, c, k, t, v) ==
  /\ FlashType(g) /\ FlashOK(g)
  /\ \A o \in Blocks \ {b} : g[o] = f[o]
  /\ PartsUpTo(g, b, Page(c, k) + 1, t) /\ ValuesUpTo(g, b, c, k + 1, v)
  /\ BlankFrom(g, b, Page(c, k) + 1)
  /\ k < page_num - 1 => Newest(g) = Newest(f)
  /\ k = page_num - 1 =>
       /\ <<b, c>> \in Whole(g) /\ \A d \in Copies : <<b, d>> \in Whole(g) => d <= c
       /\ Newest(g) = v

\* The next part of a copy is written: the copy counts once it was the last.
LEMMA Written ==
  ASSUME NEW f, FlashType(f), FlashOK(f), NEW b \in Blocks \ Bad,
         NEW c \in Copies, NEW k \in 0..(page_num - 1),
         NEW t \in Nat, t < Timestamps, NEW v \in Values,
         BlankFrom(f, b, Page(c, k)), OthersOlder(f, b, t),
         PartsUpTo(f, b, Page(c, k), t), ValuesUpTo(f, b, c, k, v),
         NEW g, g = Programmed(f, b, Page(c, k), Part(t, v))
  PROVE  PartWritten(f, g, b, c, k, t, v)
<1> DEFINE p == Page(c, k)
           new == Part(t, v)
<1>1. /\ p \in Pages /\ p \in Nat /\ p = c * page_num + k /\ c * page_num \in Nat
      /\ \A q \in Pages : q \in Nat /\ q < pages_per_blk
      /\ \A q \in 0..p : q \in Pages
      /\ page_num \in Nat \ {0} /\ k \in Nat /\ k < page_num /\ pages_per_blk \in Nat
  BY PageInBlock, Parameters DEF Pages
<1>2. /\ new \in AllParts /\ new.kind = "part" /\ new.timestamp = t /\ new.value = v
      /\ new = [kind |-> "part", timestamp |-> t, value |-> v]
  <2>1. t % Timestamps = t
    BY FlashAssumption
  <2> QED
    BY <2>1, PartIsPart DEF Part
<1>3. FlashType(g)
  BY <1>2, FlashChanges DEF Programmed
<1>4. f[b][p].kind = "blank"
  BY <1>1 DEF BlankFrom
<1> HIDE DEF p, new
<1>5. /\ \A o \in Blocks \ {b} : g[o] = f[o]
      /\ g[b][p] = new /\ \A q \in Pages \ {p} : g[b][q] = f[b][q]
  <2>1. g = [f EXCEPT ![b][p] = new]
    BY DEF p, new, Programmed
  <2> QED
    BY <1>1, <2>1 DEF FlashType
<1>6. \A q \in 0..(p - 1) : q \in Pages /\ f[b][q].kind = "part" /\ f[b][q].timestamp = t
  BY <1>1 DEF p, PartsUpTo
<1>7. \A q \in 0..p : g[b][q].kind = "part" /\ g[b][q].timestamp = t
  <2> TAKE q \in 0..p
  <2>1. CASE q = p
    BY <1>2, <1>5, <2>1
  <2>2. CASE q # p
    <3>1. q \in 0..(p - 1) /\ q \in Pages \ {p}
      BY <1>1, <2>2
    <3> QED
      BY <1>5, <1>6, <3>1
  <2> QED
    BY <2>1, <2>2
<1>8. BlankFrom(g, b, p + 1)
  <2> SUFFICES ASSUME NEW q \in Pages, q >= p + 1 PROVE g[b][q].kind = "blank"
    BY DEF BlankFrom
  <2>1. q >= p /\ q # p
    BY <1>1
  <2>2. f[b][q].kind = "blank"
    BY <2>1 DEF BlankFrom, p
  <2> QED
    BY <1>5, <2>1, <2>2
<1>9. \A j \in 0..k : g[b][Page(c, j)].value = v
  <2> TAKE j \in 0..k
  <2>1. CASE j = k
    BY <1>2, <1>5, <2>1 DEF p
  <2>2. CASE j # k
    <3>1. j \in 0..(k - 1) /\ j \in 0..(page_num - 1)
      BY <1>1, <2>2
    <3>2. Page(c, j) \in Pages /\ Page(c, j) # p
      BY <1>1, <2>2, <3>1, PageInBlock
    <3> QED
      BY <1>5, <3>1, <3>2 DEF ValuesUpTo
  <2> QED
    BY <2>1, <2>2
<1>10. \A q \in Pages : g[b][q].kind # "part" <=> q > p
  <2> TAKE q \in Pages
  <2>1. CASE q > p
    BY <1>1, <1>8, <2>1 DEF BlankFrom
  <2>2. CASE ~(q > p)
    <3>1. q \in 0..p
      BY <1>1, <2>2
    <3> QED
      BY <1>7, <2>2, <3>1
  <2> QED
    BY <2>1, <2>2
<1>11. Orderly(g)
  <2> SUFFICES ASSUME NEW o \in Blocks, NEW r \in Pages, NEW q \in 0..(r - 1)
               PROVE  /\ g[o][r].kind = "part" => /\ g[o][q].kind = "part"
                                                  /\ g[o][q].timestamp = g[o][r].timestamp
                      /\ g[o][r].kind = "torn" => g[o][q].kind = "part" \/ g[o] = Filled(Torn)
    BY DEF Orderly
  <2>1. CASE o # b
    BY <1>5, <2>1 DEF FlashOK, Orderly
  <2>2. CASE o = b /\ r > p
    <3>1. g[o][r].kind = "blank"
      BY <1>1, <1>8, <2>2 DEF BlankFrom
    <3> QED
      BY <3>1
  <2>3. CASE o = b /\ ~(r > p)
    <3>1. r \in 0..p /\ q \in 0..p
      BY <1>1, <2>3
    <3>2. g[o][r].kind = "part" /\ g[o][q].kind = "part"
          /\ g[o][r].timestamp = t /\ g[o][q].timestamp = t
      BY <1>7, <2>3, <3>1
    <3> QED
      BY <3>2
  <2> QED
    BY <2>1, <2>2, <2>3
<1>12. OneSave(g)
  <2> SUFFICES ASSUME NEW o \in Blocks, NEW d \in Copies, NEW j \in 0..(page_num - 1),
                      g[o][Page(d, j)].kind = "part"
               PROVE  g[o][Page(d, j)] = g[o][Page(d, 0)]
    BY DEF OneSave
  <2>1. Page(d, j) \in Pages /\ Page(d, 0) \in Pages /\ Page(d, 0) <= Page(d, j)
        /\ d \in Nat /\ c \in Nat
    <3>1. 0 \in 0..(page_num - 1) /\ d * page_num \in Nat
      BY FirstPages, PageInBlock
    <3> QED
      BY <3>1, PageInBlock, Parameters DEF Page
  <2>2. CASE o # b
    BY <1>5, <2>2 DEF FlashOK, OneSave
  <2>3. CASE o = b /\ Page(d, j) # p
    <3>1. Page(d, 0) # p
      <4>1. Page(d, j) \in Nat /\ Page(d, 0) \in Nat
        BY <1>1, <2>1
      <4>2. ~(Page(d, j) > p)
        BY <1>10, <2>1, <2>3
      <4> QED
        BY <1>1, <2>1, <2>3, <4>1, <4>2
    <3>2. f[b][Page(d, j)].kind = "part"
      BY <1>5, <2>1, <2>3
    <3>3. f[b][Page(d, j)] = f[b][Page(d, 0)]
      BY <3>2 DEF FlashOK, OneSave
    <3> QED
      BY <1>5, <2>1, <2>3, <3>1, <3>3
  <2>4. CASE o = b /\ Page(d, j) = p
    <3>1. d = c /\ j = k
      BY <2>1, <2>4, SamePage DEF p
    <3>2. 0 \in 0..k /\ k \in 0..k
      BY <1>1
    <3>3. g[b][Page(c, 0)].value = v
      BY <1>9, <3>2
    <3>4. Page(c, 0) \in 0..p
      <4>1. Page(c, 0) \in Nat /\ Page(c, 0) <= p
        BY <1>1, <2>1, <2>4, <3>1
      <4> QED
        BY <1>1, <4>1
    <3>5. g[b][Page(c, 0)].kind = "part" /\ g[b][Page(c, 0)].timestamp = t
      BY <1>7, <3>4
    <3>6. g[b][Page(c, 0)] \in AllParts
      <4>1. g[b][Page(c, 0)] \in {Blank, Torn} \cup AllParts
        BY <1>3, <2>1, <3>1, PageKinds
      <4> QED
        BY <3>5, <4>1 DEF Blank, Torn
    <3>7. g[b][Page(c, 0)] = new
      <4>1. PICK s \in 0..(Timestamps - 1), w \in Values :
              g[b][Page(c, 0)] = [kind |-> "part", timestamp |-> s % Timestamps, value |-> w]
        BY <3>6 DEF AllParts, Part
      <4>2. s % Timestamps = t /\ w = v
        BY <3>3, <3>5, <4>1
      <4> QED
        BY <1>2, <4>1, <4>2
    <3> QED
      BY <1>5, <2>4, <3>1, <3>7
  <2> QED
    BY <2>2, <2>3, <2>4
<1>13. OthersOlder(g, b, t) /\ Stamp(g, b) = t /\ Named(g, b)
  <2>1. 0 \in 0..p
    BY <1>1
  <2> QED
    BY <1>5, <1>7, <2>1 DEF OthersOlder, Named, Stamp
<1>14. DistinctStamps(g)
  <2> SUFFICES ASSUME NEW o \in Blocks, NEW e \in Blocks, Named(g, o), Named(g, e), o # e
               PROVE  Stamp(g, o) # Stamp(g, e)
    BY DEF DistinctStamps
  <2>1. Stamp(g, o) \in Nat /\ Stamp(g, e) \in Nat
    BY <1>3, FirstPages, PageKinds DEF Named, Stamp
  <2>2. CASE o = b
    <3>1. Stamp(g, o) = t /\ Stamp(g, e) < t
      BY <1>13, <2>2 DEF OthersOlder, Named
    <3> QED
      BY <2>1, <3>1
  <2>3. CASE e = b
    <3>1. Stamp(g, e) = t /\ Stamp(g, o) < t
      BY <1>13, <2>3 DEF OthersOlder, Named
    <3> QED
      BY <2>1, <3>1
  <2>4. CASE o # b /\ e # b
    BY <1>5, <2>4 DEF FlashOK, DistinctStamps, Named, Stamp
  <2> QED
    BY <2>2, <2>3, <2>4
<1>15. BadUntouched(g)
  BY <1>5, AreaAssumption DEF FlashOK, BadUntouched
<1>16. FlashOK(g)
  BY <1>11, <1>12, <1>14, <1>15 DEF FlashOK
<1>17. ASSUME k < page_num - 1 PROVE Newest(g) = Newest(f)
  <2>1. ASSUME NEW o \in Blocks, NEW d \in Copies
        PROVE  <<o, d>> \in Whole(g) <=> <<o, d>> \in Whole(f)
    <3>1. Page(d, page_num - 1) \in Pages /\ page_num - 1 \in 0..(page_num - 1) /\ d \in Nat /\ c \in Nat
      BY LastPart
    <3>2. Page(d, page_num - 1) # p
      <4>1. Page(d, page_num - 1) = Page(c, k) => page_num - 1 = k
        BY <3>1, SamePage
      <4>2. page_num - 1 # k
        BY <1>1, <1>17
      <4> QED
        BY <4>1, <4>2 DEF p
    <3>3. g[o][Page(d, page_num - 1)] = f[o][Page(d, page_num - 1)]
      <4>1. CASE o = b
        BY <1>5, <3>1, <3>2, <4>1
      <4>2. CASE o # b
        BY <1>5, <4>2
      <4> QED
        BY <4>1, <4>2
    <3>4. <<o, d>> \in Whole(g) <=> g[o][Page(d, page_num - 1)].kind = "part"
      BY <1>16, WholeIff
    <3>5. <<o, d>> \in Whole(f) <=> f[o][Page(d, page_num - 1)].kind = "part"
      BY WholeIff
    <3> QED
      BY <3>3, <3>4, <3>5
  <2>2. Whole(g) = Whole(f)
    BY <2>1, SameWhole
  <2>3. ASSUME NEW bc \in Whole(f) PROVE First(g, bc) = First(f, bc)
    <3>1. /\ bc[1] \in Blocks /\ bc[2] \in Copies /\ 0 \in 0..(page_num - 1)
          /\ f[bc[1]][bc[2] * page_num + 0].kind = "part"
      BY <2>3, FirstPages DEF Whole
    <3>2. bc[2] * page_num + 0 = bc[2] * page_num /\ bc[2] * page_num \in Pages
      BY <3>1, PageInBlock
    <3> QED
      BY <1>4, <1>5, <3>1, <3>2 DEF First
  <2> QED
    BY <2>2, <2>3, SameCopies
<1>18. ASSUME k = page_num - 1
       PROVE  /\ <<b, c>> \in Whole(g) /\ \A d \in Copies : <<b, d>> \in Whole(g) => d <= c
              /\ Newest(g) = v
  <2>1. <<b, c>> \in Whole(g)
    BY <1>2, <1>5, <1>16, <1>18, WholeIff DEF p
  <2>2. ASSUME NEW d \in Copies, <<b, d>> \in Whole(g) PROVE d <= c
    <3>1. g[b][Page(d, page_num - 1)].kind = "part"
      BY <1>16, <2>2, WholeIff
    <3>2. page_num - 1 \in 0..(page_num - 1) /\ c \in Nat /\ d \in Nat
          /\ Page(d, page_num - 1) \in Pages
          /\ Page(d, page_num - 1) = d * page_num + (page_num - 1)
      BY <1>1, PageInBlock
    <3>3. Page(d, page_num - 1) <= p
      BY <1>1, <1>10, <3>1, <3>2
    <3>4. d * page_num <= c * page_num
      BY <1>1, <1>18, <3>2, <3>3
    <3> SUFFICES ASSUME c + 1 <= d PROVE FALSE
      BY <3>2
    <3>5. (c + 1) * page_num <= d * page_num /\ (c + 1) * page_num = c * page_num + page_num
          /\ d * page_num \in Nat
      BY <1>1, <3>2, Times
    <3> QED
      BY <1>1, <3>4, <3>5
  <2>3. Newest(g) = First(g, <<b, c>>).value
    BY <1>3, <1>13, <1>16, <2>1, <2>2, LastCopyNewest
  <2>4. First(g, <<b, c>>).value = v
    <3>1. 0 \in 0..k /\ Page(c, 0) = c * page_num
      BY <1>1 DEF Page
    <3> QED
      BY <1>9, <3>1 DEF First
  <2> QED
    BY <2>1, <2>2, <2>3, <2>4
<1>19. PartsUpTo(g, b, p + 1, t) /\ ValuesUpTo(g, b, c, k + 1, v)
  <2> DEFINE n == p + 1
             m == k + 1
  <2>1. 0..(n - 1) = 0..p /\ 0..(m - 1) = 0..k
    BY <1>1
  <2> HIDE DEF n, m
  <2>2. PartsUpTo(g, b, n, t)
    BY <1>7, <2>1 DEF PartsUpTo
  <2>3. ValuesUpTo(g, b, c, m, v)
    BY <1>9, <2>1 DEF ValuesUpTo
  <2> QED
    BY <2>2, <2>3 DEF n, m
<1> QED
  BY <1>3, <1>5, <1>8, <1>16, <1>17, <1>18, <1>19 DEF p, PartWritten
-----------------------------------------------------------------------------
(***************************************************************************)
(* The second stage finds the last copy of the block it reads              *)
(***************************************************************************)
LEMMA ReadableParts ==
  ASSUME NEW f, FlashType(f), FlashOK(f), NEW b \in Blocks
  PROVE  Readable(f, b) = {p \in Pages : f[b][p].kind = "part"}
<1>1. ASSUME NEW p \in Pages, f[b][p].kind = "part" PROVE p \in Readable(f, b)
  <2>1. \A q \in 0..p : f[b][q].kind # "blank"
    <3> TAKE q \in 0..p
    <3>1. q \in Pages /\ q <= p
      BY Parameters DEF Pages
    <3> QED
      BY <1>1, <3>1, PartsBefore
  <2> QED
    BY <1>1, <2>1 DEF Readable, Reached
<1> QED
  BY <1>1 DEF Readable, Reached

\* Which copies are complete, when pages found good in earlier passes count too.
LEMMA CompleteWhole ==
  ASSUME NEW f, FlashType(f), FlashOK(f), NEW b \in Blocks, NEW good,
         good \subseteq 0..(page_num - 2)
  PROVE  /\ ~HasCopy(f, b) => /\ Complete(good \cup Readable(f, b)) = {}
                              /\ good \cup Readable(f, b) \subseteq 0..(page_num - 2)
         /\ HasCopy(f, b) =>
              \A c \in Copies :
                c \in Complete(good \cup Readable(f, b)) <=> <<b, c>> \in Whole(f)
<1> DEFINE R == Readable(f, b)
<1>1. R = {p \in Pages : f[b][p].kind = "part"}
  BY ReadableParts
<1>2. page_num \in Nat \ {0} /\ page_num - 1 \in 0..(page_num - 1) /\ page_num - 1 \in Pages
      /\ 0 \in 0..(page_num - 1) /\ \A p \in Pages : p \in Nat
  BY FirstPages, Parameters DEF Pages
<1> HIDE DEF R
<1>3. ASSUME ~HasCopy(f, b)
      PROVE  Complete(good \cup R) = {} /\ good \cup R \subseteq 0..(page_num - 2)
  <2>1. R \subseteq 0..(page_num - 2)
    <3> SUFFICES ASSUME NEW p \in R PROVE p \in 0..(page_num - 2)
      OBVIOUS
    <3>1. p \in Pages /\ f[b][p].kind = "part"
      BY <1>1
    <3>2. ~(page_num - 1 <= p)
      BY <1>2, <1>3, <3>1, PartsBefore DEF HasCopy
    <3> QED
      BY <1>2, <3>1, <3>2
  <2>2. ASSUME NEW c \in Complete(good \cup R) PROVE FALSE
    <3>1. c \in Copies /\ c * page_num + (page_num - 1) \in good \cup R
      BY <1>2 DEF Complete
    <3>2. c * page_num \in Nat
      BY <1>2, <3>1, PageInBlock
    <3>3. c * page_num + (page_num - 1) \in 0..(page_num - 2)
      BY <2>1, <3>1
    <3> QED
      BY <1>2, <3>2, <3>3
  <2> QED
    BY <2>1, <2>2
<1>4. ASSUME HasCopy(f, b), NEW c \in Copies
      PROVE  c \in Complete(good \cup R) <=> <<b, c>> \in Whole(f)
  <2>1. good \subseteq R
    <3> SUFFICES ASSUME NEW p \in good PROVE p \in R
      OBVIOUS
    <3>1. p \in Pages /\ p <= page_num - 1
      BY <1>2, Parameters DEF Pages
    <3>2. f[b][p].kind = "part"
      BY <1>2, <1>4, <3>1, PartsBefore DEF HasCopy
    <3> QED
      BY <1>1, <3>1, <3>2
  <2>2. good \cup R = R
    BY <2>1
  <2>3. ASSUME c \in Complete(R) PROVE <<b, c>> \in Whole(f)
    <3>1. c * page_num + (page_num - 1) \in R
      BY <1>2, <2>3 DEF Complete
    <3>2. f[b][Page(c, page_num - 1)].kind = "part"
      BY <1>1, <3>1 DEF Page
    <3> QED
      BY <3>2, WholeIff
  <2>4. ASSUME <<b, c>> \in Whole(f) PROVE c \in Complete(R)
    <3> SUFFICES ASSUME NEW k \in 0..(page_num - 1) PROVE c * page_num + k \in R
      BY DEF Complete
    <3>1. f[b][c * page_num + k].kind = "part"
      BY <2>4 DEF Whole
    <3>2. c * page_num + k \in Pages
      BY PageInBlock DEF Page
    <3> QED
      BY <1>1, <3>1, <3>2
  <2> QED
    BY <2>2, <2>3, <2>4
<1> QED
  BY <1>3, <1>4 DEF R

\* Where the pages of a copy end, nothing but blank pages follow.
LEMMA EndsWell ==
  ASSUME NEW f, FlashType(f), FlashOK(f), NEW i \in InfoType, i.phy_blk_addr \in Blocks,
         Named(f, i.phy_blk_addr), ~Abnormal(f, i)
  PROVE  /\ HasCopy(f, i.phy_blk_addr)
         /\ \E c \in Copies :
              /\ LastPage(f, i) = Page(c, page_num - 1)
              /\ LastPage(f, i) - (page_num - 1) = c * page_num
              /\ <<i.phy_blk_addr, c>> \in Whole(f)
              /\ \A d \in Copies : <<i.phy_blk_addr, d>> \in Whole(f) => d <= c
              /\ BlankFrom(f, i.phy_blk_addr, c * page_num + page_num)
<1> DEFINE b == i.phy_blk_addr
           L == LastPage(f, i)
<1>1. Readable(f, b) = {p \in Pages : f[b][p].kind = "part"} /\ b \in Blocks /\ Named(f, b)
  BY ReadableParts
<1>2. 0 \in Readable(f, b)
  BY <1>1, FirstPages DEF Named
<1>3. L \in Nat /\ L \in Readable(f, b) /\ \A p \in Readable(f, b) : p <= L
  BY <1>2, LastPageIsPage
<1>4. (L + 1) % page_num = 0 /\ \A p \in Reached(f, b) : f[b][p].kind # "torn"
  BY <1>3, Parameters DEF Abnormal
<1> HIDE DEF L, b
<1>5. L \in Pages /\ f[b][L].kind = "part"
  BY <1>1, <1>3
<1>6. PICK c \in Copies, k \in 0..(page_num - 1) : L = Page(c, k)
  BY <1>5, PageOfCopy
<1>7. /\ page_num \in Nat \ {0} /\ c \in Nat /\ k \in Nat /\ k < page_num
      /\ L = c * page_num + k /\ c * page_num \in Nat
  BY <1>6, Parameters, PageInBlock
<1>8. k = page_num - 1
  <2>1. PICK m \in Nat : L - (page_num - 1) = m * page_num
    BY <1>3, <1>4, WholeCopies
  <2>2. L = Page(m, page_num - 1) /\ page_num - 1 \in 0..(page_num - 1)
    BY <1>3, <1>7, <2>1, Times DEF Page
  <2>3. Page(c, k) = Page(m, page_num - 1)
    BY <1>6, <2>2
  <2> QED
    BY <1>7, <2>2, <2>3, SamePage
<1>9. <<b, c>> \in Whole(f) /\ HasCopy(f, b)
  <2>1. <<b, c>> \in Whole(f)
    BY <1>1, <1>5, <1>6, <1>8, WholeIff
  <2>2. HasCopy(f, <<b, c>>[1])
    BY <2>1, WholeCopy
  <2> QED
    BY <2>1, <2>2
<1>10. ASSUME NEW d \in Copies, <<b, d>> \in Whole(f) PROVE d <= c
  <2>1. f[b][Page(d, page_num - 1)].kind = "part" /\ Page(d, page_num - 1) \in Pages
        /\ d \in Nat /\ Page(d, page_num - 1) = d * page_num + (page_num - 1)
    BY <1>1, <1>10, WholeIff, LastPart
  <2>2. Page(d, page_num - 1) <= L
    BY <1>1, <1>3, <2>1
  <2>3. d * page_num <= c * page_num
    BY <1>7, <1>8, <2>1, <2>2, Times
  <2> SUFFICES ASSUME c + 1 <= d PROVE FALSE
    BY <1>7, <2>1
  <2>4. (c + 1) * page_num <= d * page_num /\ (c + 1) * page_num = c * page_num + page_num
        /\ d * page_num \in Nat
    BY <1>7, <2>1, Times
  <2> QED
    BY <1>7, <2>3, <2>4
<1>11. BlankFrom(f, b, c * page_num + page_num)
  <2> SUFFICES ASSUME NEW p \in Pages, p >= c * page_num + page_num PROVE f[b][p].kind = "blank"
    BY DEF BlankFrom
  <2>1. p \in Nat /\ p > L
    BY <1>7, <1>8, Parameters DEF Pages
  <2>2. f[b][p].kind # "part"
    BY <1>1, <1>3, <2>1
  <2>3. f[b][p].kind # "torn"
    <3> SUFFICES ASSUME f[b][p].kind = "torn" PROVE FALSE
      OBVIOUS
    <3>1. f[b] # Filled(Torn)
      BY <1>1, FirstPages DEF Named, Filled, Torn
    <3>2. \A q \in 0..(p - 1) : f[b][q].kind = "part"
      BY <1>1, <3>1 DEF FlashOK, Orderly
    <3>3. \A q \in 0..p : f[b][q].kind # "blank"
      <4> TAKE q \in 0..p
      <4>1. q = p \/ q \in 0..(p - 1)
        BY <2>1
      <4> QED
        BY <3>2, <4>1
    <3>4. p \in Reached(f, b)
      BY <3>3 DEF Reached
    <3> QED
      BY <1>4, <3>4
  <2> QED
    BY <1>1, <2>2, <2>3, PageKinds
<1>12. L = Page(c, page_num - 1) /\ L - (page_num - 1) = c * page_num
  <2>1. L = Page(c, page_num - 1)
    BY <1>6, <1>8
  <2>2. L = c * page_num + (page_num - 1)
    BY <1>7, <1>8
  <2> QED
    BY <1>7, <2>1, <2>2
<1>13. \A d \in Copies : <<b, d>> \in Whole(f) => d <= c
  BY <1>10
<1> QED
  BY <1>9, <1>11, <1>12, <1>13 DEF b, L

LEMMA SecondStageFinds ==
  ASSUME NEW f, FlashType(f), FlashOK(f), NEW i \in InfoType, i.valid, ~i.status,
         i.phy_blk_addr \in Blocks, Named(f, i.phy_blk_addr),
         NEW good, good \subseteq 0..(page_num - 2)
  PROVE  LET r == SecondStage(f, i, good) IN
         /\ r.ret # "retry" => AtLastCopy(f, r.info)
         /\ r.ret = "retry" =>
              /\ ~HasCopy(f, i.phy_blk_addr)
              /\ good \cup Readable(f, i.phy_blk_addr) \subseteq 0..(page_num - 2)
<1> DEFINE b == i.phy_blk_addr
           L == LastPage(f, i)
           complete == Complete(good \cup Readable(f, b))
           found(page) == [i EXCEPT !.phy_page_addr = page, !.status = @ \/ Abnormal(f, i)]
           r == SecondStage(f, i, good)
<1>1. L \in Nat
  BY LastPageIsPage
<1>2. ASSUME NEW page \in Nat
      PROVE  /\ found(page).phy_page_addr = page /\ found(page).phy_blk_addr = b
             /\ found(page).status <=> Abnormal(f, i)
  BY DEF InfoType
<1>3. ASSUME NEW c \in Copies, NEW j, j.phy_page_addr = c * page_num, j.phy_blk_addr = b,
             <<b, c>> \in Whole(f), \A d \in Copies : <<b, d>> \in Whole(f) => d <= c,
             j.status <=> Abnormal(f, i)
      PROVE  AtLastCopy(f, j)
  <2>1. ASSUME ~Abnormal(f, i) PROVE BlankFrom(f, b, c * page_num + page_num)
    <3>1. PICK e \in Copies : /\ <<b, e>> \in Whole(f)
                              /\ \A d \in Copies : <<b, d>> \in Whole(f) => d <= e
                              /\ BlankFrom(f, b, e * page_num + page_num)
      BY <2>1, EndsWell
    <3>2. e = c
      <4>1. e <= c /\ c <= e /\ e \in Nat /\ c \in Nat
        BY <1>3, <3>1, LastPart
      <4> QED
        BY <4>1
    <3> QED
      BY <3>1, <3>2
  <2> HIDE DEF b
  <2> QED
    BY <1>3, <2>1 DEF AtLastCopy
<1> HIDE DEF L, complete, found
<1>4. CASE ~Abnormal(f, i) /\ good = {}
  <2>1. r = [info |-> found(L - (page_num - 1)), ret |-> "ok"]
    BY <1>4 DEF SecondStage, found, L
  <2>2. PICK c \in Copies : /\ L - (page_num - 1) = c * page_num /\ <<b, c>> \in Whole(f)
                            /\ \A d \in Copies : <<b, d>> \in Whole(f) => d <= c
    BY <1>4, EndsWell DEF L
  <2>3. c * page_num \in Nat
    BY LastPart, Parameters
  <2>4. AtLastCopy(f, found(c * page_num))
    BY <1>2, <1>3, <2>2, <2>3
  <2> HIDE DEF r
  <2> QED
    BY <2>1, <2>2, <2>4 DEF r
<1>5. CASE ~(~Abnormal(f, i) /\ good = {}) /\ page_num = 1
  <2>1. r = [info |-> found(L), ret |-> "bad"]
    BY <1>5 DEF SecondStage, found, L
  <2>2. Readable(f, b) = {p \in Pages : f[b][p].kind = "part"} /\ 0 \in Readable(f, b)
    BY FirstPages, ReadableParts DEF Named
  <2>3. L \in Readable(f, b) /\ \A p \in Readable(f, b) : p <= L
    BY <2>2, LastPageIsPage DEF L
  <2>4. \A c \in Nat : Page(c, page_num - 1) = c /\ c * page_num = c
    BY <1>5 DEF Page
  <2>5. L \in Copies
    <3>1. L \in Pages
      BY <2>2, <2>3
    <3>2. pages_per_blk \div page_num = pages_per_blk
      BY <1>5, Parameters
    <3> QED
      BY <3>1, <3>2 DEF Copies, Pages
  <2>6. <<b, L>> \in Whole(f)
    BY <1>1, <2>2, <2>3, <2>4, <2>5, WholeIff
  <2>7. ASSUME NEW d \in Copies, <<b, d>> \in Whole(f) PROVE d <= L
    <3>1. d \in Nat /\ Page(d, page_num - 1) \in Pages
      BY LastPart
    <3>2. f[b][Page(d, page_num - 1)].kind = "part"
      BY <2>7, WholeIff
    <3> QED
      BY <2>2, <2>3, <2>4, <3>1, <3>2
  <2>8. found(L).phy_page_addr = L * page_num
    BY <1>1, <1>2, <2>4
  <2>9. AtLastCopy(f, found(L))
    BY <1>1, <1>2, <1>3, <2>5, <2>6, <2>7, <2>8
  <2> HIDE DEF r
  <2> QED
    BY <2>1, <2>9 DEF r
<1>6. CASE ~(~Abnormal(f, i) /\ good = {}) /\ page_num # 1 /\ complete = {}
  <2>1. r = [info |-> i, ret |-> "retry"]
    BY <1>6 DEF SecondStage, complete
  <2>2. ~HasCopy(f, b)
    BY <1>6, FirstCopy, FirstPages, CompleteWhole DEF complete
  <2>3. good \cup Readable(f, b) \subseteq 0..(page_num - 2)
    BY <2>2, CompleteWhole
  <2> HIDE DEF r
  <2> QED
    BY <2>1, <2>2, <2>3 DEF r
<1>7. CASE ~(~Abnormal(f, i) /\ good = {}) /\ page_num # 1 /\ complete # {}
  <2> DEFINE c == Max(complete)
  <2>1. r = [info |-> found(c * page_num), ret |-> "ok"]
    BY <1>7 DEF SecondStage, found, complete
  <2>2. c \in complete /\ c \in Copies /\ \A d \in complete : d <= c
    BY <1>7, CompleteCopies DEF complete
  <2> HIDE DEF c
  <2>3. HasCopy(f, b)
    BY <1>7, CompleteWhole DEF complete
  <2>4. \A d \in Copies : d \in complete <=> <<b, d>> \in Whole(f)
    BY <2>3, CompleteWhole DEF complete
  <2>5. c * page_num \in Nat
    BY <2>2, LastPart, Parameters
  <2>6. AtLastCopy(f, found(c * page_num))
    BY <1>2, <1>3, <2>2, <2>4, <2>5
  <2> HIDE DEF r
  <2> QED
    BY <2>1, <2>6 DEF r
<1> QED
  BY <1>4, <1>5, <1>6, <1>7
-----------------------------------------------------------------------------
(***************************************************************************)
(* The list of free blocks                                                 *)
(***************************************************************************)
LEMMA AppendBlock ==
  ASSUME NEW s \in Seq(Blocks), NEW b \in Blocks
  PROVE  /\ Append(s, b) \in Seq(Blocks) /\ Len(Append(s, b)) = Len(s) + 1
         /\ Append(s, b) # <<>>
         /\ Range(Append(s, b)) = Range(s) \cup {b}
         /\ IsInjective(s) /\ b \notin Range(s) => IsInjective(Append(s, b))
<1> DEFINE t == Append(s, b)
<1>1. t \in Seq(Blocks) /\ Len(t) = Len(s) + 1 /\ t # <<>> /\ Len(s) \in Nat
      /\ DOMAIN t = 1..(Len(s) + 1) /\ DOMAIN s = 1..Len(s)
  OBVIOUS
<1>2. t[Len(s) + 1] = b /\ \A k \in 1..Len(s) : t[k] = s[k]
  OBVIOUS
<1> HIDE DEF t
<1>3. Range(t) = Range(s) \cup {b}
  <2>1. ASSUME NEW x \in Range(t) PROVE x \in Range(s) \cup {b}
    <3>1. PICK k \in 1..(Len(s) + 1) : x = t[k]
      BY <1>1 DEF Range
    <3>2. k = Len(s) + 1 \/ k \in 1..Len(s)
      BY <1>1
    <3> QED
      BY <1>1, <1>2, <3>1, <3>2 DEF Range
  <2>2. ASSUME NEW x \in Range(s) \cup {b} PROVE x \in Range(t)
    <3>1. CASE x = b
      BY <1>1, <1>2, <3>1 DEF Range
    <3>2. CASE x \in Range(s)
      <4>1. PICK k \in 1..Len(s) : x = s[k]
        BY <1>1, <3>2 DEF Range
      <4>2. k \in 1..(Len(s) + 1) /\ x = t[k]
        BY <1>1, <1>2, <4>1
      <4> QED
        BY <1>1, <4>2 DEF Range
    <3> QED
      BY <3>1, <3>2
  <2> QED
    BY <2>1, <2>2
<1>4. ASSUME IsInjective(s), b \notin Range(s) PROVE IsInjective(t)
  <2> SUFFICES ASSUME NEW j \in 1..(Len(s) + 1), NEW k \in 1..(Len(s) + 1), t[j] = t[k]
               PROVE  j = k
    BY <1>1 DEF IsInjective
  <2>1. \A m \in 1..Len(s) : s[m] # b
    BY <1>1, <1>4 DEF Range
  <2>2. (j = Len(s) + 1 \/ j \in 1..Len(s)) /\ (k = Len(s) + 1 \/ k \in 1..Len(s))
    BY <1>1
  <2>3. CASE j \in 1..Len(s) /\ k \in 1..Len(s)
    BY <1>1, <1>2, <1>4, <2>3 DEF IsInjective
  <2> QED
    BY <1>2, <2>1, <2>2, <2>3
<1> QED
  BY <1>1, <1>3, <1>4 DEF t

LEMMA FirstOfList ==
  ASSUME NEW s \in Seq(Blocks), s # <<>>
  PROVE  /\ Head(s) = s[1] /\ Head(s) \in Blocks /\ Tail(s) \in Seq(Blocks)
         /\ Len(Tail(s)) = Len(s) - 1 /\ Len(s) \in Nat \ {0}
         /\ \A k \in 1..(Len(s) - 1) : Tail(s)[k] = s[k + 1]
         /\ Range(s) = Range(Tail(s)) \cup {Head(s)}
         /\ IsInjective(s) => IsInjective(Tail(s)) /\ Head(s) \notin Range(Tail(s))
<1> DEFINE t == Tail(s)
           n == Len(s)
<1>1. Head(s) = s[1] /\ Head(s) \in Blocks /\ t \in Seq(Blocks) /\ Len(t) = n - 1 /\ n \in Nat \ {0}
      /\ DOMAIN s = 1..n /\ DOMAIN t = 1..(n - 1)
  OBVIOUS
<1>2. \A k \in 1..(n - 1) : t[k] = s[k + 1]
  OBVIOUS
<1> HIDE DEF t, n
<1>3. Range(s) = Range(t) \cup {s[1]}
  <2>1. ASSUME NEW x \in Range(s) PROVE x \in Range(t) \cup {s[1]}
    <3>1. PICK k \in 1..n : x = s[k]
      BY <1>1 DEF Range
    <3>2. CASE k = 1
      BY <3>1, <3>2
    <3>3. CASE k # 1
      <4>1. k - 1 \in 1..(n - 1) /\ x = t[k - 1]
        BY <1>1, <1>2, <3>1, <3>3
      <4> QED
        BY <1>1, <4>1 DEF Range
    <3> QED
      BY <3>2, <3>3
  <2>2. ASSUME NEW x \in Range(t) PROVE x \in Range(s)
    <3>1. PICK k \in 1..(n - 1) : x = t[k]
      BY <1>1, <2>2 DEF Range
    <3>2. k + 1 \in 1..n /\ x = s[k + 1]
      BY <1>1, <1>2, <3>1
    <3> QED
      BY <1>1, <3>2 DEF Range
  <2>3. s[1] \in Range(s)
    BY <1>1 DEF Range
  <2> QED
    BY <2>1, <2>2, <2>3
<1>4. ASSUME IsInjective(s) PROVE IsInjective(t) /\ s[1] \notin Range(t)
  <2>1. ASSUME NEW j \in 1..(n - 1), NEW k \in 1..(n - 1), t[j] = t[k] PROVE j = k
    <3>1. j + 1 \in 1..n /\ k + 1 \in 1..n /\ s[j + 1] = s[k + 1]
      BY <1>1, <1>2, <2>1
    <3>2. j + 1 = k + 1
      BY <1>1, <1>4, <3>1 DEF IsInjective
    <3> QED
      BY <3>2
  <2>2. ASSUME NEW k \in 1..(n - 1) PROVE t[k] # s[1]
    <3>1. k + 1 \in 1..n /\ 1 \in 1..n /\ k + 1 # 1 /\ t[k] = s[k + 1]
      BY <1>1, <1>2
    <3> QED
      BY <1>1, <1>4, <3>1 DEF IsInjective
  <2> QED
    BY <1>1, <2>1, <2>2 DEF IsInjective, Range
<1> QED
  BY <1>1, <1>2, <1>3, <1>4 DEF t, n
-----------------------------------------------------------------------------
(***************************************************************************)
(* The steps, until the flash fails                                        *)
(***************************************************************************)
LEMMA Types ==
  ASSUME TInv
  PROVE  /\ FlashType(flash) /\ info \in InfoType /\ Len(list) \in Nat /\ Len(list) <= Nodes
         /\ list \in Seq(Blocks) /\ blk \in Blocks \cup {-1} /\ info.timestamp \in Nat
         /\ info.phy_page_addr \in Nat
         /\ info.valid => blk \in Blocks
         /\ start \in 0..end_block /\ part \in 0..page_num
         /\ got \in Seq(Values \cup {None}) /\ Len(got) <= page_num
         /\ caller \in {"boot", "read"}
         /\ pc \in {"search", "erase", "write"} => saving \in Values
         /\ pc \in {"erase", "write"} => blk \in Blocks
         /\ pc \in {"write", "read"} => part \in 0..(page_num - 1)
<1>1. /\ FlashType(flash) /\ info \in InfoType
      /\ Len(list) <= Nodes
      /\ info.valid => blk \in Blocks
      /\ start \in 0..end_block /\ part \in 0..page_num
      /\ got \in Seq(Values \cup {None}) /\ Len(got) <= page_num
      /\ caller \in {"boot", "read"}
      /\ pc \in {"search", "erase", "write"} => saving \in Values
      /\ pc \in {"erase", "write"} => blk \in Blocks
      /\ pc \in {"write", "read"} => part < page_num
  BY DEF TInv, TypeOK, InHand, list, FlashType, InfoType
<1>2. /\ Len(list) \in Nat
      /\ list \in Seq(Blocks) /\ blk \in Blocks \cup {-1} /\ info.timestamp \in Nat
      /\ info.phy_page_addr \in Nat
  BY <1>1 DEF list, blk, InfoType
<1>3. pc \in {"write", "read"} => part \in 0..(page_num - 1)
  BY <1>1, Parameters
<1> QED
  BY <1>1, <1>2, <1>3

LEMMA ScanBlockStep ==
  ASSUME TInv, Sound, ScanBlock
  PROVE  Sound'
<1>1. /\ pc = "scan" /\ FlashOK(flash) /\ Scanned(start)
      /\ flash' = flash /\ UNCHANGED <<caller, saving, exposed>>
  BY DEF ScanBlock, Sound, ScanInv, historyVars
<1>2. /\ start \in Blocks /\ start \in Nat /\ start < end_block
      /\ \A o : o \in 0..start <=> o = start \/ o \in 0..(start - 1)
      /\ 0..((start + 1) - 1) = 0..start
      /\ 0..(start - 1) \subseteq Blocks
  BY Types, Parameters DEF ScanBlock, Blocks
<1>3. /\ FlashType(flash) /\ info \in InfoType /\ list \in Seq(Blocks) /\ Len(list) \in Nat
      /\ blk \in Blocks \cup {-1} /\ info.timestamp \in Nat
  BY Types
<1>4. /\ ~info.status /\ info.phy_page_addr = 0 /\ caller = "boot"
      /\ saving = None /\ exposed = FALSE /\ good_addr \subseteq 0..(page_num - 2)
      /\ IsInjective(list) /\ blk \notin Range(list)
      /\ \A b \in 0..(start - 1) : Probed(flash, b) # {} => b \in Range(list) \cup {blk}
      /\ Range(list) \subseteq 0..(start - 1)
  BY <1>1 DEF Scanned, Collected
<1>5. ASSUME info.valid
      PROVE  /\ blk \in 0..(start - 1) /\ Named(flash, blk) /\ info.timestamp = Stamp(flash, blk)
             /\ \A o \in 0..(start - 1) :
                  Named(flash, o) /\ o # blk => Stamp(flash, o) < info.timestamp
             /\ Len(list) + 1 <= start
  BY <1>1, <1>5 DEF Scanned, Best
<1>6. ASSUME ~info.valid
      PROVE  /\ blk = -1 /\ \A o \in 0..(start - 1) : ~Named(flash, o)
             /\ Len(list) <= start
  BY <1>1, <1>3, <1>6 DEF Scanned
<1>7. ASSUME pc' = "scan", Scanned(start)' PROVE Sound'
  BY <1>1, <1>7
  DEF Sound, OffInv, ScanInv, ClearInv, IdleInv, ReadInv, SearchInv, EraseInv, WriteInv
<1>8. CASE Probed(flash, start) = {}
  <2>1. info' = info /\ start' = start + 1 /\ pc' = "scan" /\ good_addr' = good_addr
    BY <1>1, <1>8 DEF ScanBlock
  <2>2. ~Named(flash, start)
    BY <1>1, <1>2, <1>3, <1>8, Probing
  <2>3. Scanned(start + 1)
    <3>1. Collected(flash, start + 1, blk, list)
      BY <1>2, <1>4, <1>8 DEF Collected
    <3>2. CASE info.valid
      <4>1. Best(flash, start + 1, blk, info.timestamp)
        BY <1>2, <1>5, <2>2, <3>2 DEF Best
      <4> QED
        BY <1>2, <1>3, <1>4, <1>5, <3>1, <3>2, <4>1 DEF Scanned
    <3>3. CASE ~info.valid
      BY <1>2, <1>3, <1>4, <1>6, <2>2, <3>1, <3>3 DEF Scanned
    <3> QED
      BY <3>2, <3>3
  <2>4. Scanned(start)'
    BY <1>1, <2>1, <2>3 DEF Scanned, list, blk
  <2> QED
    BY <1>7, <2>1, <2>4
<1>9. CASE Probed(flash, start) # {}
  <2> DEFINE page == Probe(flash, start)
             named == page.kind = "part"
             r == FirstStage(info, start, page)
             t == page.timestamp
  <2>1. ~NoFreeNode(info)
    BY <1>2, <1>3, <1>5, <1>6, FlashAssumption DEF NoFreeNode, list
  <2>2. named <=> Named(flash, start)
    BY <1>1, <1>2, <1>3, <1>9, Probing DEF Named
  <2>3. named => t = Stamp(flash, start) /\ t \in Nat
    BY <1>1, <1>2, <1>3, <2>2, Probing, FirstPages, PageKinds DEF Named, Stamp
  <2>4. info' = r.info
    BY <1>9 DEF ScanBlock
  <2>5. r.ret # "nomem" => start' = start + 1 /\ pc' = "scan" /\ good_addr' = good_addr
    BY <1>1, <1>9 DEF ScanBlock
  <2> HIDE DEF r, named, t
  <2>6. CASE named /\ blk < 0
    <3> DEFINE j == Chosen(info, start, t)
    <3>1. r = [info |-> j, ret |-> "ok"]
      BY <1>3, <2>6, FirstStageIs DEF named, t, r, blk
    <3>2. /\ ~j.status /\ j.valid /\ j.phy_blk_addr = start /\ j.phy_page_addr = 0
          /\ j.timestamp = t /\ j.free_node = list
      <4>1. start \in Blocks /\ info \in InfoType /\ t \in Nat
        BY <1>2, <1>3, <2>3, <2>6
      <4> QED
        BY <4>1, ChosenIs DEF list
    <3> HIDE DEF j
    <3>3. info' = j /\ start' = start + 1 /\ pc' = "scan" /\ good_addr' = good_addr
      BY <2>4, <2>5, <3>1
    <3>4. ~info.valid
      BY <1>2, <1>5, <2>6
    <3>5. start \notin Range(list)
      BY <1>2, <1>4
    <3>6. Collected(flash, start + 1, start, list)
      BY <1>2, <1>4, <1>6, <3>4, <3>5 DEF Collected
    <3>7. Best(flash, start + 1, start, t)
      BY <1>2, <1>6, <2>2, <2>3, <2>6, <3>4 DEF Best
    <3>8. list' = list /\ blk' = start /\ Len(list) <= start
      BY <1>6, <3>2, <3>3, <3>4 DEF list, blk
    <3>9. Scanned(start)'
      BY <1>1, <1>2, <1>3, <1>4, <3>2, <3>3, <3>6, <3>7, <3>8 DEF Scanned
    <3> QED
      BY <1>7, <3>3, <3>9
  <2>7. CASE ~(named /\ blk < 0) /\ named /\ Newer(info, page)
    <3> DEFINE chosen == Chosen(info, start, t)
               j == Listed(chosen, blk)
    <3>1. r = [info |-> j, ret |-> "ok"]
      BY <1>3, <2>1, <2>7, FirstStageIs DEF named, t, r, blk
    <3>2. /\ chosen \in InfoType /\ ~chosen.status /\ chosen.valid
          /\ chosen.phy_blk_addr = start /\ chosen.phy_page_addr = 0
          /\ chosen.timestamp = t /\ chosen.free_node = list
      <4>1. start \in Blocks /\ info \in InfoType /\ t \in Nat
        BY <1>2, <1>3, <2>3, <2>7
      <4> QED
        BY <4>1, ChosenIs DEF list
    <3>3. blk \in Blocks /\ info.valid /\ t > info.timestamp
      BY <1>3, <1>6, <2>7 DEF Newer, t
    <3> HIDE DEF chosen
    <3>4. /\ ~j.status /\ j.valid /\ j.phy_blk_addr = start /\ j.phy_page_addr = 0
          /\ j.timestamp = t /\ j.free_node = Append(list, blk)
      BY <3>2, <3>3, ListedIs
    <3> HIDE DEF j
    <3>5. info' = j /\ start' = start + 1 /\ pc' = "scan" /\ good_addr' = good_addr
      BY <2>4, <2>5, <3>1
    <3> DEFINE l == Append(list, blk)
    <3>6. IsInjective(l) /\ Range(l) = Range(list) \cup {blk} /\ Len(l) = Len(list) + 1
      BY <1>3, <1>4, <3>3, AppendBlock
    <3>7. list' = l /\ blk' = start
      BY <3>4, <3>5 DEF list, blk
    <3> HIDE DEF l
    <3>8. Collected(flash, start + 1, start, l)
      <4>1. start \notin Range(l) /\ Range(l) \subseteq 0..start
        BY <1>2, <1>4, <1>5, <3>3, <3>6
      <4> QED
        BY <1>2, <1>4, <3>6, <4>1 DEF Collected
    <3>9. \A o \in 0..start : Named(flash, o) /\ o # start => Stamp(flash, o) < t
      <4> SUFFICES ASSUME NEW o \in 0..(start - 1), Named(flash, o) PROVE Stamp(flash, o) < t
        BY <1>2
      <4>1. Stamp(flash, o) \in Nat
        BY <1>2, <1>3, FirstPages, PageKinds DEF Named, Stamp
      <4>2. CASE o = blk
        BY <1>5, <3>3, <4>2
      <4>3. CASE o # blk
        <5>1. Stamp(flash, o) < info.timestamp
          BY <1>5, <3>3, <4>3
        <5> QED
          BY <1>3, <2>3, <2>7, <3>3, <4>1, <5>1
      <4> QED
        BY <4>2, <4>3
    <3>10. Best(flash, start + 1, start, t)
      BY <1>2, <2>2, <2>3, <2>7, <3>9 DEF Best
    <3>11. Len(list) + 1 + 1 <= start + 1
      BY <1>2, <1>3, <1>5, <3>3
    <3>12. Scanned(start)'
      BY <1>1, <1>4, <3>4, <3>5, <3>6, <3>7, <3>8, <3>10, <3>11 DEF Scanned
    <3> QED
      BY <1>7, <3>5, <3>12
  <2>8. CASE ~(named /\ blk < 0) /\ ~(named /\ Newer(info, page))
    <3> DEFINE seen == Seen(info, named)
               j == Listed(seen, start)
    <3>1. r = [info |-> j, ret |-> "ok"]
      BY <1>3, <2>1, <2>8, FirstStageIs DEF named, t, r, blk
    <3>2. named => info.valid
      BY <1>6, <2>8
    <3>3. /\ seen \in InfoType /\ ~seen.status /\ (seen.valid <=> info.valid)
          /\ seen.phy_blk_addr = blk /\ seen.phy_page_addr = 0
          /\ seen.timestamp = info.timestamp /\ seen.free_node = list
      BY <1>3, <1>4, <3>2, SeenIs DEF list, blk, named
    <3> HIDE DEF seen
    <3>4. /\ ~j.status /\ j.valid = seen.valid /\ j.phy_blk_addr = blk /\ j.phy_page_addr = 0
          /\ j.timestamp = info.timestamp /\ j.free_node = Append(list, start)
      BY <1>2, <3>3, ListedIs
    <3> HIDE DEF j
    <3>5. info' = j /\ start' = start + 1 /\ pc' = "scan" /\ good_addr' = good_addr
      BY <2>4, <2>5, <3>1
    <3> DEFINE l == Append(list, start)
    <3>6. IsInjective(l) /\ Range(l) = Range(list) \cup {start} /\ Len(l) = Len(list) + 1
      BY <1>2, <1>3, <1>4, AppendBlock
    <3>7. list' = l /\ blk' = blk
      BY <3>4, <3>5 DEF list, blk
    <3> HIDE DEF l
    <3>8. Collected(flash, start + 1, blk, l)
      <4>1. blk \notin Range(l) /\ Range(l) \subseteq 0..start
        BY <1>2, <1>4, <1>5, <1>6, <3>6
      <4> QED
        BY <1>2, <1>4, <3>6, <4>1 DEF Collected
    <3>9. ASSUME info.valid
          PROVE  \A o \in 0..start : Named(flash, o) /\ o # blk => Stamp(flash, o) < info.timestamp
      <4>1. blk \in Blocks /\ blk # start
        BY <1>2, <1>5, <3>9
      <4>2. Named(flash, start) => Stamp(flash, start) < info.timestamp
        <5> SUFFICES ASSUME Named(flash, start) PROVE Stamp(flash, start) < info.timestamp
          OBVIOUS
        <5>1. Stamp(flash, start) # Stamp(flash, blk)
          BY <1>1, <1>2, <1>5, <3>9, <4>1 DEF FlashOK, DistinctStamps
        <5>2. t = Stamp(flash, start) /\ t \in Nat /\ ~(t > info.timestamp)
          BY <2>2, <2>3, <2>8 DEF Newer, t
        <5> QED
          BY <1>3, <1>5, <3>9, <5>1, <5>2
      <4> QED
        BY <1>2, <1>5, <3>9, <4>2
    <3>10. CASE info.valid
      <4>1. Best(flash, start + 1, blk, info.timestamp)
        BY <1>2, <1>5, <3>9, <3>10 DEF Best
      <4>2. Len(list) + 1 + 1 <= start + 1
        BY <1>2, <1>3, <1>5, <3>10
      <4>3. Scanned(start)'
        BY <1>1, <1>4, <3>3, <3>4, <3>5, <3>6, <3>7, <3>8, <3>10, <4>1, <4>2 DEF Scanned
      <4> QED
        BY <1>7, <3>5, <4>3
    <3>11. CASE ~info.valid
      <4>1. \A o \in 0..start : ~Named(flash, o)
        BY <1>2, <1>6, <2>2, <3>2, <3>11
      <4>2. Len(list) + 1 <= start + 1 /\ blk = -1
        BY <1>2, <1>3, <1>6, <3>11
      <4>3. Scanned(start)'
        BY <1>1, <1>2, <1>4, <3>3, <3>4, <3>5, <3>6, <3>7, <3>8, <3>11, <4>1, <4>2 DEF Scanned
      <4> QED
        BY <1>7, <3>5, <4>3
    <3> QED
      BY <3>10, <3>11
  <2> QED
    BY <2>6, <2>7, <2>8
<1> QED
  BY <1>8, <1>9

LEMMA ScanValidBlockStep ==
  ASSUME TInv, Sound, ScanValidBlock
  PROVE  Sound'
<1>1. /\ pc = "scan" /\ start = end_block /\ FlashOK(flash) /\ Scanned(end_block)
      /\ flash' = flash /\ UNCHANGED <<caller, saving, exposed>>
  BY DEF ScanValidBlock, Sound, ScanInv, historyVars
<1>2. /\ FlashType(flash) /\ info \in InfoType /\ Len(list) \in Nat
      /\ info.valid => blk \in Blocks
  BY Types
<1>3. /\ ~info.status /\ caller = "boot" /\ saving = None /\ exposed = FALSE
      /\ good_addr \subseteq 0..(page_num - 2)
      /\ info.valid => Best(flash, end_block, blk, info.timestamp) /\ Len(list) + 1 <= end_block
      /\ ~info.valid => /\ blk = -1 /\ Len(list) <= end_block
                        /\ \A o \in 0..(end_block - 1) : ~Named(flash, o)
      /\ Collected(flash, end_block, blk, list)
  BY <1>1 DEF Scanned
<1>4. Blocks = 0..(end_block - 1) /\ end_block \in Nat
  BY Parameters DEF Blocks
<1> DEFINE r == SecondStage(flash, info, good_addr)
<1>5. /\ r.ret \in {"ok", "bad", "retry"} /\ SameBlock(info, r.info)
      /\ r.ret = "retry" => info.valid /\ r.info = info
      /\ ~info.valid => r.info = info /\ r.ret = "bad"
  BY <1>2, SecondStageTypes DEF blk
<1>6. info.valid =>
        /\ Named(flash, blk) /\ info.timestamp = Stamp(flash, blk)
        /\ OthersOlder(flash, blk, info.timestamp)
  BY <1>3, <1>4 DEF Best, OthersOlder
<1>7. info.valid =>
        /\ r.ret # "retry" => AtLastCopy(flash, r.info)
        /\ r.ret = "retry" => /\ ~HasCopy(flash, blk)
                              /\ good_addr \cup Readable(flash, blk) \subseteq 0..(page_num - 2)
  BY <1>1, <1>2, <1>3, <1>6, SecondStageFinds DEF blk
<1>8. info' = r.info
  BY DEF ScanValidBlock
<1>9. r.ret # "retry" => pc' = "idle" /\ start' = 0 /\ good_addr' = {}
  BY <1>3 DEF ScanValidBlock, ScanReturns
<1>10. r.ret = "retry" => pc' = "clear" /\ start' = start
                          /\ good_addr' = good_addr \cup Readable(flash, blk)
  BY DEF ScanValidBlock, blk
<1> HIDE DEF r
<1>11. info'.valid = info.valid /\ blk' = blk /\ info'.timestamp = info.timestamp /\ list' = list
  BY <1>5, <1>8 DEF SameBlock, blk, list
<1>12. CASE r.ret = "retry"
  <2>1. info' = info /\ info.valid
    BY <1>5, <1>8, <1>12
  <2>2. Scanned(end_block)'
    BY <1>1, <1>3, <1>7, <1>10, <1>11, <1>12, <2>1, Parameters DEF Scanned
  <2>3. ~HasCopy(flash, blk)'
    BY <1>1, <1>7, <1>11, <1>12, <2>1
  <2> QED
    BY <1>1, <1>10, <1>12, <2>1, <2>2, <2>3
    DEF Sound, OffInv, ScanInv, ClearInv, IdleInv, ReadInv, SearchInv, EraseInv, WriteInv
<1>13. CASE r.ret # "retry"
  <2>1. Listing'
    <3>1. IsInjective(list) /\ blk \notin Range(list)
          /\ \A b \in Blocks \ Bad : Probed(flash, b) # {} => b \in Range(list) \cup {blk}
      BY <1>3, <1>4 DEF Collected
    <3> QED
      BY <1>1, <1>9, <1>11, <1>13, <3>1 DEF Listing
  <2>2. info'.valid => Settled'
    BY <1>1, <1>2, <1>6, <1>7, <1>8, <1>11, <1>13 DEF Settled
  <2>3. ~info'.valid => blk' = -1 /\ NothingSaved'
    BY <1>1, <1>3, <1>4, <1>11 DEF NothingSaved
  <2>4. Len(list') <= end_block /\ (info'.valid => Len(list') < end_block)
    BY <1>2, <1>3, <1>4, <1>11
  <2>5. IdleInv'
    BY <1>1, <1>3, <2>1, <2>2, <2>3, <2>4 DEF IdleInv
  <2> QED
    BY <1>1, <1>9, <1>13, <2>5
    DEF Sound, OffInv, ScanInv, ClearInv, ReadInv, SearchInv, EraseInv, WriteInv
<1> QED
  BY <1>12, <1>13

LEMMA EmptyList == IsInjective(<<>>) /\ Range(<<>>) = {}
BY DEF IsInjective, Range

\* Nothing is known at the beginning of a scan.
LEMMA ScanBegins ==
  ASSUME info = Unscanned, caller = "boot", saving = None, exposed = FALSE,
         good_addr \subseteq 0..(page_num - 2)
  PROVE  Scanned(0)
<1>1. ~info.valid /\ ~info.status /\ blk = -1 /\ info.phy_page_addr = 0 /\ list = <<>>
      /\ Len(list) = 0
  BY UnscannedIs DEF blk, list
<1>2. Collected(flash, 0, blk, list)
  BY <1>1, EmptyList DEF Collected
<1> QED
  BY <1>1, <1>2 DEF Scanned

LEMMA BootStep ==
  ASSUME TInv, Sound, Boot
  PROVE  Sound'
<1>1. /\ FlashOK(flash) /\ flash' = flash /\ pc' = "scan"
      /\ info = Unscanned /\ info' = info /\ start = 0 /\ start' = start
      /\ good_addr = {} /\ good_addr' = good_addr /\ caller' = "boot" /\ caller = "boot"
      /\ saving = None /\ saving' = saving /\ exposed = FALSE /\ exposed' = exposed
  BY DEF Boot, Sound, OffInv, historyVars
<1>2. Scanned(0)
  BY <1>1, ScanBegins
<1>3. Scanned(start)'
  BY <1>1, <1>2 DEF Scanned, list, blk
<1> QED
  BY <1>1, <1>3
  DEF Sound, OffInv, ScanInv, ClearInv, IdleInv, ReadInv, SearchInv, EraseInv, WriteInv

LEMMA Erasing ==
  ASSUME FlashType(flash), FlashOK(flash), NEW b \in Blocks, flash' = Erased(b)
  PROVE  /\ FlashType(flash') /\ FlashOK(flash')
         /\ \A o \in Blocks \ {b} : flash'[o] = flash[o]
         /\ flash'[b] = Filled(Blank)
         /\ ~Named(flash', b) /\ ~HasCopy(flash', b)
<1> DEFINE g == Spoil(flash, b, Blank)
<1>0. Blank \in {Blank, Torn}
  OBVIOUS
<1>1. FlashType(g) /\ FlashOK(g)
  BY <1>0, Spoiled
<1>2. \A o \in Blocks \ {b} : g[o] = flash[o]
  BY <1>0, Spoiled
<1>3. g[b] = Filled(Blank) /\ ~Named(g, b) /\ ~HasCopy(g, b)
  BY <1>0, Spoiled
<1>4. flash' = g
  BY DEF Erased, Spoil
<1> HIDE DEF g
<1> QED
  BY <1>1, <1>2, <1>3, <1>4

LEMMA ClearStep ==
  ASSUME TInv, Sound, Clear, failures' = 0
  PROVE  Sound' /\ Newest(flash)' = Newest(flash)
<1>1. /\ FlashOK(flash) /\ pc = "clear" /\ info.valid /\ Scanned(end_block) /\ ~HasCopy(flash, blk)
  BY DEF Clear, Sound, ClearInv
<1>2. FlashType(flash) /\ blk \in Blocks /\ failures \in Nat
  BY <1>1, Types, AreaAssumption DEF TInv, TypeOK
<1>3. flash' = Erased(blk)
  BY <1>2 DEF Clear, blk
<1>4. FlashOK(flash') /\ FlashType(flash') /\ ~HasCopy(flash', blk)
      /\ \A o \in Blocks \ {blk} : flash'[o] = flash[o]
  BY <1>1, <1>2, <1>3, Erasing
<1>5. /\ pc' = "scan" /\ info' = Unscanned /\ start' = 0 /\ good_addr' = good_addr
      /\ caller' = "boot" /\ saving' = None /\ exposed' = FALSE
      /\ good_addr \subseteq 0..(page_num - 2)
  BY <1>1 DEF Clear, Scanned
<1>6. Scanned(0)'
  <2>1. (info = Unscanned)' /\ (caller = "boot")' /\ (saving = None)' /\ (exposed = FALSE)'
        /\ (good_addr \subseteq 0..(page_num - 2))'
    BY <1>5
  <2>2. ~info'.valid /\ ~info'.status /\ blk' = -1 /\ info'.phy_page_addr = 0 /\ list' = <<>>
        /\ Len(list') = 0
    BY <1>5, UnscannedIs DEF blk, list
  <2>3. Collected(flash', 0, blk', list')
    BY <2>2, EmptyList DEF Collected
  <2> QED
    BY <2>1, <2>2, <2>3 DEF Scanned
<1>7. Scanned(start)'
  BY <1>5, <1>6 DEF Scanned
<1>8. Sound'
  BY <1>4, <1>5, <1>7
  DEF Sound, OffInv, ScanInv, ClearInv, IdleInv, ReadInv, SearchInv, EraseInv, WriteInv
<1>9. Newest(flash') = Newest(flash)
  BY <1>1, <1>2, <1>4, OldCopiesLost DEF Superseded
<1> QED
  BY <1>8, <1>9

\* A block that is older than the newest one, which holds a copy.
LEMMA OlderSuperseded ==
  ASSUME FlashType(flash), FlashOK(flash), NEW b \in Blocks, HasCopy(flash, b),
         OthersOlder(flash, b, Stamp(flash, b)), NEW o \in Blocks, o # b
  PROVE  Superseded(flash, o)
<1>1. HasCopy(flash, o) => Stamp(flash, o) < Stamp(flash, b)
  BY FirstCopy DEF OthersOlder
<1>2. HasCopy(flash, o) => Stamp(flash, o) \in Nat
  BY FirstCopy, FirstPages, PageKinds DEF Named, Stamp
<1>3. Stamp(flash, b) \in Nat
  BY FirstCopy, FirstPages, PageKinds DEF Named, Stamp
<1> QED
  BY <1>1, <1>2, <1>3 DEF Superseded

LEMMA SettledIs ==
  ASSUME FlashType(flash), FlashOK(flash), Settled
  PROVE  /\ blk \in Blocks \ Bad /\ HasCopy(flash, blk)
         /\ \E c \in Copies :
              /\ c \in Nat /\ info.phy_page_addr = c * page_num /\ <<blk, c>> \in Whole(flash)
              /\ info.phy_page_addr \in Nat
              /\ info.phy_page_addr + page_num <= pages_per_blk
              /\ \A d \in Copies : <<blk, d>> \in Whole(flash) => d <= c
              /\ Newest(flash) = First(flash, <<blk, c>>).value
<1>1. /\ blk \in Blocks /\ Named(flash, blk) /\ info.timestamp = Stamp(flash, blk)
      /\ OthersOlder(flash, blk, Stamp(flash, blk))
  BY DEF Settled
<1>2. PICK c \in Copies :
        /\ info.phy_page_addr = c * page_num /\ <<blk, c>> \in Whole(flash)
        /\ \A d \in Copies : <<blk, d>> \in Whole(flash) => d <= c
  BY DEF Settled, AtLastCopy, blk
<1>3. c \in Nat /\ c * page_num \in Nat /\ c * page_num + page_num <= pages_per_blk
  BY FirstPages, PageInBlock
<1>4. Newest(flash) = First(flash, <<blk, c>>).value
  BY <1>1, <1>2, LastCopyNewest
<1>5. HasCopy(flash, blk)
  <2>1. HasCopy(flash, <<blk, c>>[1])
    BY <1>2, WholeCopy
  <2> QED
    BY <2>1
<1>6. blk \notin Bad
  <2> SUFFICES ASSUME blk \in Bad PROVE FALSE
    OBVIOUS
  <2>1. flash[blk] \in {Filled(Blank), Filled(Torn)}
    BY DEF FlashOK, BadUntouched
  <2>2. flash[blk][0].kind # "part"
    BY <2>1, FirstPages DEF Filled, Blank, Torn
  <2> QED
    BY <1>1, <2>2 DEF Named
<1> QED
  BY <1>1, <1>2, <1>3, <1>4, <1>5, <1>6

LEMMA SaveStep ==
  ASSUME TInv, Sound, NEW v \in Values, Save(v)
  PROVE  Sound'
<1>1. /\ FlashOK(flash) /\ flash' = flash /\ pc' = "search" /\ saving' = v
      /\ Listing /\ exposed = FALSE /\ exposed' = AtRisk
      /\ Len(list) <= end_block /\ (info.valid => Len(list) < end_block)
      /\ info.valid => Settled
      /\ ~info.valid => blk = -1 /\ NothingSaved
      /\ info' = [info EXCEPT !.phy_page_addr = StartPage]
      /\ start' = start /\ good_addr' = good_addr
  BY DEF Save, Sound, IdleInv
<1>2. /\ FlashType(flash) /\ info \in InfoType /\ list \in Seq(Blocks) /\ Len(list) \in Nat
  BY Types
<1>3. /\ info'.valid = info.valid /\ blk' = blk /\ info'.timestamp = info.timestamp
      /\ list' = list /\ info'.status = info.status /\ info'.phy_page_addr = StartPage
  BY <1>1, <1>2 DEF InfoType, blk, list
<1>4. Listing'
  BY <1>1, <1>3 DEF Listing
<1>5. page_num \in Nat \ {0} /\ pages_per_blk \in Nat
  BY Parameters
<1>6. ASSUME info.valid
      PROVE  /\ OthersOlder(flash', blk', info'.timestamp)
             /\ Named(flash', blk') => Stamp(flash', blk') <= info'.timestamp
             /\ ~Full' => Settled' /\ ~info'.status
             /\ Erases' => exposed'
             /\ Full' /\ ~exposed' => Ahead'
  <2>1. PICK c \in Copies :
          /\ info.phy_page_addr = c * page_num /\ info.phy_page_addr \in Nat
          /\ info.phy_page_addr + page_num <= pages_per_blk
    BY <1>1, <1>2, <1>6, SettledIs
  <2>2. HasCopy(flash, blk) /\ blk \in Blocks
    BY <1>1, <1>2, <1>6, SettledIs
  <2>3. /\ Named(flash, blk) /\ info.timestamp = Stamp(flash, blk)
        /\ OthersOlder(flash, blk, info.timestamp) /\ AtLastCopy(flash, info)
    BY <1>1, <1>6 DEF Settled
  <2>4. CASE info.status
    <3>1. info'.phy_page_addr = pages_per_blk /\ exposed'
      BY <1>1, <1>3, <1>6, <2>4 DEF StartPage, AtRisk
    <3>2. Full'
      BY <1>5, <3>1 DEF Full
    <3>3. Stamp(flash, blk) \in Nat
      BY <1>2, <2>2, <2>3, FirstPages, PageKinds DEF Named, Stamp
    <3> QED
      BY <1>1, <1>3, <2>3, <3>1, <3>2, <3>3
  <2>5. CASE ~info.status
    <3>1. info'.phy_page_addr = info.phy_page_addr
      BY <1>3, <2>5 DEF StartPage
    <3>2. AtLastCopy(flash', info')
      BY <1>1, <1>3, <2>3, <3>1 DEF AtLastCopy, blk
    <3>3. Settled'
      BY <1>1, <1>3, <2>2, <2>3, <3>2 DEF Settled
    <3>4. ~Erases'
      BY <1>5, <2>1, <3>1 DEF Erases
    <3>5. Full' <=> Full
      BY <3>1 DEF Full
    <3>6. ASSUME Full, ~exposed' PROVE Ahead'
      <4>1. ~(Range(list) \subseteq Bad)
        BY <1>1, <1>6, <3>6 DEF AtRisk, list
      <4>2. PICK i \in 1..Len(list) : list[i] \notin Bad
        BY <1>2, <4>1 DEF Range
      <4>3. \A j \in 1..i : list[j] \in Blocks /\ list[j] # blk
        <5>1. \A j \in 1..i : j \in 1..Len(list)
          BY <1>2
        <5>2. blk \notin Range(list)
          BY <1>1 DEF Listing
        <5> QED
          BY <1>2, <5>1, <5>2 DEF Range
      <4>4. \A j \in 1..i : Superseded(flash, list[j])
        BY <1>1, <1>2, <2>2, <2>3, <4>3, OlderSuperseded
      <4> QED
        BY <1>1, <1>3, <4>2, <4>4 DEF Ahead
    <3>7. Stamp(flash, blk) \in Nat
      BY <1>2, <2>2, <2>3, FirstPages, PageKinds DEF Named, Stamp
    <3> QED
      BY <1>1, <1>3, <2>3, <2>5, <3>3, <3>4, <3>5, <3>6, <3>7
  <2> QED
    BY <2>4, <2>5
<1>7. ~info.valid => blk' \in Bad \cup {-1} /\ NothingSaved'
  BY <1>1, <1>3 DEF NothingSaved
<1>8. SearchInv'
  BY <1>1, <1>3, <1>4, <1>6, <1>7 DEF SearchInv
<1> QED
  BY <1>1, <1>8
  DEF Sound, OffInv, ScanInv, ClearInv, IdleInv, ReadInv, EraseInv, WriteInv

LEMMA SearchSameStep ==
  ASSUME TInv, Sound, SearchSameBlock
  PROVE  Sound'
<1>1. /\ FlashOK(flash) /\ flash' = flash /\ pc = "search" /\ info.valid /\ ~Full
      /\ info' = PageAfter /\ pc' = "write" /\ part' = 0
      /\ start' = start /\ good_addr' = good_addr
  BY DEF SearchSameBlock, Sound
<1>2. Listing /\ Len(list) < end_block /\ Settled /\ ~info.status
      /\ OthersOlder(flash, blk, info.timestamp)
  BY <1>1 DEF Sound, SearchInv
<1>3. FlashType(flash) /\ info \in InfoType
  BY Types
<1>4. /\ blk' = blk /\ list' = list /\ info'.timestamp = info.timestamp
      /\ info'.phy_page_addr = info.phy_page_addr + page_num
  BY <1>1, <1>3, PageAfterIs DEF blk, list
<1>5. blk \in Blocks \ Bad
  BY <1>1, <1>2, <1>3, SettledIs
<1>6. PICK c \in Copies :
        /\ c \in Nat /\ info.phy_page_addr = c * page_num /\ <<blk, c>> \in Whole(flash)
        /\ info.phy_page_addr \in Nat
  BY <1>1, <1>2, <1>3, SettledIs
<1>7. page_num \in Nat \ {0} /\ pages_per_blk \in Nat
  BY Parameters
<1>8. c + 1 \in Copies /\ (c + 1) * page_num = c * page_num + page_num
  <2>1. c * page_num + 2 * page_num <= pages_per_blk
    BY <1>1, <1>6, <1>7 DEF Full
  <2> QED
    BY <2>1, NextCopy
<1>9. info'.phy_page_addr = (c + 1) * page_num
  BY <1>4, <1>6, <1>8
<1>10. ASSUME NEW p \in 0..(Page(c + 1, 0) - 1)
       PROVE  flash[blk][p].kind = "part" /\ flash[blk][p].timestamp = info.timestamp
  <2> DEFINE last == Page(c, page_num - 1)
  <2>1. last \in Pages /\ last = c * page_num + (page_num - 1)
    BY LastPart
  <2>2. flash[blk][last].kind = "part"
    BY <1>1, <1>5, <1>6, WholeIff
  <2>3. Page(c + 1, 0) = c * page_num + page_num
    BY <1>6, <1>7, <1>8 DEF Page
  <2> HIDE DEF last
  <2>4. p <= last /\ 0 <= last /\ p \in Pages /\ 0 \in Pages
    BY <1>6, <1>7, <2>1, <2>3 DEF Pages
  <2>5. flash[blk][p].kind = "part" /\ flash[blk][p].timestamp = flash[blk][last].timestamp
    BY <1>1, <1>5, <2>1, <2>2, <2>4, PartsBefore
  <2>6. flash[blk][0].timestamp = flash[blk][last].timestamp
    BY <1>1, <1>5, <2>1, <2>2, <2>4, PartsBefore
  <2>7. info.timestamp = flash[blk][0].timestamp
    BY <1>2 DEF Settled, Stamp
  <2> QED
    BY <2>5, <2>6, <2>7
<1>11. BlankFrom(flash, blk, info.phy_page_addr + page_num)
  BY <1>2 DEF Settled, AtLastCopy, blk
<1>12. info'.phy_page_addr + part' = info.phy_page_addr + page_num
  BY <1>1, <1>4, <1>6, <1>7
<1>13. Listing'
  BY <1>1, <1>2, <1>4 DEF Listing
<1>14. \E d \in Copies :
         /\ info'.phy_page_addr = d * page_num
         /\ PartsUpTo(flash', blk', Page(d, part'), info'.timestamp)
         /\ ValuesUpTo(flash', blk', d, part', saving')
  <2>1. part' = 0 /\ 0..(part' - 1) = {}
    BY <1>1
  <2>2. ValuesUpTo(flash', blk', c + 1, part', saving')
    BY <2>1 DEF ValuesUpTo
  <2>3. PartsUpTo(flash', blk', Page(c + 1, part'), info'.timestamp)
    BY <1>1, <1>4, <1>10, <2>1 DEF PartsUpTo
  <2> QED
    BY <1>8, <1>9, <2>2, <2>3
<1>15. WriteInv'
  BY <1>1, <1>2, <1>4, <1>5, <1>11, <1>12, <1>13, <1>14 DEF WriteInv
<1> QED
  BY <1>1, <1>15
  DEF Sound, OffInv, ScanInv, ClearInv, IdleInv, ReadInv, SearchInv, EraseInv

\* The first block of a list becomes the valid one.
LEMMA EnterStep ==
  ASSUME TInv, NEW i \in InfoType, NEW l \in Seq(Blocks), l # <<>>, EnterBlock(i, l),
         IsInjective(l), Len(l) <= end_block, FlashType(flash'), FlashOK(flash'),
         \A b \in Blocks \ Bad : Probed(flash', b) # {} => b \in Range(l),
         start' = 0, good_addr' = {},
         \A o \in Blocks : Named(flash', o) => Stamp(flash', o) <= i.timestamp,
         ~i.valid => \A o \in Blocks : ~Named(flash', o),
         i.valid => \/ exposed
                    \/ \E n \in 1..Len(l) :
                         l[n] \notin Bad /\ \A j \in 1..n : Superseded(flash', l[j])
  PROVE  pc' \in {"search", "erase"} /\ SearchInv' /\ EraseInv'
<1>1. /\ info' \in InfoType /\ info'.valid = i.valid
      /\ info'.timestamp = i.timestamp + 1 /\ exposed' = exposed
      /\ Head(l) \in Bad => pc' = "search" /\ info'.phy_page_addr = pages_per_blk - page_num
      /\ Head(l) \notin Bad => pc' = "erase" /\ info'.phy_page_addr = 0
  BY EnterBlockIs
<1>2. blk' = Head(l) /\ Head(l) \in Blocks /\ list' = Tail(l) /\ Len(list') = Len(l) - 1
  BY EnterBlockIs DEF blk, list
<1>3. /\ Head(l) = l[1] /\ Len(l) \in Nat \ {0} /\ Range(l) = Range(Tail(l)) \cup {Head(l)}
      /\ IsInjective(Tail(l)) /\ Head(l) \notin Range(Tail(l))
  BY FirstOfList
<1>4. \A k \in 1..(Len(l) - 1) : Tail(l)[k] = l[k + 1]
  BY FirstOfList
<1>5. page_num \in Nat \ {0} /\ pages_per_blk \in Nat /\ i.timestamp \in Nat /\ end_block \in Nat
  BY Parameters DEF InfoType
<1>6. Listing'
  BY <1>2, <1>3 DEF Listing
<1>7. \A o \in Blocks : Named(flash', o) => Stamp(flash', o) \in Nat
  BY FirstPages, PageKinds DEF Named, Stamp
<1>8. \A o \in Blocks : Named(flash', o) => Stamp(flash', o) < info'.timestamp
  BY <1>1, <1>5, <1>7
<1>9. Len(list') <= end_block /\ Len(list') < end_block
  BY <1>2, <1>3, <1>5
<1>10. CASE Head(l) \in Bad
  <2>1. pc' = "search" /\ info'.phy_page_addr = pages_per_blk - page_num
    BY <1>1, <1>10
  <2>2. Full' /\ ~Erases'
    BY <1>5, <2>1 DEF Full, Erases
  <2>3. ~info'.valid => blk' \in Bad \cup {-1} /\ NothingSaved'
    BY <1>1, <1>2, <1>10 DEF NothingSaved
  <2>4. OthersOlder(flash', blk', info'.timestamp)
    BY <1>8 DEF OthersOlder
  <2>5. Named(flash', blk') => Stamp(flash', blk') <= info'.timestamp
    BY <1>1, <1>2, <1>5, <1>7, <1>8
  <2>6. ASSUME info'.valid, ~exposed' PROVE Ahead'
    <3>1. PICK n \in 1..Len(l) :
            l[n] \notin Bad /\ \A j \in 1..n : Superseded(flash', l[j])
      BY <1>1, <2>6
    <3>2. n # 1 /\ n - 1 \in 1..(Len(l) - 1)
      BY <1>3, <1>10, <3>1
    <3>3. Tail(l)[n - 1] \notin Bad
      BY <1>4, <3>1, <3>2
    <3>4. ASSUME NEW j \in 1..(n - 1) PROVE Superseded(flash', Tail(l)[j])
      <4>1. j + 1 \in 1..n /\ j \in 1..(Len(l) - 1)
        BY <1>3, <3>1, <3>2
      <4> QED
        BY <1>4, <3>1, <4>1
    <3>5. n - 1 \in 1..Len(list')
      BY <1>2, <3>2
    <3> QED
      BY <1>2, <3>3, <3>4, <3>5 DEF Ahead
  <2>7. SearchInv'
    BY <1>6, <1>9, <2>2, <2>3, <2>4, <2>5, <2>6 DEF SearchInv
  <2> QED
    BY <2>1, <2>7 DEF EraseInv
<1>11. CASE Head(l) \notin Bad
  <2>1. pc' = "erase" /\ info'.phy_page_addr = 0
    BY <1>1, <1>11
  <2>2. ASSUME ~exposed' PROVE Superseded(flash', blk')
    <3>1. CASE ~i.valid
      <4>1. ~HasCopy(flash', blk')
        BY <1>2, <3>1, FirstCopy
      <4> QED
        BY <4>1 DEF Superseded
    <3>2. CASE i.valid
      <4>1. PICK n \in 1..Len(l) : \A j \in 1..n : Superseded(flash', l[j])
        BY <1>1, <2>2, <3>2
      <4>2. 1 \in 1..n
        BY <1>3, <4>1
      <4> QED
        BY <1>2, <1>3, <4>1, <4>2
    <3> QED
      BY <3>1, <3>2
  <2>3. EraseInv'
    BY <1>2, <1>6, <1>8, <1>9, <1>11, <2>1, <2>2 DEF EraseInv
  <2> QED
    BY <2>1, <2>3 DEF SearchInv
<1> QED
  BY <1>10, <1>11

\* The same where another block is left.
LEMMA LeaveStep ==
  ASSUME TInv, pc = "search", SearchInv, info.valid, LeaveBlock(PageAfter),
         FlashType(flash'), FlashOK(flash'),
         \A o \in Blocks : Named(flash', o) => Named(flash, o) /\ Stamp(flash', o) = Stamp(flash, o),
         \A b \in Blocks \ {blk} : Probed(flash', b) = Probed(flash, b),
         \/ exposed
         \/ Full /\ flash' = flash,
         start' = start, good_addr' = good_addr
  PROVE  pc' \in {"search", "erase", "oops"} /\ SearchInv' /\ EraseInv'
<1>1. /\ Listing /\ Len(list) < end_block /\ OthersOlder(flash, blk, info.timestamp)
      /\ Named(flash, blk) => Stamp(flash, blk) <= info.timestamp
      /\ Full /\ ~exposed => Ahead
  BY DEF SearchInv
<1>2. /\ info \in InfoType /\ list \in Seq(Blocks) /\ blk \in Blocks /\ FlashType(flash)
      /\ Len(list) \in Nat
  BY Types
<1>3. /\ PageAfter \in InfoType /\ PageAfter.valid = info.valid
      /\ PageAfter.phy_blk_addr = blk /\ PageAfter.timestamp = info.timestamp
      /\ PageAfter.free_node = list /\ info.timestamp \in Nat
  BY <1>2, PageAfterIs DEF blk, list, InfoType
<1>4. ~NoFreeNode(PageAfter)
  BY <1>1, <1>2, <1>3, FlashAssumption DEF NoFreeNode
<1>5. CASE list = <<>>
  <2>1. pc' = "oops"
    BY <1>2, <1>3, <1>4, <1>5, LeaveBlockIs
  <2> QED
    BY <2>1 DEF SearchInv, EraseInv
<1>6. CASE list # <<>>
  <2> DEFINE l == Append(list, blk)
  <2>1. EnterBlock(PageAfter, l)
    BY <1>2, <1>3, <1>4, <1>6, LeaveBlockIs
  <2>2. /\ l \in Seq(Blocks) /\ Len(l) = Len(list) + 1 /\ l # <<>>
        /\ Range(l) = Range(list) \cup {blk} /\ IsInjective(l)
    BY <1>1, <1>2, AppendBlock DEF Listing
  <2>3. \A b \in Blocks \ Bad : Probed(flash', b) # {} => b \in Range(l)
    BY <1>1, <2>2 DEF Listing
  <2>4. \A o \in Blocks : Named(flash', o) => Stamp(flash', o) <= PageAfter.timestamp
    <3> SUFFICES ASSUME NEW o \in Blocks, Named(flash, o)
                 PROVE  Stamp(flash, o) <= info.timestamp
      BY <1>3
    <3>1. Stamp(flash, o) \in Nat
      BY <1>2, FirstPages, PageKinds DEF Named, Stamp
    <3>2. CASE o = blk
      BY <1>1, <3>2
    <3>3. CASE o # blk
      BY <1>1, <1>3, <3>1, <3>3 DEF OthersOlder
    <3> QED
      BY <3>2, <3>3
  <2>5. ASSUME ~exposed
        PROVE  \E n \in 1..Len(l) :
                 l[n] \notin Bad /\ \A j \in 1..n : Superseded(flash', l[j])
    <3>1. Ahead /\ flash' = flash
      BY <1>1, <2>5
    <3>2. PICK n \in 1..Len(list) :
            list[n] \notin Bad /\ \A j \in 1..n : Superseded(flash, list[j])
      BY <3>1 DEF Ahead
    <3>3. \A j \in 1..Len(list) : l[j] = list[j]
      BY <1>2
    <3>4. n \in 1..Len(l) /\ \A j \in 1..n : j \in 1..Len(list)
      BY <1>2, <2>2, <3>2
    <3> HIDE DEF l
    <3> QED
      BY <3>1, <3>2, <3>3, <3>4
  <2>6. start' = 0 /\ good_addr' = {} /\ Len(l) <= end_block
    BY <1>1, <1>2, <2>2, Parameters DEF Listing
  <2> HIDE DEF l
  <2>7. PageAfter.valid
    BY <1>3
  <2>8. pc' \in {"search", "erase"} /\ SearchInv' /\ EraseInv'
    BY <1>3, <2>1, <2>2, <2>3, <2>4, <2>5, <2>6, <2>7, EnterStep
  <2> QED
    BY <2>8
<1> QED
  BY <1>5, <1>6

LEMMA SearchNextStep ==
  ASSUME TInv, Sound, SearchNextBlock
  PROVE  Sound'
<1>1. /\ FlashOK(flash) /\ SearchInv /\ flash' = flash /\ pc = "search" /\ info.valid /\ Full
      /\ LeaveBlock(PageAfter) /\ start' = start /\ good_addr' = good_addr
  BY DEF SearchNextBlock, Sound
<1>2. FlashType(flash)
  BY Types
<1>3. pc' \in {"search", "erase", "oops"} /\ SearchInv' /\ EraseInv'
  BY <1>1, <1>2, LeaveStep
<1> QED
  BY <1>1, <1>3
  DEF Sound, OffInv, ScanInv, ClearInv, IdleInv, ReadInv, WriteInv

LEMMA SearchEraseStep ==
  ASSUME TInv, Sound, SearchEraseBlock
  PROVE  Sound' /\ exposed
<1>1. /\ FlashOK(flash) /\ SearchInv /\ pc = "search" /\ Erases /\ info.valid
      /\ flash' = Erased(blk)
      /\ LeaveBlock(PageAfter) /\ start' = start /\ good_addr' = good_addr
  BY DEF SearchEraseBlock, Sound, Erases, blk
<1>2. FlashType(flash) /\ blk \in Blocks
  BY <1>1, Types
<1>3. /\ FlashType(flash') /\ FlashOK(flash') /\ ~Named(flash', blk)
      /\ \A o \in Blocks \ {blk} : flash'[o] = flash[o]
  BY <1>1, <1>2, Erasing
<1>4. \A o \in Blocks : Named(flash', o) => Named(flash, o) /\ Stamp(flash', o) = Stamp(flash, o)
  BY <1>3 DEF Named, Stamp
<1>5. \A b \in Blocks \ {blk} : Probed(flash', b) = Probed(flash, b)
  BY <1>3 DEF Probed
<1>6. exposed
  BY <1>1 DEF SearchInv
<1>7. pc' \in {"search", "erase", "oops"} /\ SearchInv' /\ EraseInv'
  BY <1>1, <1>3, <1>4, <1>5, <1>6, LeaveStep
<1> QED
  BY <1>3, <1>6, <1>7
  DEF Sound, OffInv, ScanInv, ClearInv, IdleInv, ReadInv, WriteInv

LEMMA SearchFirstStep ==
  ASSUME TInv, Sound, SearchFirstBlock
  PROVE  Sound'
<1>1. /\ FlashOK(flash) /\ SearchInv /\ pc = "search" /\ ~info.valid /\ flash' = flash
      /\ start' = start /\ good_addr' = good_addr
  BY DEF SearchFirstBlock, Sound
<1>2. /\ Listing /\ Len(list) <= end_block /\ blk \in Bad \cup {-1} /\ NothingSaved
  BY <1>1 DEF SearchInv
<1>3. FlashType(flash) /\ info \in InfoType /\ list \in Seq(Blocks)
  BY Types
<1>4. CASE list = <<>>
  <2>1. pc' = "oops"
    BY <1>4 DEF SearchFirstBlock, list
  <2> QED
    BY <1>1, <2>1
    DEF Sound, OffInv, ScanInv, ClearInv, IdleInv, ReadInv, SearchInv, EraseInv, WriteInv
<1>5. CASE list # <<>>
  <2>1. EnterBlock(info, list)
    BY <1>5 DEF SearchFirstBlock, list
  <2>2. \A b \in Blocks \ Bad : Probed(flash', b) # {} => b \in Range(list)
    BY <1>1, <1>2 DEF Listing, Blocks
  <2>3. \A o \in Blocks : ~Named(flash', o)
    BY <1>1, <1>2 DEF NothingSaved
  <2>4. start' = 0 /\ good_addr' = {} /\ IsInjective(list)
    BY <1>1, <1>2 DEF Listing
  <2>5. pc' \in {"search", "erase"} /\ SearchInv' /\ EraseInv'
    BY <1>1, <1>2, <1>3, <1>5, <2>1, <2>2, <2>3, <2>4, EnterStep
  <2> QED
    BY <1>1, <2>5
    DEF Sound, OffInv, ScanInv, ClearInv, IdleInv, ReadInv, WriteInv
<1> QED
  BY <1>4, <1>5

\* The copies in the block that is erased are not the newest, unless the save
\* runs that risk.
LEMMA EraseStep ==
  ASSUME TInv, Sound, EraseNext
  PROVE  Sound' /\ (~exposed => Newest(flash') = Newest(flash))
<1>1. /\ FlashOK(flash) /\ pc = "erase" /\ pc' = "write" /\ part' = 0 /\ info' = info
      /\ flash' = Erased(blk) /\ start' = start /\ good_addr' = good_addr
  BY DEF EraseNext, Sound, blk
<1>2. /\ Listing /\ blk \in Blocks \ Bad /\ info.phy_page_addr = 0 /\ Len(list) < end_block
      /\ \A o \in Blocks : Named(flash, o) => Stamp(flash, o) < info.timestamp
      /\ ~exposed => Superseded(flash, blk)
  BY <1>1 DEF Sound, EraseInv
<1>3. FlashType(flash)
  BY Types
<1>4. /\ FlashType(flash') /\ FlashOK(flash') /\ ~HasCopy(flash', blk)
      /\ \A o \in Blocks \ {blk} : flash'[o] = flash[o]
      /\ flash'[blk] = Filled(Blank)
  BY <1>1, <1>2, <1>3, Erasing
<1>5. blk' = blk /\ list' = list
  BY <1>1 DEF blk, list
<1>6. Listing'
  BY <1>1, <1>2, <1>4, <1>5 DEF Listing, Probed
<1>7. OthersOlder(flash', blk', info'.timestamp)
  BY <1>1, <1>2, <1>4, <1>5 DEF OthersOlder, Named, Stamp
<1>8. BlankFrom(flash', blk', 0)
  BY <1>4, <1>5 DEF BlankFrom, Filled, Blank
<1>9. \E c \in Copies :
        /\ info'.phy_page_addr = c * page_num
        /\ PartsUpTo(flash', blk', Page(c, part'), info'.timestamp)
        /\ ValuesUpTo(flash', blk', c, part', saving')
  <2>1. Page(0, 0) = 0 /\ 0 \in Copies /\ 0 = 0 * page_num
    BY FirstPages, Parameters
  <2>2. 0..(Page(0, part') - 1) = {} /\ 0..(part' - 1) = {}
    BY <1>1, <2>1
  <2>3. /\ PartsUpTo(flash', blk', Page(0, part'), info'.timestamp)
        /\ ValuesUpTo(flash', blk', 0, part', saving')
    BY <2>2 DEF PartsUpTo, ValuesUpTo
  <2> QED
    BY <1>1, <1>2, <2>1, <2>3
<1>10. WriteInv'
  <2>1. info'.phy_page_addr + part' = 0
    BY <1>1, <1>2
  <2> QED
    BY <1>1, <1>2, <1>5, <1>6, <1>7, <1>8, <1>9, <2>1 DEF WriteInv
<1>11. ~exposed => Newest(flash') = Newest(flash)
  BY <1>1, <1>2, <1>3, <1>4, OldCopiesLost
<1> QED
  BY <1>1, <1>4, <1>10, <1>11
  DEF Sound, OffInv, ScanInv, ClearInv, IdleInv, ReadInv, SearchInv, EraseInv

\* The last part of a copy makes it the newest one, the others make no copy.
LEMMA WriteStep ==
  ASSUME TInv, Sound, TimestampsFit, Write
  PROVE  /\ Sound'
         /\ part + 1 < page_num => Newest(flash') = Newest(flash)
         /\ ~(part + 1 < page_num) => Newest(flash') = saving
<1>1. /\ FlashOK(flash) /\ pc = "write" /\ part' = part + 1
      /\ start' = start /\ good_addr' = good_addr
      /\ flash' = [flash EXCEPT ![blk][info.phy_page_addr + part] = Part(info.timestamp, saving)]
  BY DEF Write, Sound, blk
<1>2. /\ Listing /\ blk \in Blocks \ Bad /\ Len(list) < end_block
      /\ OthersOlder(flash, blk, info.timestamp)
      /\ BlankFrom(flash, blk, info.phy_page_addr + part)
  BY <1>1 DEF Sound, WriteInv
<1>3. PICK c \in Copies :
        /\ info.phy_page_addr = c * page_num
        /\ PartsUpTo(flash, blk, Page(c, part), info.timestamp)
        /\ ValuesUpTo(flash, blk, c, part, saving)
  BY <1>1 DEF Sound, WriteInv
<1>4. /\ FlashType(flash) /\ info \in InfoType /\ info.timestamp \in Nat
      /\ info.timestamp < Timestamps /\ saving \in Values /\ part \in 0..(page_num - 1)
  BY <1>1, Types DEF TimestampsFit
<1>5. /\ page_num \in Nat \ {0} /\ pages_per_blk \in Nat
      /\ Page(c, part) = info.phy_page_addr + part /\ c * page_num \in Nat
      /\ Page(c, part) \in Pages
  BY <1>3, <1>4, PageInBlock, Parameters
<1>6. flash' = Programmed(flash, blk, Page(c, part), Part(info.timestamp, saving))
  BY <1>1, <1>5 DEF Programmed
<1>7. BlankFrom(flash, blk, Page(c, part))
  BY <1>2, <1>5
<1>8. /\ FlashType(flash') /\ FlashOK(flash')
      /\ \A o \in Blocks \ {blk} : flash'[o] = flash[o]
      /\ PartsUpTo(flash', blk, Page(c, part) + 1, info.timestamp)
      /\ ValuesUpTo(flash', blk, c, part + 1, saving)
      /\ BlankFrom(flash', blk, Page(c, part) + 1)
      /\ part < page_num - 1 => Newest(flash') = Newest(flash)
      /\ part = page_num - 1 =>
           /\ <<blk, c>> \in Whole(flash') /\ \A d \in Copies : <<blk, d>> \in Whole(flash') => d <= c
           /\ Newest(flash') = saving
  <2> DEFINE g == Programmed(flash, blk, Page(c, part), Part(info.timestamp, saving))
  <2>1. g = Programmed(flash, blk, Page(c, part), Part(info.timestamp, saving)) /\ flash' = g
    BY <1>6
  <2> HIDE DEF g
  <2>2. PartWritten(flash, g, blk, c, part, info.timestamp, saving)
    BY <1>1, <1>2, <1>3, <1>4, <1>7, <2>1, Written
  <2> QED
    BY <2>1, <2>2 DEF PartWritten
<1>9. OthersOlder(flash', blk, info.timestamp)
  BY <1>2, <1>8 DEF OthersOlder, Named, Stamp
<1>10. CASE part + 1 < page_num
  <2>1. /\ info' = info /\ pc' = "write" /\ saving' = saving /\ blk' = blk /\ list' = list
    BY <1>1, <1>10 DEF Write, blk, list
  <2>2. Listing'
    BY <1>1, <1>2, <1>8, <2>1 DEF Listing, Probed
  <2>3. Page(c, part') = Page(c, part) + 1
        /\ info'.phy_page_addr + part' = Page(c, part) + 1
    BY <1>1, <1>3, <1>4, <1>5, <2>1 DEF Page
  <2>4. /\ info'.phy_page_addr = c * page_num
        /\ PartsUpTo(flash', blk', Page(c, part'), info'.timestamp)
        /\ ValuesUpTo(flash', blk', c, part', saving')
    BY <1>1, <1>3, <1>8, <2>1, <2>3
  <2>5. WriteInv'
    BY <1>2, <1>8, <1>9, <2>1, <2>2, <2>3, <2>4 DEF WriteInv
  <2>6. Newest(flash') = Newest(flash)
    BY <1>4, <1>5, <1>8, <1>10
  <2> QED
    BY <1>8, <1>10, <2>1, <2>5, <2>6
    DEF Sound, OffInv, ScanInv, ClearInv, IdleInv, ReadInv, SearchInv, EraseInv
<1>11. CASE ~(part + 1 < page_num)
  <2>1. part = page_num - 1
    BY <1>4, <1>5, <1>11
  <2>2. /\ info' = [info EXCEPT !.valid = TRUE, !.status = FALSE]
        /\ pc' = "idle" /\ saving' = None /\ exposed' = FALSE
    BY <1>11 DEF Write, GiveUp
  <2>3. /\ info'.valid /\ ~info'.status /\ blk' = blk /\ list' = list
        /\ info'.timestamp = info.timestamp /\ info'.phy_page_addr = info.phy_page_addr
    BY <1>4, <2>2 DEF InfoType, blk, list
  <2>4. Listing'
    BY <1>1, <1>2, <1>8, <2>3 DEF Listing, Probed
  <2>5. /\ <<blk, c>> \in Whole(flash') /\ \A d \in Copies : <<blk, d>> \in Whole(flash') => d <= c
        /\ Newest(flash') = saving
    BY <1>8, <2>1
  <2>6. info'.phy_page_addr + page_num = Page(c, part) + 1
    BY <1>3, <1>5, <2>1, <2>3
  <2>7. AtLastCopy(flash', info')
    BY <1>3, <1>8, <2>3, <2>5, <2>6 DEF AtLastCopy, blk
  <2>8. Named(flash', blk) /\ Stamp(flash', blk) = info.timestamp
    <3> DEFINE n == Page(c, part) + 1
    <3>1. 0 \in 0..(n - 1) /\ PartsUpTo(flash', blk, n, info.timestamp)
      BY <1>5, <1>8 DEF Pages
    <3> HIDE DEF n
    <3> QED
      BY <3>1 DEF Named, Stamp, PartsUpTo
  <2>9. Settled'
    BY <1>2, <1>9, <2>3, <2>7, <2>8 DEF Settled
  <2>10. Len(list') <= end_block /\ Len(list') < end_block
    BY <1>2, <2>3, Types, Parameters
  <2>11. IdleInv'
    BY <2>2, <2>3, <2>4, <2>9, <2>10 DEF IdleInv
  <2> QED
    BY <1>8, <1>11, <2>2, <2>5, <2>11
    DEF Sound, OffInv, ScanInv, ClearInv, ReadInv, SearchInv, EraseInv, WriteInv
<1> QED
  BY <1>10, <1>11

LEMMA ReadStep ==
  ASSUME TInv, Sound, Read
  PROVE  Sound'
<1>1. /\ FlashOK(flash) /\ pc = "idle" /\ info.valid /\ pc' = "read" /\ part' = 0 /\ got' = <<>>
      /\ UNCHANGED <<flash, info, start, good_addr, saving, exposed>>
  BY DEF Read, Sound, historyVars
<1>2. IdleInv'
  BY <1>1 DEF Sound, IdleInv, Listing, Settled, NothingSaved, blk, list
<1>3. Len(got') = 0 /\ 0 % page_num = 0
  BY <1>1, Parameters
<1>4. ReadInv'
  BY <1>1, <1>3 DEF ReadInv
<1> QED
  BY <1>1, <1>2, <1>4
  DEF Sound, OffInv, ScanInv, ClearInv, SearchInv, EraseInv, WriteInv

\* The pages a read comes to are the parts of the newest copy.
LEMMA PartsRead ==
  ASSUME TInv, Sound, pc = "read", Len(got) < page_num
  PROVE  /\ part = Len(got) /\ Len(got) \in Nat
         /\ PageAt(blk, info.phy_page_addr + part).kind = "part"
         /\ PageAt(blk, info.phy_page_addr + part).value = Newest(flash)
<1>1. FlashOK(flash) /\ Settled /\ info.valid /\ part = Len(got) % page_num
  BY DEF Sound, IdleInv, ReadInv
<1>2. FlashType(flash) /\ got \in Seq(Values \cup {None}) /\ blk \in Blocks
      /\ part \in 0..(page_num - 1)
  BY <1>1, Types
<1>3. Len(got) \in Nat /\ page_num \in Nat \ {0} /\ pages_per_blk \in Nat \ {0}
      /\ end_block \in Nat
  BY <1>2, Parameters
<1>4. part = Len(got)
  BY <1>1, <1>3
<1>5. PICK c \in Copies :
        /\ info.phy_page_addr = c * page_num /\ <<blk, c>> \in Whole(flash)
        /\ Newest(flash) = First(flash, <<blk, c>>).value
  BY <1>1, <1>2, SettledIs
<1> DEFINE p == info.phy_page_addr + part
<1>6. p = Page(c, part) /\ p \in Pages
  BY <1>2, <1>5, PageInBlock
<1>7. p \in Nat /\ p < pages_per_blk
  BY <1>3, <1>6 DEF Pages
<1> HIDE DEF p
<1>8. p \div pages_per_blk = 0 /\ p % pages_per_blk = p
  BY <1>3, <1>7
<1>9. blk + 0 = blk
  BY <1>2, <1>3 DEF Blocks
<1>10. PageAt(blk, p) = flash[blk][p]
  BY <1>2, <1>8, <1>9 DEF PageAt
<1>11. flash[blk][c * page_num + part].kind = "part"
       /\ flash[blk][c * page_num + part] = flash[blk][c * page_num]
  BY <1>2, <1>5 DEF Whole
<1>12. c * page_num + part = p
  BY <1>5 DEF p
<1>13. flash[blk][p].kind = "part" /\ flash[blk][p].value = Newest(flash)
  BY <1>5, <1>11, <1>12 DEF First
<1> QED
  BY <1>3, <1>4, <1>10, <1>13 DEF p

LEMMA ReadPartStep ==
  ASSUME TInv, Sound, ReadPart
  PROVE  Sound'
<1>1. /\ pc = "read" /\ pc' = pc /\ Len(got) < page_num /\ FlashOK(flash)
      /\ part' = (part + 1) % page_num
      /\ UNCHANGED <<flash, info, start, good_addr, saving, exposed>>
      /\ got' = Append(got, IF part = Len(got)
                            THEN PageAt(blk, info.phy_page_addr + part).value ELSE None)
  BY DEF ReadPart, Sound, historyVars, blk
<1>2. /\ part = Len(got) /\ Len(got) \in Nat
      /\ PageAt(blk, info.phy_page_addr + part).value = Newest(flash)
  BY <1>1, PartsRead
<1>3. got' = Append(got, Newest(flash)) /\ got \in Seq(Values \cup {None})
  BY <1>1, <1>2, Types
<1>4. Len(got') = Len(got) + 1 /\ part' = Len(got') % page_num
  BY <1>1, <1>2, <1>3
<1>5. info.valid /\ \A k \in 1..Len(got) : got[k] = Newest(flash)
  BY <1>1 DEF Sound, ReadInv
<1>6. \A k \in 1..Len(got') : got'[k] = Newest(flash)
  BY <1>2, <1>3, <1>4, <1>5
<1>7. ReadInv'
  BY <1>1, <1>4, <1>5, <1>6 DEF ReadInv
<1>8. IdleInv'
  BY <1>1 DEF Sound, IdleInv, Listing, Settled, NothingSaved, blk, list
<1> QED
  BY <1>1, <1>7, <1>8
  DEF Sound, OffInv, ScanInv, ClearInv, SearchInv, EraseInv, WriteInv

\* A read meets no ECC error.
LEMMA ReadTornStep ==
  ASSUME TInv, Sound, ReadTorn
  PROVE  FALSE
<1>1. /\ pc = "read" /\ Len(got) < page_num
      /\ PageAt(blk, info.phy_page_addr + part).kind = "torn"
  BY DEF ReadTorn, blk
<1> QED
  BY <1>1, PartsRead

LEMMA ReadReturnStep ==
  ASSUME TInv, Sound, ReadReturn
  PROVE  Sound'
<1>1. /\ pc = "read" /\ pc' = "idle" /\ FlashOK(flash)
      /\ UNCHANGED <<flash, info, start, good_addr, saving, exposed>>
  BY DEF ReadReturn, Sound, historyVars
<1>2. IdleInv'
  BY <1>1 DEF Sound, IdleInv, Listing, Settled, NothingSaved, blk, list
<1> QED
  BY <1>1, <1>2
  DEF Sound, OffInv, ScanInv, ClearInv, ReadInv, SearchInv, EraseInv, WriteInv

\* What the power loss leaves is in order, and the newest copy is what it was.
LEMMA PowerLossStep ==
  ASSUME TInv, Sound, PowerLoss
  PROVE  Sound' /\ (~exposed => Newest(flash') = Newest(flash))
<1>1. /\ FlashOK(flash) /\ pc' = "off" /\ info' = Unscanned /\ start' = 0 /\ good_addr' = {}
      /\ caller' = "boot" /\ saving' = None /\ exposed' = FALSE
      /\ flash' \in {flash} \cup TornBlock \cup TornPage
  BY DEF PowerLoss, Sound
<1>2. FlashType(flash)
  BY Types
<1>3. FlashOK(flash') /\ (~exposed => Newest(flash') = Newest(flash))
  <2>1. CASE flash' = flash
    BY <1>1, <2>1
  <2>2. CASE flash' \in TornBlock
    <3>1. pc \in {"clear", "erase"} \/ (pc = "search" /\ Erases)
      BY <2>2 DEF TornBlock
    <3>2. flash' = Spoil(flash, blk, Torn)
      BY <2>2, <3>1 DEF TornBlock, Spoil, blk
    <3>3. blk \in Blocks
      BY <3>1, Types DEF Sound, ClearInv, Erases
    <3>4. ~exposed => Superseded(flash, blk)
      BY <3>1 DEF Sound, ClearInv, EraseInv, SearchInv, Superseded, Erases
    <3>5. Torn \in {Blank, Torn}
      OBVIOUS
    <3> DEFINE g == Spoil(flash, blk, Torn)
    <3>6. FlashType(g) /\ FlashOK(g) /\ ~HasCopy(g, blk)
      BY <1>1, <1>2, <3>3, <3>5, Spoiled
    <3>7. \A o \in Blocks \ {blk} : g[o] = flash[o]
      BY <1>1, <1>2, <3>3, <3>5, Spoiled
    <3> HIDE DEF g
    <3>8. ~exposed => Newest(g) = Newest(flash)
      BY <1>1, <1>2, <3>3, <3>4, <3>6, <3>7, OldCopiesLost
    <3> QED
      BY <3>2, <3>6, <3>8 DEF g
  <2>3. CASE flash' \in TornPage
    <3>1. /\ pc = "write"
          /\ flash' = [flash EXCEPT ![blk][info.phy_page_addr + part] = Torn]
      BY <2>3 DEF TornPage, blk
    <3>2. blk \in Blocks \ Bad /\ BlankFrom(flash, blk, info.phy_page_addr + part)
      BY <3>1 DEF Sound, WriteInv
    <3>3. PICK c \in Copies :
            /\ info.phy_page_addr = c * page_num
            /\ \A p \in 0..(Page(c, part) - 1) : flash[blk][p].kind = "part"
      BY <3>1 DEF Sound, WriteInv, PartsUpTo
    <3>4. part \in 0..(page_num - 1)
      BY <3>1, Types
    <3>5. Page(c, part) = info.phy_page_addr + part /\ Page(c, part) \in Pages
      BY <3>3, <3>4, PageInBlock
    <3> DEFINE p == Page(c, part)
               g == [flash EXCEPT ![blk][p] = Torn]
    <3>6. BlankFrom(flash, blk, p) /\ flash' = g /\ p \in Pages
          /\ \A q \in 0..(p - 1) : flash[blk][q].kind = "part"
      BY <3>1, <3>2, <3>3, <3>5
    <3>7. g = [flash EXCEPT ![blk][p] = Torn]
      OBVIOUS
    <3> HIDE DEF g, p
    <3>8. FlashOK(g) /\ Newest(g) = Newest(flash)
      BY <1>1, <1>2, <3>2, <3>6, <3>7, TornPart
    <3> QED
      BY <3>6, <3>8
  <2> QED
    BY <1>1, <2>1, <2>2, <2>3
<1>4. OffInv'
  BY <1>1 DEF OffInv
<1> QED
  BY <1>1, <1>3, <1>4
  DEF Sound, ScanInv, ClearInv, IdleInv, ReadInv, SearchInv, EraseInv, WriteInv
-----------------------------------------------------------------------------
(***************************************************************************)
(* The theorems                                                            *)
(***************************************************************************)
LEMMA SoundInit ==
  ASSUME Init
  PROVE  Sound /\ Newest(flash) = None
<1>1. /\ flash \in [Blocks -> {Filled(Blank), Filled(Torn)}]
      /\ info = Unscanned /\ start = 0 /\ good_addr = {} /\ caller = "boot" /\ pc = "off"
      /\ saving = None /\ exposed = FALSE
  BY DEF Init
<1>2. FlashType(flash)
  BY TypesInit, Types
<1>3. \A b \in Blocks, p \in Pages : flash[b][p].kind # "part"
  BY <1>1 DEF Filled, Blank, Torn
<1>4. \A b \in Blocks : ~Named(flash, b)
  BY <1>3, FirstPages DEF Named
<1>5. \A b \in Blocks, p \in Pages : flash[b][p].kind = "torn" => flash[b] = Filled(Torn)
  BY <1>1 DEF Filled, Blank, Torn
<1>6. Orderly(flash)
  BY <1>3, <1>5 DEF Orderly
<1>7. OneSave(flash)
  <2> SUFFICES ASSUME NEW b \in Blocks, NEW c \in Copies, NEW k \in 0..(page_num - 1),
                      flash[b][Page(c, k)].kind = "part"
               PROVE  FALSE
    BY DEF OneSave
  <2>1. Page(c, k) \in Pages
    BY PageInBlock
  <2> QED
    BY <1>3, <2>1
<1>8. DistinctStamps(flash)
  BY <1>4 DEF DistinctStamps
<1>9. BadUntouched(flash)
  BY <1>1, AreaAssumption DEF BadUntouched
<1>10. FlashOK(flash)
  BY <1>6, <1>7, <1>8, <1>9 DEF FlashOK
<1>11. Newest(flash) = None
  BY <1>2, <1>4, <1>10, NothingNewest
<1> QED
  BY <1>1, <1>10, <1>11
  DEF Sound, OffInv, ScanInv, ClearInv, IdleInv, ReadInv, SearchInv, EraseInv, WriteInv

\* Until the flash fails.
LEMMA SoundStep ==
  ASSUME TInv, Sound, TimestampsFit, Next, failures' = 0
  PROVE  Sound'
<1>1. failures \in Nat
  BY AreaAssumption DEF TInv, TypeOK
<1>2. CASE ScanBlock \/ ScanValidBlock \/ Boot
  BY <1>2, ScanBlockStep, ScanValidBlockStep, BootStep
<1>3. CASE Clear
  BY <1>3, ClearStep
<1>4. CASE SearchSameBlock \/ SearchNextBlock \/ SearchEraseBlock \/ SearchFirstBlock
  BY <1>4, SearchSameStep, SearchNextStep, SearchEraseStep, SearchFirstStep
<1>5. CASE EraseNext \/ Write \/ PowerLoss
  BY <1>5, EraseStep, WriteStep, PowerLossStep
<1>6. CASE EraseFails \/ WriteFails
  <2>1. failures' = failures + 1
    BY <1>6 DEF EraseFails, WriteFails
  <2> QED
    BY <1>1, <2>1
<1>7. CASE Read \/ ReadPart \/ ReadTorn \/ ReadReturn
  BY <1>7, ReadStep, ReadPartStep, ReadTornStep, ReadReturnStep
<1>8. CASE \E v \in Values : Save(v)
  BY <1>8, SaveStep
<1> QED
  BY <1>2, <1>3, <1>4, <1>5, <1>6, <1>7, <1>8 DEF Next, Work

LEMMA FailuresStay ==
  ASSUME TInv, Next
  PROVE  failures \in Nat /\ failures' \in {failures, failures + 1}
<1>1. failures \in Nat
  BY AreaAssumption DEF TInv, TypeOK
<1>2. CASE ScanBlock \/ ScanValidBlock \/ Boot \/ SearchSameBlock \/ EraseNext \/ Read
           \/ ReadPart \/ ReadTorn \/ ReadReturn
  BY <1>1, <1>2
  DEF ScanBlock, ScanValidBlock, Boot, SearchSameBlock, EraseNext, Read, ReadPart, ReadTorn,
      ReadReturn, historyVars
<1>3. CASE SearchNextBlock \/ SearchEraseBlock \/ SearchFirstBlock \/ Write \/ PowerLoss
  BY <1>1, <1>3
  DEF SearchNextBlock, SearchEraseBlock, SearchFirstBlock, Write, PowerLoss
<1>4. CASE Clear \/ EraseFails \/ WriteFails
  BY <1>1, <1>4 DEF Clear, EraseFails, WriteFails
<1>5. CASE \E v \in Values : Save(v)
  BY <1>1, <1>5 DEF Save
<1> QED
  BY <1>1, <1>2, <1>3, <1>4, <1>5 DEF Next, Work

LEMMA SoundStutter ==
  ASSUME TInv, Sound, UNCHANGED vars
  PROVE  Sound'
<1>1. UNCHANGED <<flash, info, start, good_addr, caller, pc, saving, part, got, exposed>>
  BY DEF vars, ramVars, historyVars
<1>2. blk' = blk /\ list' = list
  BY <1>1 DEF blk, list
<1>3. OffInv' /\ ScanInv' /\ ClearInv' /\ ReadInv'
  BY <1>1, <1>2 DEF Sound, OffInv, ScanInv, ClearInv, ReadInv, Scanned
<1>4. (Listing' <=> Listing) /\ (Settled' <=> Settled) /\ (NothingSaved' <=> NothingSaved)
      /\ (Ahead' <=> Ahead) /\ (Full' <=> Full) /\ (Erases' <=> Erases)
  BY <1>1, <1>2 DEF Listing, Settled, NothingSaved, Ahead, Full, Erases
<1>5. IdleInv'
  BY <1>1, <1>2, <1>4 DEF Sound, IdleInv
<1>6. SearchInv'
  BY <1>1, <1>2, <1>4 DEF Sound, SearchInv
<1>7. EraseInv' /\ WriteInv'
  BY <1>1, <1>2, <1>4 DEF Sound, EraseInv, WriteInv
<1> QED
  BY <1>1, <1>3, <1>5, <1>6, <1>7 DEF Sound

LEMMA InvStep == IInv /\ TimestampsFit /\ [Next]_vars => IInv'
<1> SUFFICES ASSUME IInv, TimestampsFit, [Next]_vars PROVE IInv'
  OBVIOUS
<1>1. TInv /\ TInv' /\ (failures = 0 => Sound)
  BY TypesStep DEF IInv
<1>2. CASE UNCHANGED vars
  <2>1. failures' = failures
    BY <1>2 DEF vars, historyVars
  <2> QED
    BY <1>1, <1>2, <2>1, SoundStutter DEF IInv
<1>3. CASE Next
  <2>1. failures' = 0 => failures = 0
    BY <1>1, <1>3, FailuresStay
  <2> QED
    BY <1>1, <1>3, <2>1, SoundStep DEF IInv
<1> QED
  BY <1>2, <1>3

LEMMA InvInit == Init => IInv
BY TypesInit, SoundInit DEF IInv

\* The invariant holds as long as no block gets a timestamp that does not fit.
LEMMA InvHolds == Spec /\ []TimestampsFit => []IInv
BY InvInit, InvStep, PTL DEF Spec

LEMMA SoundOf ==
  ASSUME IInv, failures = 0
  PROVE  TInv /\ Sound /\ FlashOK(flash) /\ FlashType(flash)
<1>1. TInv /\ Sound
  BY DEF IInv
<1> QED
  BY <1>1, Types DEF Sound

\* The scan settles on the newest whole copy, wherever and however often the
\* power was lost.
THEOREM AreaScanFindsNewest == Spec /\ []TimestampsFit => []RestartFindsNewest
<1>1. IInv => RestartFindsNewest
  <2> DEFINE r == SecondStage(flash, info, good_addr)
             place == <<r.info.phy_blk_addr, r.info.phy_page_addr \div page_num>>
  <2> SUFFICES ASSUME IInv, pc = "scan", start = end_block, failures = 0,
                      r.ret = "ok" \/ (r.ret = "bad" /\ r.info.valid)
               PROVE  place \in Whole(flash) /\ First(flash, place).value = Newest(flash)
    BY DEF RestartFindsNewest
  <2>1. TInv /\ Sound /\ FlashOK(flash) /\ FlashType(flash) /\ Scanned(end_block)
    BY SoundOf DEF Sound, ScanInv
  <2>2. info \in InfoType /\ (info.valid => blk \in Blocks)
    BY <2>1, Types
  <2>3. SameBlock(info, r.info) /\ (~info.valid => r.info = info /\ r.ret = "bad")
    BY <2>2, SecondStageTypes DEF blk
  <2>4. info.valid /\ r.ret # "retry"
    BY <2>3
  <2>5. /\ ~info.status /\ good_addr \subseteq 0..(page_num - 2) /\ blk \in Blocks
        /\ Best(flash, end_block, blk, info.timestamp)
    BY <2>1, <2>2, <2>4 DEF Scanned
  <2>6. Named(flash, blk) /\ OthersOlder(flash, blk, Stamp(flash, blk))
    BY <2>5, Parameters DEF Best, OthersOlder, Blocks
  <2>7. AtLastCopy(flash, r.info)
    BY <2>1, <2>2, <2>4, <2>5, <2>6, SecondStageFinds DEF blk
  <2>8. r.info.phy_blk_addr = blk
    BY <2>3 DEF SameBlock, blk
  <2> HIDE DEF r
  <2>9. PICK c \in Copies :
          /\ r.info.phy_page_addr = c * page_num /\ <<blk, c>> \in Whole(flash)
          /\ \A d \in Copies : <<blk, d>> \in Whole(flash) => d <= c
    BY <2>7, <2>8 DEF AtLastCopy
  <2>10. c \in Nat
    BY FirstPages, PageInBlock
  <2>11. place = <<blk, c>>
    BY <2>8, <2>9, <2>10, CopyOfPage
  <2>12. Newest(flash) = First(flash, <<blk, c>>).value
    BY <2>1, <2>5, <2>6, <2>9, LastCopyNewest
  <2> QED
    BY <2>9, <2>11, <2>12
<1> QED
  BY <1>1, InvHolds, PTL

\* A page that is written is blank: neither a torn page nor one that holds a
\* part is ever programmed a second time.
THEOREM AreaProgramsBlankPages == Spec /\ []TimestampsFit => []ProgramsBlankPages
<1>1. IInv => ProgramsBlankPages
  <2> SUFFICES ASSUME IInv, pc = "write", failures = 0
               PROVE  flash[info.phy_blk_addr][info.phy_page_addr + part] = Blank
    BY DEF ProgramsBlankPages
  <2>1. TInv /\ Sound /\ FlashType(flash)
    BY SoundOf
  <2>2. blk \in Blocks /\ BlankFrom(flash, blk, info.phy_page_addr + part)
    BY <2>1 DEF Sound, WriteInv
  <2>3. PICK c \in Copies : info.phy_page_addr = c * page_num
    BY <2>1 DEF Sound, WriteInv
  <2>4. part \in 0..(page_num - 1)
    BY <2>1, Types
  <2> DEFINE p == info.phy_page_addr + part
  <2>5. p \in Pages
    BY <2>3, <2>4, PageInBlock
  <2>6. p >= p
    BY <2>5 DEF Pages
  <2> HIDE DEF p
  <2>7. flash[blk][p].kind = "blank"
    BY <2>2, <2>5, <2>6 DEF BlankFrom, p
  <2> QED
    BY <2>1, <2>2, <2>5, <2>7, PageKinds DEF blk, p
<1> QED
  BY <1>1, InvHolds, PTL

\* No block is lost to the area, listed twice or given out while it is valid.
THEOREM AreaBlocksAccounted == Spec /\ []TimestampsFit => []BlocksAccounted
<1>1. IInv => BlocksAccounted
  BY SoundOf DEF Sound, IdleInv, Listing, BlocksAccounted, blk, list
<1> QED
  BY <1>1, InvHolds, PTL

\* What a read has put into its buffer is the newest copy.
THEOREM AreaReadsCurrent == Spec /\ []TimestampsFit => []ReadsCurrent
<1>1. IInv => ReadsCurrent
  BY SoundOf DEF Sound, ReadInv, ReadsCurrent
<1> QED
  BY <1>1, InvHolds, PTL

(***************************************************************************)
(* The area is an atomic register                                          *)
(***************************************************************************)
\* What a step of the area is to its users while a save is at risk or the flash
\* has failed, and when it fails.
LEMMA RiskyStep ==
  ASSUME TInv, TInv', Next, exposed \/ failures > 0 \/ failures' > 0
  PROVE  [Register!Next]_(Register!vars)
<1>1. Newest(flash') \in Values \cup {None}
  BY NewestType DEF TInv, TypeOK, FlashType
<1>2. saving' \in Values \cup {None} /\ returned' \in Values \cup {None}
  BY DEF TInv, TypeOK
<1>3. failures \in Nat /\ failures' \in {failures, failures + 1}
  BY FailuresStay
<1>4. CASE exposed \/ failures > 0
  <2>1. (exposed' \/ failures' > 0) \in BOOLEAN
    OBVIOUS
  <2>2. Register!Lose
    BY <1>1, <1>2, <1>4, <2>1 DEF Register!Lose
  <2> QED
    BY <2>2 DEF Register!Next
<1>5. CASE ~(exposed \/ failures > 0)
  <2>1. failures' = failures + 1 /\ failures' > 0
    BY <1>3, <1>5
  <2>2. Clear \/ EraseFails \/ WriteFails
    <3>1. ~(ScanBlock \/ ScanValidBlock \/ Boot \/ SearchSameBlock \/ EraseNext \/ Read
            \/ ReadPart \/ ReadTorn \/ ReadReturn)
      BY <1>3, <2>1
      DEF ScanBlock, ScanValidBlock, Boot, SearchSameBlock, EraseNext, Read, ReadPart, ReadTorn,
          ReadReturn, historyVars
    <3>2. ~(SearchNextBlock \/ SearchEraseBlock \/ SearchFirstBlock \/ Write \/ PowerLoss)
      BY <1>3, <2>1
      DEF SearchNextBlock, SearchEraseBlock, SearchFirstBlock, Write, PowerLoss
    <3>3. ~(\E v \in Values : Save(v))
      BY <1>3, <2>1 DEF Save
    <3> QED
      BY <3>1, <3>2, <3>3 DEF Next, Work
  <2>3. saving' \in {saving, None} /\ returned' = returned
    BY <2>2 DEF Clear, EraseFails, WriteFails, GiveUp
  <2>4. (exposed' \/ failures' > 0) = TRUE
    BY <2>1
  <2>5. Register!Fail
    BY <1>1, <2>3, <2>4 DEF Register!Fail
  <2> QED
    BY <2>5 DEF Register!Next
<1> QED
  BY <1>4, <1>5

\* The others change the register when a save begins, with its last part, and
\* when the save ends.
LEMMA SafeStep ==
  ASSUME IInv, IInv', TimestampsFit, Next, ~exposed, failures = 0, failures' = 0
  PROVE  [Register!Next]_(Register!vars)
<1>1. TInv /\ Sound /\ TInv'
  BY SoundOf DEF IInv
<1>2. exposed' \in BOOLEAN /\ (exposed \/ failures > 0) = FALSE
      /\ (exposed' \/ failures' > 0) = exposed'
  BY <1>1 DEF TInv, TypeOK
<1>3. ASSUME Newest(flash') = Newest(flash), saving' = saving, returned' = returned,
             exposed' = exposed
      PROVE  UNCHANGED Register!vars
  BY <1>2, <1>3 DEF Register!vars
<1>4. ASSUME Newest(flash') = Newest(flash), saving' = None, returned' = returned,
             exposed' = FALSE
      PROVE  Register!Next
  <2>1. (exposed' \/ failures' > 0) = FALSE
    BY <1>2, <1>4
  <2>2. Register!Abandon
    BY <1>4, <2>1 DEF Register!Abandon
  <2> QED
    BY <2>2 DEF Register!Next
<1>5. CASE ScanBlock \/ ScanValidBlock \/ Boot \/ Read \/ ReadPart \/ ReadTorn \/ ReadReturn
           \/ SearchSameBlock
  BY <1>3, <1>5
  DEF ScanBlock, ScanValidBlock, Boot, Read, ReadPart, ReadTorn, ReadReturn, SearchSameBlock,
      historyVars
<1>6. CASE Clear
  <2>1. Newest(flash') = Newest(flash)
    BY <1>1, <1>6, ClearStep
  <2> QED
    BY <1>3, <1>6, <2>1 DEF Clear
<1>7. CASE SearchNextBlock \/ SearchFirstBlock
  <2>1. flash' = flash /\ returned' = returned
    BY <1>7 DEF SearchNextBlock, SearchFirstBlock
  <2>2. (saving' = saving /\ exposed' = exposed) \/ (saving' = None /\ exposed' = FALSE)
    BY <1>7 DEF SearchNextBlock, SearchFirstBlock, LeaveBlock, EnterBlock, GiveUp
  <2> QED
    BY <1>3, <1>4, <2>1, <2>2
<1>8. CASE SearchEraseBlock
  BY <1>1, <1>8, SearchEraseStep
<1>9. CASE EraseNext
  <2>1. Newest(flash') = Newest(flash)
    BY <1>1, <1>9, EraseStep
  <2> QED
    BY <1>3, <1>9, <2>1 DEF EraseNext, historyVars
<1>10. CASE EraseFails \/ WriteFails
  BY <1>10 DEF EraseFails, WriteFails
<1>11. CASE Write
  <2>1. CASE part + 1 < page_num
    <3>1. Newest(flash') = Newest(flash)
      BY <1>1, <1>11, <2>1, WriteStep
    <3> QED
      BY <1>3, <1>11, <2>1, <3>1 DEF Write
  <2>2. CASE ~(part + 1 < page_num)
    <3>1. Newest(flash') = saving
      BY <1>1, <1>11, <2>2, WriteStep
    <3>2. saving \in Values /\ saving # None
      BY <1>1, <1>11, Types, FlashAssumption DEF Write
    <3>3. saving' = None /\ returned' = saving /\ exposed' = FALSE
      BY <1>11, <2>2 DEF Write, GiveUp
    <3>4. (exposed' \/ failures' > 0) = FALSE
      BY <1>2, <3>3
    <3>5. Register!Commit
      BY <3>1, <3>2, <3>3, <3>4 DEF Register!Commit
    <3> QED
      BY <3>5 DEF Register!Next
  <2> QED
    BY <2>1, <2>2
<1>12. CASE PowerLoss
  <2>1. Newest(flash') = Newest(flash)
    BY <1>1, <1>12, PowerLossStep
  <2> QED
    BY <1>4, <1>12, <2>1 DEF PowerLoss
<1>13. CASE \E v \in Values : Save(v)
  <2>1. PICK v \in Values : Save(v)
    BY <1>13
  <2>2. saving = None
    BY <1>1, <2>1 DEF Save, Sound, IdleInv
  <2>3. saving' = v /\ flash' = flash /\ returned' = returned
    BY <2>1 DEF Save
  <2>4. (exposed' \/ failures' > 0) \in {exposed \/ failures > 0, TRUE}
    BY <1>2
  <2>5. Register!Begin(v)
    BY <2>2, <2>3, <2>4 DEF Register!Begin
  <2> QED
    BY <2>1, <2>5 DEF Register!Next
<1> QED
  BY <1>5, <1>6, <1>7, <1>8, <1>9, <1>10, <1>11, <1>12, <1>13 DEF Next, Work

LEMMA RegisterStep ==
  IInv /\ IInv' /\ TimestampsFit /\ [Next]_vars => [Register!Next]_(Register!vars)
<1> SUFFICES ASSUME IInv, IInv', TimestampsFit, [Next]_vars
             PROVE  [Register!Next]_(Register!vars)
  OBVIOUS
<1>1. CASE UNCHANGED vars
  BY <1>1 DEF vars, ramVars, historyVars, Register!vars
<1>2. CASE Next
  <2>1. TInv /\ TInv' /\ failures \in Nat /\ failures' \in Nat
    BY <1>2, FailuresStay DEF IInv
  <2> QED
    BY <1>2, <2>1, RiskyStep, SafeStep
<1> QED
  BY <1>1, <1>2

\* The area is an atomic register: each save takes effect in one step, its last
\* page, or not at all, whenever and however often the power is lost.
THEOREM AreaImplementsRegister == Spec /\ []TimestampsFit => ImplementsRegister
<1>1. Init => Register!Init
  <2> SUFFICES ASSUME Init PROVE Register!Init
    OBVIOUS
  <2>1. saving = None /\ returned = None /\ exposed = FALSE /\ failures = 0
    BY DEF Init
  <2>2. Newest(flash) = None
    BY SoundInit
  <2>3. (exposed \/ failures > 0) = FALSE
    BY <2>1
  <2> QED
    BY <2>1, <2>2, <2>3 DEF Register!Init
<1> QED
  BY <1>1, InvHolds, RegisterStep, PTL DEF Spec, ImplementsRegister, Register!Spec

(***************************************************************************)
(* The timestamps fit                                                      *)
(***************************************************************************)
\* What the timestamps stay below: a save begins below MaxTimestamp and takes
\* the next timestamp for each bad block it meets, at most once around the list.
Most == MaxTimestamp + Nodes - 1

OnlyGoodWritten(f) ==
  \A b \in Blocks, p \in Pages :
    f[b][p].timestamp <= Most /\ (f[b][p].kind = "part" => b \notin Bad)

\* A search that goes through the list, and then comes back to the block it is
\* leaving, meets a good block before the timestamps are used up.
Turn(l, b, t) == \E i \in 1..(Len(l) + 1) : Append(l, b)[i] \notin Bad /\ t + i <= Most

Searches ==
  pc = "search" =>
    /\ info.valid /\ ~NoFreeNode(info) => Turn(list, blk, info.timestamp)
    /\ info.valid /\ blk \in Bad => Full /\ ~NoFreeNode(info)
    /\ ~info.valid => info.timestamp + Len(list) <= Most

StampsInv ==
  /\ TInv /\ info.timestamp <= Most /\ OnlyGoodWritten(flash)
  /\ pc \notin {"search", "oops", "stuck"} => blk \notin Bad
  /\ Searches

LEMMA MostIs == Most \in Nat /\ MaxTimestamp \in Nat /\ Nodes \in Nat /\ -1 \notin Bad
BY FlashAssumption, AreaAssumption DEF Most, Blocks

LEMMA StillOnlyGood ==
  ASSUME NEW f, FlashType(f), OnlyGoodWritten(f), NEW b \in Blocks, NEW q, NEW x,
         x.timestamp <= Most, x.kind = "part" => b \notin Bad
  PROVE  /\ OnlyGoodWritten([f EXCEPT ![b] = Filled(x)])
         /\ OnlyGoodWritten([f EXCEPT ![b][q] = x])
<1>1. ASSUME NEW o \in Blocks, NEW p \in Pages
      PROVE  /\ [f EXCEPT ![b] = Filled(x)][o][p] = IF o = b THEN x ELSE f[o][p]
             /\ [f EXCEPT ![b][q] = x][o][p] = IF o = b /\ p = q THEN x ELSE f[o][p]
  BY DEF FlashType, Filled
<1> QED
  BY <1>1 DEF OnlyGoodWritten

LEMMA Plain ==
  /\ Blank.timestamp <= Most /\ Blank.kind # "part"
  /\ Torn.timestamp <= Most /\ Torn.kind # "part"
BY MostIs DEF Blank, Torn

\* The good block comes one step nearer when the search meets a bad one.
LEMMA TurnOn ==
  ASSUME NEW l \in Seq(Blocks), NEW b \in Blocks, NEW t \in Nat, Turn(l, b, t)
  PROVE  /\ t + 1 <= Most
         /\ Head(Append(l, b)) \in Bad =>
              Turn(Tail(Append(l, b)), Head(Append(l, b)), t + 1)
<1> DEFINE a == Append(l, b)
           z == Append(Tail(a), Head(a))
<1>1. a \in Seq(Blocks) /\ Len(a) = Len(l) + 1 /\ Len(l) \in Nat /\ a # <<>>
  OBVIOUS
<1>2. PICK i \in 1..(Len(l) + 1) : a[i] \notin Bad /\ t + i <= Most
  BY DEF Turn
<1> HIDE DEF a
<1>3. t + 1 <= Most
  BY <1>1, <1>2, MostIs
<1>4. ASSUME Head(a) \in Bad
      PROVE  Turn(Tail(a), Head(a), t + 1)
  <2>1. Head(a) = a[1] /\ Tail(a) \in Seq(Blocks) /\ Len(Tail(a)) = Len(l) /\ Head(a) \in Blocks
    BY <1>1
  <2>2. i # 1
    BY <1>2, <1>4, <2>1
  <2>3. i - 1 \in 1..Len(Tail(a))
    BY <1>1, <1>2, <2>1, <2>2
  <2>4. Tail(a)[i - 1] = a[i]
    BY <1>1, <2>1, <2>3
  <2>5. z[i - 1] = a[i]
    BY <2>1, <2>3, <2>4
  <2>6. i - 1 \in 1..(Len(Tail(a)) + 1) /\ (t + 1) + (i - 1) <= Most
    BY <1>1, <1>2, <2>1, <2>3, MostIs
  <2> QED
    BY <1>2, <2>5, <2>6 DEF Turn
<1> QED
  BY <1>3, <1>4 DEF a

\* The block that is entered.
LEMMA EnterStamps ==
  ASSUME NEW i \in InfoType, NEW l \in Seq(Blocks), l # <<>>, EnterBlock(i, l),
         i.timestamp + 1 <= Most,
         i.valid => Len(l) - 1 < Nodes,
         i.valid /\ Head(l) \in Bad => Turn(Tail(l), Head(l), i.timestamp + 1),
         ~i.valid => i.timestamp + Len(l) <= Most
  PROVE  /\ info'.timestamp <= Most
         /\ (pc \notin {"search", "oops", "stuck"} => blk \notin Bad)'
         /\ Searches'
<1>1. /\ info' \in InfoType /\ info'.valid = i.valid /\ info'.phy_blk_addr = Head(l)
      /\ info'.timestamp = i.timestamp + 1 /\ info'.free_node = Tail(l)
      /\ Len(info'.free_node) = Len(l) - 1
      /\ Head(l) \in Bad => pc' = "search" /\ info'.phy_page_addr = pages_per_blk - page_num
      /\ Head(l) \notin Bad => pc' = "erase"
  BY EnterBlockIs
<1>2. i.timestamp \in Nat /\ Len(l) \in Nat /\ Nodes \in Nat
  BY MostIs DEF InfoType
<1>3. CASE Head(l) \notin Bad
  BY <1>1, <1>3 DEF Searches, blk
<1>4. CASE Head(l) \in Bad
  <2>1. Full'
    BY <1>1, <1>4, Parameters DEF Full
  <2>2. i.valid => ~NoFreeNode(info')
    BY <1>1, <1>2 DEF NoFreeNode
  <2>3. ~i.valid => info'.timestamp + Len(info'.free_node) <= Most
    BY <1>1, <1>2, MostIs
  <2>4. Searches'
    BY <1>1, <1>4, <2>1, <2>2, <2>3 DEF Searches, blk, list
  <2> QED
    BY <1>1, <1>4, <2>4
<1> QED
  BY <1>3, <1>4

LEMMA StampsSearch ==
  ASSUME StampsInv, SearchNextBlock \/ SearchEraseBlock
  PROVE  StampsInv'
<1>1. /\ TInv /\ pc = "search" /\ info.valid /\ Full /\ LeaveBlock(PageAfter)
      /\ flash' \in {flash, Erased(blk)} /\ Searches
  <2>1. pages_per_blk \in Nat /\ page_num \in Nat \ {0}
    BY Parameters
  <2> QED
    BY <2>1 DEF StampsInv, SearchNextBlock, SearchEraseBlock, Erases, Full, blk
<1>2. /\ info \in InfoType /\ blk \in Blocks /\ FlashType(flash) /\ Len(list) \in Nat
      /\ info.timestamp \in Nat /\ list \in Seq(Blocks) /\ OnlyGoodWritten(flash)
      /\ info.timestamp <= Most
  <2>1. /\ info \in InfoType /\ blk \in Blocks /\ FlashType(flash) /\ Len(list) \in Nat
        /\ info.timestamp \in Nat /\ list \in Seq(Blocks)
    BY <1>1, Types
  <2> QED
    BY <2>1 DEF StampsInv
<1>3. OnlyGoodWritten(flash')
  <2>1. OnlyGoodWritten([flash EXCEPT ![blk] = Filled(Blank)])
    BY <1>2, Plain, StillOnlyGood
  <2> QED
    BY <1>1, <1>2, <2>1 DEF Erased
<1> DEFINE i == PageAfter
<1>4. /\ i \in InfoType /\ i.valid /\ i.phy_blk_addr = blk /\ i.timestamp = info.timestamp
      /\ i.free_node = list
  BY <1>1, <1>2, PageAfterIs DEF blk, list
<1>5. TInv'
  BY <1>1, TypesStep DEF StampsInv, Next, Work
<1> HIDE DEF i
<1>6. CASE NoFreeNode(i) /\ info' = i /\ GiveUp
  <2>1. blk \notin Bad
    BY <1>1, <1>4, <1>6 DEF Searches, NoFreeNode, list
  <2> QED
    BY <1>2, <1>3, <1>4, <1>5, <1>6, <2>1 DEF StampsInv, Searches, GiveUp, blk
<1>7. CASE ~NoFreeNode(i) /\ pc' = "oops" /\ info' = i
  BY <1>2, <1>3, <1>4, <1>5, <1>7 DEF StampsInv, Searches
<1>8. CASE ~NoFreeNode(i) /\ EnterBlock(i, Append(list, blk))
  <2> DEFINE l == Append(list, blk)
  <2>1. l \in Seq(Blocks) /\ l # <<>> /\ Len(l) = Len(list) + 1
    BY <1>2
  <2>2. Len(list) < Nodes
    BY <1>2, <1>4, <1>8, MostIs DEF NoFreeNode
  <2>3. Turn(list, blk, info.timestamp)
    BY <1>1, <1>4, <1>8 DEF Searches, NoFreeNode, list
  <2>4. /\ info.timestamp + 1 <= Most
        /\ Head(l) \in Bad => Turn(Tail(l), Head(l), info.timestamp + 1)
    BY <1>2, <2>3, TurnOn
  <2>5. EnterBlock(i, l)
    BY <1>8
  <2> HIDE DEF l
  <2>6. Len(l) - 1 < Nodes
    BY <1>2, <2>1, <2>2
  <2>7. /\ info'.timestamp <= Most /\ Searches'
        /\ (pc \notin {"search", "oops", "stuck"} => blk \notin Bad)'
    BY <1>4, <2>1, <2>4, <2>5, <2>6, EnterStamps
  <2> QED
    BY <1>3, <1>5, <2>7 DEF StampsInv
<1>9. LeaveBlock(i) /\ i.phy_blk_addr \in Blocks
  BY <1>1, <1>2, <1>4 DEF i
<1> QED
  BY <1>4, <1>6, <1>7, <1>8, <1>9, LeaveBlockIs

LEMMA StampsFirst ==
  ASSUME StampsInv, SearchFirstBlock
  PROVE  StampsInv'
<1>1. TInv /\ pc = "search" /\ ~info.valid /\ flash' = flash /\ Searches
      /\ OnlyGoodWritten(flash) /\ info.timestamp <= Most
  BY DEF StampsInv, SearchFirstBlock
<1>2. info \in InfoType /\ list \in Seq(Blocks) /\ Len(list) \in Nat /\ info.timestamp \in Nat
  BY <1>1 DEF TInv, TypeOK, InfoType, list
<1>3. TInv'
  BY <1>1, TypesStep DEF Next, Work
<1>4. CASE list = <<>>
  BY <1>1, <1>3, <1>4 DEF StampsInv, Searches, SearchFirstBlock, list
<1>5. CASE list # <<>>
  <2>1. EnterBlock(info, list)
    BY <1>5 DEF SearchFirstBlock, list
  <2>2. info.timestamp + Len(list) <= Most
    BY <1>1 DEF Searches
  <2>3. Len(list) # 0
    BY <1>2, <1>5
  <2>4. info.timestamp + 1 <= Most
    BY <1>2, <2>2, <2>3, MostIs
  <2>5. /\ info'.timestamp <= Most /\ Searches'
        /\ (pc \notin {"search", "oops", "stuck"} => blk \notin Bad)'
    BY <1>1, <1>2, <1>5, <2>1, <2>2, <2>4, EnterStamps
  <2> QED
    BY <1>1, <1>3, <2>5 DEF StampsInv
<1> QED
  BY <1>4, <1>5

\* A save begins below MaxTimestamp and with a good block, if with any.
LEMMA StampsSave ==
  ASSUME StampsInv, NEW v \in Values, Save(v)
  PROVE  StampsInv'
<1>1. /\ TInv /\ pc = "idle" /\ pc' = "search" /\ info.timestamp < MaxTimestamp
      /\ info' = [info EXCEPT !.phy_page_addr = StartPage] /\ flash' = flash
      /\ OnlyGoodWritten(flash) /\ blk \notin Bad
  BY DEF StampsInv, Save, Bounded
<1>2. /\ info \in InfoType /\ list \in Seq(Blocks) /\ Len(list) \in Nat /\ info.timestamp \in Nat
      /\ Len(list) <= Nodes /\ (info.valid => blk \in Blocks)
  BY <1>1 DEF TInv, TypeOK, InHand, InfoType, list, blk
<1>3. /\ info'.valid = info.valid /\ blk' = blk /\ info'.timestamp = info.timestamp
      /\ list' = list
  BY <1>1, <1>2 DEF InfoType, blk, list
<1>4. TInv'
  BY <1>1, TypesStep DEF Next
<1>5. info.timestamp <= Most /\ info.timestamp + Len(list) <= Most
  BY <1>1, <1>2, MostIs DEF Most
<1>6. ASSUME info.valid, ~NoFreeNode(info') PROVE Turn(list, blk, info.timestamp)
  <2>1. Len(list) < Nodes
    BY <1>2, <1>3, <1>6, MostIs DEF NoFreeNode, list
  <2> DEFINE n == Len(list) + 1
  <2>2. Append(list, blk)[n] = blk /\ n \in 1..(Len(list) + 1)
    BY <1>2, <1>6
  <2>3. info.timestamp + n <= Most
    BY <1>1, <1>2, <2>1, MostIs DEF Most
  <2> QED
    BY <1>1, <2>2, <2>3 DEF Turn
<1>7. Searches'
  BY <1>1, <1>3, <1>5, <1>6 DEF Searches
<1> QED
  BY <1>1, <1>3, <1>4, <1>5, <1>7 DEF StampsInv

LEMMA StampsScan ==
  ASSUME StampsInv, ScanBlock \/ ScanValidBlock
  PROVE  StampsInv'
<1>1. /\ TInv /\ pc = "scan" /\ flash' = flash /\ OnlyGoodWritten(flash) /\ blk \notin Bad
      /\ info.timestamp <= Most
  BY DEF StampsInv, ScanBlock, ScanValidBlock
<1>2. /\ info \in InfoType /\ FlashType(flash) /\ (info.valid => blk \in Blocks)
      /\ start \in 0..end_block
  BY <1>1, Types DEF TInv, TypeOK
<1>3. TInv'
  BY <1>1, TypesStep DEF Next, Work
<1>4. \A ret : ScanReturns(ret) => pc' \notin {"search", "oops", "stuck"}
  BY DEF ScanReturns
<1>5. ASSUME info'.timestamp <= Most, info'.phy_blk_addr \notin Bad,
             pc' \notin {"search", "oops", "stuck"}
      PROVE  StampsInv'
  BY <1>1, <1>3, <1>5 DEF StampsInv, Searches, blk
<1>6. CASE ScanBlock /\ Probed(flash, start) = {}
  <2>1. info' = info /\ pc' = pc
    BY <1>6 DEF ScanBlock
  <2> QED
    BY <1>1, <1>5, <2>1 DEF blk
<1>7. CASE ScanBlock /\ Probed(flash, start) # {}
  <2> DEFINE page == Probe(flash, start)
             r == FirstStage(info, start, page)
  <2>1. start \in Blocks
    BY <1>2, <1>7, Parameters DEF ScanBlock, Blocks
  <2>2. PICK p \in Pages : page = flash[start][p]
    <3>1. Probed(flash, start) \in SUBSET Copies /\ Probed(flash, start) \in SUBSET Nat
      BY FirstPages, PageInBlock DEF Probed
    <3>2. Min(Probed(flash, start)) \in Copies
      BY <1>7, <3>1, Smallest
    <3> QED
      BY <3>2, LastPart DEF Probe
  <2>3. page.timestamp <= Most /\ (page.kind = "part" => start \notin Bad /\ page.timestamp \in Nat)
    BY <1>1, <1>2, <2>1, <2>2, PageKinds DEF OnlyGoodWritten
  <2> HIDE DEF page
  <2>4. /\ info' = r.info
        /\ ScanReturns("nomem") \/ pc' = pc
    BY <1>7 DEF ScanBlock, page
  <2>5. pc' \notin {"search", "oops", "stuck"}
    BY <1>1, <1>4, <2>4
  <2>6. r.info.timestamp <= Most /\ r.info.phy_blk_addr \notin Bad
    <3> DEFINE named == page.kind = "part"
               chosen == Chosen(info, start, page.timestamp)
               seen == Seen(info, named)
    <3>1. named \in BOOLEAN
      OBVIOUS
    <3>2. /\ seen \in InfoType /\ seen.timestamp = info.timestamp
          /\ seen.phy_blk_addr = info.phy_blk_addr
      BY <1>2, <3>1, SeenIs
    <3>3. named => /\ chosen \in InfoType /\ chosen.timestamp = page.timestamp
                   /\ chosen.phy_blk_addr = start
      BY <1>2, <2>1, <2>3, ChosenIs
    <3>4. info.phy_blk_addr < 0 \/ info.phy_blk_addr \in Blocks
      BY <1>2 DEF InfoType
    <3>5. \/ named /\ r.info \in {chosen, Listed(chosen, info.phy_blk_addr)}
          \/ r.info \in {seen, Listed(seen, start)}
      <4> HIDE DEF chosen, seen
      <4> QED
        BY <1>2, FirstStageIs DEF chosen, seen
    <3>6. \A j \in InfoType : \A b : /\ Listed(j, b).timestamp = j.timestamp
                                     /\ Listed(j, b).phy_blk_addr = j.phy_blk_addr
      BY DEF Listed, InfoType
    <3> HIDE DEF chosen, seen, r, named
    <3>7. CASE r.info \in {seen, Listed(seen, start)}
      BY <1>1, <3>2, <3>6, <3>7 DEF blk
    <3>8. CASE named /\ r.info \in {chosen, Listed(chosen, info.phy_blk_addr)}
      BY <2>3, <3>3, <3>6, <3>8 DEF named
    <3> QED
      BY <3>5, <3>7, <3>8
  <2> QED
    BY <1>5, <2>4, <2>5, <2>6
<1>8. CASE ScanValidBlock
  <2> DEFINE r == SecondStage(flash, info, good_addr)
  <2>1. info' = r.info /\ (ScanReturns(r.ret) \/ pc' = "clear")
    BY <1>8 DEF ScanValidBlock
  <2>2. SameBlock(info, r.info)
    BY <1>2, SecondStageTypes DEF blk
  <2> HIDE DEF r
  <2>3. pc' \notin {"search", "oops", "stuck"}
    BY <1>4, <2>1
  <2> QED
    BY <1>1, <1>5, <2>1, <2>2, <2>3 DEF SameBlock, blk
<1> QED
  BY <1>6, <1>7, <1>8

\* The steps that write or erase pages.
LEMMA StampsFlash ==
  ASSUME StampsInv, Clear \/ EraseNext \/ EraseFails \/ Write \/ WriteFails \/ PowerLoss
  PROVE  StampsInv'
<1>1. /\ TInv /\ OnlyGoodWritten(flash) /\ info.timestamp <= Most
      /\ pc \notin {"search", "oops", "stuck"} => blk \notin Bad
  BY DEF StampsInv
<1>2. /\ info \in InfoType /\ FlashType(flash) /\ (info.valid => blk \in Blocks)
      /\ (pc = "clear" => info.valid) /\ (pc \in {"erase", "write"} => blk \in Blocks)
      /\ info.timestamp \in Nat
  BY <1>1, Types DEF TInv, InHand, InfoType
<1>3. TInv'
  BY <1>1, TypesStep DEF Next, Work
<1>4. \A b \in Blocks : \A q, x :
        x.timestamp <= Most /\ (x.kind = "part" => b \notin Bad) =>
          /\ OnlyGoodWritten([flash EXCEPT ![b] = Filled(x)])
          /\ OnlyGoodWritten([flash EXCEPT ![b][q] = x])
  BY <1>1, <1>2, StillOnlyGood
<1>5. ASSUME NEW b \in Blocks, NEW q
      PROVE  /\ OnlyGoodWritten([flash EXCEPT ![b] = Filled(Blank)])
             /\ OnlyGoodWritten([flash EXCEPT ![b] = Filled(Torn)])
             /\ OnlyGoodWritten([flash EXCEPT ![b][q] = Torn])
  BY <1>4, Plain
<1>6. CASE Clear
  <2>1. blk \in Blocks /\ info' = Unscanned /\ pc' = "scan"
    BY <1>2, <1>6 DEF Clear
  <2>2. OnlyGoodWritten(flash')
    BY <1>1, <1>5, <1>6, <2>1 DEF Clear, Erased, blk
  <2> QED
    BY <1>3, <2>1, <2>2, UnscannedIs, MostIs DEF StampsInv, Searches, blk
<1>7. CASE EraseNext
  <2>1. blk \in Blocks /\ blk \notin Bad /\ info' = info /\ pc' = "write"
    BY <1>1, <1>2, <1>7 DEF EraseNext
  <2>2. OnlyGoodWritten(flash')
    BY <1>5, <1>7, <2>1 DEF EraseNext, Erased, blk
  <2> QED
    BY <1>1, <1>3, <2>1, <2>2 DEF StampsInv, Searches, blk
<1>8. CASE EraseFails
  <2>1. blk \in Blocks /\ info' = info /\ pc' = "stuck"
    BY <1>1, <1>2, <1>8 DEF EraseFails, Erases
  <2>2. flash' \in {flash, [flash EXCEPT ![blk] = Filled(Torn)]}
    <3>1. [flash EXCEPT ![blk] = flash[blk]] = flash
      BY <1>2 DEF FlashType
    <3> QED
      BY <1>8, <3>1 DEF EraseFails, blk
  <2>3. OnlyGoodWritten(flash')
    BY <1>1, <1>5, <2>1, <2>2
  <2> QED
    BY <1>1, <1>3, <2>1, <2>3 DEF StampsInv, Searches
<1>9. CASE Write
  <2> DEFINE x == Part(info.timestamp, saving)
             q == info.phy_page_addr + part
  <2>1. blk \in Blocks /\ blk \notin Bad /\ flash' = [flash EXCEPT ![blk][q] = x]
    BY <1>1, <1>2, <1>9 DEF Write, blk
  <2>2. info.timestamp % Timestamps <= Most
    BY <1>1, <1>2, MostIs, FlashAssumption
  <2>3. x.timestamp <= Most
    BY <2>2 DEF Part
  <2> HIDE DEF x, q
  <2>4. OnlyGoodWritten(flash')
    BY <1>4, <2>1, <2>3
  <2>5. info'.timestamp = info.timestamp /\ blk' = blk /\ pc' \in {"write", "idle"}
    BY <1>2, <1>9 DEF Write, GiveUp, InfoType, blk
  <2> QED
    BY <1>1, <1>3, <2>1, <2>4, <2>5 DEF StampsInv, Searches
<1>10. CASE WriteFails
  <2> DEFINE q == info.phy_page_addr + part
  <2>1. blk \in Blocks /\ blk \notin Bad /\ info' = info /\ pc' = "idle"
    BY <1>1, <1>2, <1>10 DEF WriteFails, GiveUp
  <2>2. flash' \in {flash, [flash EXCEPT ![blk][q] = Torn]}
    <3>1. [flash EXCEPT ![blk][q] = flash[blk][q]] = flash
      BY <1>2 DEF FlashType
    <3> QED
      BY <1>10, <3>1 DEF WriteFails, blk
  <2>3. OnlyGoodWritten(flash')
    BY <1>1, <1>5, <2>1, <2>2
  <2> QED
    BY <1>1, <1>3, <2>1, <2>3 DEF StampsInv, Searches, blk
<1>11. CASE PowerLoss
  <2>1. info' = Unscanned /\ pc' = "off" /\ flash' \in {flash} \cup TornBlock \cup TornPage
    BY <1>11 DEF PowerLoss
  <2>2. CASE flash' \in TornBlock
    <3>1. blk \in Blocks /\ flash' = [flash EXCEPT ![blk] = Filled(Torn)]
      BY <1>2, <2>2 DEF TornBlock, Erases, blk
    <3>2. OnlyGoodWritten(flash')
      BY <1>5, <3>1
    <3> QED
      BY <1>3, <2>1, <3>2, UnscannedIs, MostIs DEF StampsInv, Searches, blk
  <2>3. CASE flash' \in TornPage
    <3>1. blk \in Blocks /\ flash' = [flash EXCEPT ![blk][info.phy_page_addr + part] = Torn]
      BY <1>2, <2>3 DEF TornPage, blk
    <3>2. OnlyGoodWritten(flash')
      BY <1>5, <3>1
    <3> QED
      BY <1>3, <2>1, <3>2, UnscannedIs, MostIs DEF StampsInv, Searches, blk
  <2>4. CASE flash' = flash
    BY <1>1, <1>3, <2>1, <2>4, UnscannedIs, MostIs DEF StampsInv, Searches, blk
  <2> QED
    BY <2>1, <2>2, <2>3, <2>4
<1> QED
  BY <1>6, <1>7, <1>8, <1>9, <1>10, <1>11

\* The others touch neither the flash nor the block.
LEMMA StampsRest ==
  ASSUME StampsInv, Boot \/ SearchSameBlock \/ Read \/ ReadPart \/ ReadTorn \/ ReadReturn
  PROVE  StampsInv'
<1>1. /\ TInv /\ OnlyGoodWritten(flash) /\ info.timestamp <= Most
      /\ pc \notin {"search", "oops", "stuck"} => blk \notin Bad
  BY DEF StampsInv
<1>2. TInv'
  BY <1>1, TypesStep DEF Next, Work
<1>3. CASE SearchSameBlock
  <2>1. blk \notin Bad
    BY <1>3 DEF StampsInv, Searches, SearchSameBlock
  <2>2. info'.timestamp = info.timestamp /\ blk' = blk
    BY <1>1, <1>3, Types, PageAfterIs DEF SearchSameBlock, blk
  <2>3. flash' = flash /\ pc' = "write"
    BY <1>3 DEF SearchSameBlock
  <2> QED
    BY <1>1, <1>2, <2>1, <2>2, <2>3 DEF StampsInv, Searches
<1>4. CASE Boot \/ Read \/ ReadPart \/ ReadTorn \/ ReadReturn
  <2>1. flash' = flash /\ info' = info /\ pc \notin {"search", "oops", "stuck"}
        /\ pc' \notin {"search", "oops", "stuck"}
    BY <1>4 DEF Boot, Read, ReadPart, ReadTorn, ReadReturn
  <2> QED
    BY <1>1, <1>2, <2>1 DEF StampsInv, Searches, blk
<1> QED
  BY <1>3, <1>4

LEMMA StampsInit == Init => StampsInv
<1> SUFFICES ASSUME Init PROVE StampsInv
  OBVIOUS
<1>1. TInv /\ info = Unscanned /\ pc = "off"
  BY TypesInit DEF Init
<1>2. OnlyGoodWritten(flash)
  <2>1. \A b \in Blocks : flash[b] \in {Filled(Blank), Filled(Torn)}
    BY DEF Init
  <2> QED
    BY <2>1, Plain DEF OnlyGoodWritten, Filled
<1> QED
  BY <1>1, <1>2, UnscannedIs, MostIs DEF StampsInv, Searches, blk

LEMMA StampsStep == StampsInv /\ [Next]_vars => StampsInv'
<1> SUFFICES ASSUME StampsInv, [Next]_vars PROVE StampsInv'
  OBVIOUS
<1>1. CASE UNCHANGED vars
  <2>1. TInv'
    BY <1>1, TypesStep DEF StampsInv
  <2> QED
    BY <1>1, <2>1 DEF StampsInv, Searches, Full, vars, ramVars, historyVars, blk, list
<1>2. CASE Next
  BY <1>2, StampsScan, StampsFlash, StampsRest, StampsSearch, StampsFirst, StampsSave
  DEF Next, Work
<1> QED
  BY <1>1, <1>2

\* No timestamp is too large for its field, nor wraps in it, while there is
\* room for the blocks that one save can try.
THEOREM AreaTimestampsFit ==
  MaxTimestamp + Nodes <= Timestamps => (Spec => []TimestampsFit)
<1> SUFFICES ASSUME MaxTimestamp + Nodes <= Timestamps
             PROVE  Spec => []TimestampsFit
  OBVIOUS
<1>1. Most < Timestamps
  BY MostIs, FlashAssumption DEF Most
<1>2. StampsInv => TimestampsFit
  <2> SUFFICES ASSUME StampsInv PROVE TimestampsFit
    OBVIOUS
  <2>1. info.timestamp <= Most /\ info.timestamp \in Nat
    BY DEF StampsInv, TInv, TypeOK
  <2> QED
    BY <1>1, <2>1, MostIs, FlashAssumption DEF TimestampsFit
<1> QED
  BY <1>2, StampsInit, StampsStep, PTL DEF Spec
=============================================================================
