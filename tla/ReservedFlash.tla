--------------------------- MODULE ReservedFlash ---------------------------
(***************************************************************************)
(* drivers/mtd/common/reserve/rsv-manage.c: the pages of a reserved area   *)
(* of the flash and what meson_rsv_scan makes of them.  The information is *)
(* page_num pages long; a block holds several copies, written one after    *)
(* the other, and each new block gets the next timestamp.  The scan looks  *)
(* for the block with the highest timestamp and for its last copy.         *)
(*                                                                         *)
(* A page is blank, torn (its read ends with an ECC error) or holds one    *)
(* part of a copy; which part follows from its place in the block.  The    *)
(* erase counter is left out: nothing is decided by it.                    *)
(***************************************************************************)
EXTENDS Integers, Sequences, FiniteSetsExt, SequencesExt

CONSTANTS
  end_block,        \* blocks of the area (start_block is 0)
  pages_per_blk,
  page_num,         \* pages of one copy
  Nodes,            \* entries of handler->free_node that this area can take
  Timestamps,       \* 2^15: oobinfo_t.timestamp has 15 bits
  Values, None

ASSUME FlashAssumption ==
  /\ end_block \in Nat \ {0, 1} /\ Nodes \in Nat /\ Nodes >= end_block
  /\ page_num \in Nat \ {0} /\ pages_per_blk \in Nat \ {0}
  /\ pages_per_blk % page_num = 0      \* sizes are powers of two
  /\ Timestamps \in Nat \ {0} /\ None \notin Values

Blocks == 0..(end_block - 1)
Pages == 0..(pages_per_blk - 1)
Copies == 0..((pages_per_blk \div page_num) - 1)

Blank == [kind |-> "blank", timestamp |-> 0, value |-> None]
Torn == [kind |-> "torn", timestamp |-> 0, value |-> None]
Part(t, v) == [kind |-> "part", timestamp |-> t % Timestamps, value |-> v]
AllParts == {Part(t, v) : t \in 0..(Timestamps - 1), v \in Values}

\* A block whose pages are all the same.
Filled(page) == [p \in Pages |-> page]

\* struct meson_rsv_info_t with its valid_node, before a scan and after
\* meson_free_rsv_info.  status is TRUE for either abnormal flag.
Unscanned ==
  [valid |-> FALSE, phy_blk_addr |-> -1, phy_page_addr |-> 0, timestamp |-> 0,
   status |-> FALSE, free_node |-> <<>>]

\* The page that decides what the scan thinks of a block: the first page of
\* the first copy that can be read, of the eight that are tried.
Probed(f, b) == {c \in Copies : c < 8 /\ f[b][c * page_num].kind # "torn"}
Probe(f, b) == f[b][Min(Probed(f, b)) * page_num]

\* Faulty version: the last block with the name wins.
LastWins(info, page) == TRUE
Newer(info, page) == page.timestamp > info.timestamp

\* get_free_node finds none left.  Faulty version: it is off by one.
OneTooMany(info) == Len(info.free_node) > Nodes
NoFreeNode(info) == Len(info.free_node) >= Nodes

\* A block is put into the list of free blocks.
Listed(info, b) == [info EXCEPT !.free_node = Append(@, b)]

\* The first stage for one block whose probe is "page": "nomem" is -ENOMEM.
FirstStage(info, b, page) ==
  LET named == page.kind = "part"
      seen == [info EXCEPT !.status = FALSE, !.valid = @ \/ named]
      chosen == [seen EXCEPT !.phy_blk_addr = b, !.phy_page_addr = 0,
                             !.timestamp = page.timestamp]
      result(i, ret) == [info |-> i, ret |-> ret]
  IN IF named /\ info.phy_blk_addr < 0 THEN result(chosen, "ok")
     ELSE IF NoFreeNode(info) THEN result(seen, "nomem")
     ELSE IF named /\ Newer(info, page) THEN result(Listed(chosen, info.phy_blk_addr), "ok")
     ELSE result(Listed(seen, b), "ok")

\* The second stage reads the valid block up to its first blank page.
Reached(f, b) == {p \in Pages : \A q \in 0..p : f[b][q].kind # "blank"}
Readable(f, b) == {p \in Reached(f, b) : f[b][p].kind = "part"}

\* Faulty version: a copy is complete when its first page is there.
Begun(good) == {c \in Copies : c * page_num \in good}
Complete(good) == {c \in Copies : \A k \in 0..(page_num - 1) : c * page_num + k \in good}

\* The last page with the name, or what info says if there is none.
LastPage(f, info) ==
  Max(Readable(f, info.phy_blk_addr) \cup
      (IF Readable(f, info.phy_blk_addr) = {} THEN {info.phy_page_addr} ELSE {}))

\* A page with an ECC error (ECC_ABNORMAL_FLAG) or a copy that breaks off
\* (POWER_ABNORMAL_FLAG).
Abnormal(f, info) ==
  \/ \E p \in Reached(f, info.phy_blk_addr) : f[info.phy_blk_addr][p].kind = "torn"
  \/ (LastPage(f, info) + 1) % page_num # 0

\* The second stage on a flash f, with the pages of earlier passes that were
\* good: neither they nor the -1 are forgotten when the scan begins again.
\* ret is "ok", "bad" (-1) or "retry": the valid block holds no complete copy
\* and is to be erased.
SecondStage(f, info, good) ==
  LET complete == Complete(good \cup Readable(f, info.phy_blk_addr))
      found(page) == [info EXCEPT !.phy_page_addr = page, !.status = @ \/ Abnormal(f, info)]
      result(i, ret) == [info |-> i, ret |-> ret]
  IN IF ~info.valid THEN result(info, "bad")
     ELSE IF ~Abnormal(f, info) /\ good = {} THEN result(found(LastPage(f, info) - (page_num - 1)), "ok")
     ELSE IF page_num = 1 THEN result(found(LastPage(f, info)), "bad")
     ELSE IF complete = {} THEN result(info, "retry")
     ELSE result(found(Max(complete) * page_num), "ok")

\* The copies that are whole: all parts of one save.
Whole(f) ==
  {bc \in Blocks \X Copies :
     \A k \in 0..(page_num - 1) :
       /\ f[bc[1]][bc[2] * page_num + k].kind = "part"
       /\ f[bc[1]][bc[2] * page_num + k] = f[bc[1]][bc[2] * page_num]}

First(f, bc) == f[bc[1]][bc[2] * page_num]

\* What the scan is to find: the last whole copy of the block with the highest
\* timestamp among those that hold whole copies.
IsNewest(f, bc) ==
  \A other \in Whole(f) :
    \/ First(f, other).timestamp < First(f, bc).timestamp
    \/ other[1] = bc[1] /\ other[2] <= bc[2]

\* Two blocks with the highest timestamp, which only a flash that fails can
\* leave, have no newest copy.
Newest(f) ==
  LET newest == {bc \in Whole(f) : IsNewest(f, bc)} IN
  IF newest = {} THEN None ELSE First(f, CHOOSE bc \in newest : TRUE).value
=============================================================================
