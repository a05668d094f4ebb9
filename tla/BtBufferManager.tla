--------------------------- MODULE BtBufferManager ---------------------------
(***************************************************************************)
(* The Btree's BufferManager (src/Btree/buffer_manager.cc) over its File   *)
(* (src/Btree/file.hpp).  Frames are chosen by CLOCK over the last_used    *)
(* counter of each Page (types.hpp): PinPage sets it to the access mode    *)
(* (PAGE_WRITE = 1, PAGE_READ = 2), the sweep decrements it, and the first *)
(* frame found at 0 is the victim.  pin_count is never touched: UnpinPage  *)
(* is empty, so nothing keeps a frame that a caller still uses from being  *)
(* chosen.                                                                 *)
(*                                                                         *)
(* A buffer manager is a record [fr, buf, table, cur]: each frame's        *)
(* page_id, last_used and dirty flag, the frames' contents, page_table     *)
(* (NoFrame for a page it does not hold) and page_cur.  The file is a      *)
(* function from page numbers to page contents; operations that can write  *)
(* it take and return it: [b, d, fid].                                     *)
(***************************************************************************)
EXTENDS Naturals

CONSTANTS
    NFrames,    \* page_count: the number of frames
    MaxPage,    \* the largest page number the file can reach
    ZeroPage    \* the content of a page never written (pread of zeros)

Frames == 0..(NFrames - 1)
NoFrame == NFrames
PageNos == 0..MaxPage
NoPage == MaxPage + 1       \* PageId(): the invalid page id of a fresh frame

PAGE_WRITE == 1
PAGE_READ == 2

(* Page(): an invalid page id, last_used 0 and the dirty flag clear.      *)
EmptyFrame == [pid |-> NoPage, used |-> 0, dirty |-> 0]

(* File::flush (file.hpp 4-22): pwrite of page n, then fsync.            *)
FileFlush(d, n, pg) == [d EXCEPT ![n] = pg]

(* The constructor: zeroed frames with an invalid page id, page_cur 0. *)
InitBuffer ==
    [fr    |-> [v \in Frames |-> EmptyFrame],
     buf   |-> [v \in Frames |-> ZeroPage],
     table |-> [p \in PageNos |-> NoFrame],
     cur   |-> 0]

(* The next_page loop (lines 59-67): a used frame loses one unit of        *)
(* last_used and the hand moves on; the first idle frame is the victim.    *)
(* last_used is at most 2, so 2 * NFrames + 1 frames are enough.           *)
RECURSIVE SweepClear(_, _, _)
SweepClear(fr, h, fuel) ==
    IF fuel = 0 \/ fr[h].used = 0
    THEN [fr |-> fr, hand |-> h]
    ELSE SweepClear([fr EXCEPT ![h].used = 0], (h + 1) % NFrames, fuel - 1)
RECURSIVE Sweep(_, _, _)
Sweep(fr, h, fuel) ==
    IF fuel = 0 \/ fr[h].used = 0
    THEN [fr |-> fr, hand |-> h]
    ELSE Sweep([fr EXCEPT ![h].used = @ - 1], (h + 1) % NFrames, fuel - 1)

(* A page not in the table (lines 57-100): CLOCK picks the victim c.hand; *)
(* it is written back if dirty (File::flush), its page leaves the table,   *)
(* the page is loaded (File::load) and entered.                            *)
Load(b, d, p, mode, c) ==
    LET v   == c.hand
        old == c.fr[v].pid
        d1  == IF c.fr[v].dirty = 1 THEN FileFlush(d, old, b.buf[v]) ELSE d
        t1  == IF old = NoPage THEN b.table ELSE [b.table EXCEPT ![old] = NoFrame]
    IN [b |-> [fr    |-> [c.fr EXCEPT ![v] = [pid |-> p, used |-> mode, dirty |-> 0]],
               buf   |-> [b.buf EXCEPT ![v] = d1[p]],
               table |-> [t1 EXCEPT ![p] = v],
               cur   |-> v],
        d |-> d1, fid |-> v]
PinMiss(b, d, p, mode) == Load(b, d, p, mode, Sweep(b.fr, b.cur, 2 * NFrames + 1))

(* PinPage (lines 40-101): a page in the table gets last_used = mode, else *)
(* it is loaded as above.                                                  *)
PinPage(b, d, p, mode) ==
    IF b.table[p] # NoFrame
    THEN [b |-> [b EXCEPT !.fr[b.table[p]].used = mode], d |-> d, fid |-> b.table[p]]
    ELSE PinMiss(b, d, p, mode)

(* Page::SetDirty(true). *)
SetDirty(b, v) == [b EXCEPT !.fr[v].dirty = 1]

(* Finalize (lines 25-38): write back every dirty frame. *)
Finalize(b, d) ==
    [p \in DOMAIN d |->
        IF \E v \in Frames : b.fr[v].pid = p /\ b.fr[v].dirty = 1
        THEN b.buf[CHOOSE v \in Frames : b.fr[v].pid = p /\ b.fr[v].dirty = 1]
        ELSE d[p]]

(* The content of page p as the program sees it next: the frame holding    *)
(* it, else the file.                                                      *)
View(b, d, p) == IF b.table[p] # NoFrame THEN b.buf[b.table[p]] ELSE d[p]
=============================================================================
