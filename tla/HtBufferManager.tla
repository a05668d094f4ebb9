--------------------------- MODULE HtBufferManager ---------------------------
(***************************************************************************)
(* HtBufferManager (src/HashTable/BufferManager.h): NFrames page frames    *)
(* with a lookup table from page to frame, pin counts, a dirty flag and    *)
(* CLOCK replacement; a dirty victim is written back to the HtFile.        *)
(*                                                                         *)
(* A buffer manager is a record [meta, buf, table, hand]: metas[] (page_id,*)
(* pin_count, clock_count, dirty), buffer_frames, lookup_table (NoFrame    *)
(* for a page it does not hold) and clock_hand.  Operations that can write *)
(* back take and return the file too: [b, f, fid].                         *)
(***************************************************************************)
EXTENDS Naturals, Sequences

CONSTANTS
    NFrames,    \* buffer_size: the number of frames
    MaxPage,    \* the largest page number the file can reach
    PageWords

File == INSTANCE HtFile

Frames == 0..(NFrames - 1)
NoFrame == NFrames
PageNos == 0..MaxPage

NoMeta == [page |-> 0, pin |-> 0, clock |-> 0, dirty |-> 0]

(* The constructor: zeroed metas and frames, an empty table, hand 0. *)
InitBuffer ==
    [meta  |-> [v \in Frames |-> NoMeta],
     buf   |-> [v \in Frames |-> File!ZeroPage],
     table |-> [p \in PageNos |-> NoFrame],
     hand  |-> 0]

(* GetFreeFrame can return only if some frame is unpinned; otherwise its   *)
(* loop spins for ever.                                                    *)
CanEvict(b) == \E v \in Frames : b.meta[v].pin = 0

(* The loop of GetFreeFrame (lines 101-104): skip pinned frames, take one  *)
(* chance from an unpinned frame that was used, stop at the first frame    *)
(* that is neither.  Each pass clears every unpinned frame's chance, so    *)
(* two passes are enough when CanEvict holds.                              *)
RECURSIVE ClockSweep(_, _, _)
ClockSweep(meta, h, fuel) ==
    IF fuel = 0 \/ (meta[h].pin = 0 /\ meta[h].clock = 0)
    THEN [meta |-> meta, hand |-> h]
    ELSE ClockSweep(IF meta[h].pin = 0
                    THEN [meta EXCEPT ![h].clock = @ - 1] ELSE meta,
                    (h + 1) % NFrames, fuel - 1)

(* Mutant: the victim's page stays in the lookup table. *)
GetFreeFrameKeepTable(b, f) ==
    LET c == ClockSweep(b.meta, b.hand, 2 * NFrames + 1)
        v == c.hand
        old == c.meta[v]
    IN [b |-> [b EXCEPT !.meta = c.meta, !.hand = v],
        f |-> IF old.dirty = 1 THEN File!WritePage(f, old.page, b.buf[v]) ELSE f,
        fid |-> v]

(* GetFreeFrame: sweep, drop the victim's page from the table and write it *)
(* back if it is dirty.                                                    *)
GetFreeFrame(b, f) ==
    LET c == ClockSweep(b.meta, b.hand, 2 * NFrames + 1)
        v == c.hand
        old == c.meta[v]
    IN [b |-> [b EXCEPT !.meta = c.meta, !.hand = v,
                        !.table[old.page] = NoFrame],
        f |-> IF old.dirty = 1 THEN File!WritePage(f, old.page, b.buf[v]) ELSE f,
        fid |-> v]

(* Mutant: a missed page is entered in the table but never read. *)
PinPageNoRead(b, f, p) ==
    IF b.table[p] # NoFrame
    THEN [b |-> [b EXCEPT !.meta[b.table[p]].pin = @ + 1,
                          !.meta[b.table[p]].clock = 1], f |-> f, fid |-> b.table[p]]
    ELSE LET g == GetFreeFrame(b, f)
         IN [b |-> [g.b EXCEPT !.table[p] = g.fid,
                               !.meta[g.fid] = [page |-> p, pin |-> 1,
                                                clock |-> 1, dirty |-> 0]],
             f |-> g.f, fid |-> g.fid]

(* PinPage: a page in the table gets one more pin; otherwise a frame is    *)
(* freed, the page read into it and entered in the table.  Either way it   *)
(* gets its chance back.                                                   *)
PinPage(b, f, p) ==
    IF b.table[p] # NoFrame
    THEN LET v == b.table[p] IN
         [b |-> [b EXCEPT !.meta[v].pin = @ + 1, !.meta[v].clock = 1],
          f |-> f, fid |-> v]
    ELSE LET g == GetFreeFrame(b, f)
             v == g.fid
         IN [b |-> [g.b EXCEPT !.buf[v] = File!ReadPage(g.f, p),
                               !.table[p] = v,
                               !.meta[v] = [page |-> p, pin |-> 1,
                                            clock |-> 1, dirty |-> 0]],
             f |-> g.f, fid |-> v]

(* PinPage can return: the page is in the table or a frame can be freed. *)
CanPin(b, p) == b.table[p] # NoFrame \/ CanEvict(b)

UnpinPage(b, v) == [b EXCEPT !.meta[v].pin = @ - 1]

MarkDirty(b, v) == [b EXCEPT !.meta[v].dirty = 1]

(* Mutant: FreePage leaves the page in the lookup table. *)
FreePageKeepTable(b, f, v) ==
    [b |-> [b EXCEPT !.meta[v] = NoMeta], f |-> File!FreePage(f, b.meta[v].page)]

(* FreePage: drop the frame's page from the table, free it in the file     *)
(* (without writing the frame back) and reset the frame's metadata.        *)
FreePage(b, f, v) ==
    [b |-> [b EXCEPT !.table[b.meta[v].page] = NoFrame, !.meta[v] = NoMeta],
     f |-> File!FreePage(f, b.meta[v].page)]

(* Mutant: Flush writes back only the unpinned dirty frames. *)
FlushUnpinned(b, f) ==
    LET W(v) == b.meta[v].dirty = 1 /\ b.meta[v].pin = 0 IN
    [b |-> [b EXCEPT !.meta = [v \in Frames |->
                                 IF W(v) THEN [b.meta[v] EXCEPT !.dirty = 0] ELSE b.meta[v]]],
     f |-> [f EXCEPT !.disk = [p \in DOMAIN f.disk |->
                                IF \E v \in Frames : W(v) /\ b.meta[v].page = p
                                THEN b.buf[CHOOSE v \in Frames : W(v) /\ b.meta[v].page = p]
                                ELSE f.disk[p]]]]

(* Flush: write back every dirty frame and clear its flag; the file's      *)
(* Flush writes the header, which the model keeps in the file record.      *)
Flush(b, f) ==
    [b |-> [b EXCEPT !.meta = [v \in Frames |-> [b.meta[v] EXCEPT !.dirty = 0]]],
     f |-> [f EXCEPT !.disk = [p \in DOMAIN f.disk |->
                                IF \E v \in Frames : b.meta[v].dirty = 1
                                                     /\ b.meta[v].page = p
                                THEN b.buf[CHOOSE v \in Frames :
                                             b.meta[v].dirty = 1 /\ b.meta[v].page = p]
                                ELSE f.disk[p]]]]

(* The content of page p as the program sees it: the frame holding it,     *)
(* else the disk.                                                          *)
View(b, f, p) == IF b.table[p] # NoFrame THEN b.buf[b.table[p]] ELSE f.disk[p]
=============================================================================
