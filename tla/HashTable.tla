------------------------------ MODULE HashTable ------------------------------
(***************************************************************************)
(* HashTable (src/HashTable/HashTable.h): a fixed number of buckets, each  *)
(* a chain of bucket pages of Slots entries with an occupancy bitmap, the  *)
(* chain heads kept in directory pages; pages are reached through an       *)
(* HtBufferManager over an HtFile.  One instance belongs to one YCSB       *)
(* thread, so the table is sequential: a client runs the operations of     *)
(* Script one after the other, and each iteration of the probing loops is  *)
(* one step.                                                               *)
(*                                                                         *)
(* An entry holds its key (keys are >= 1) and the key doubles as the       *)
(* bitmap bit: 0 is a free slot.  Values are left out: the table stores    *)
(* the value beside the key and never looks at it.                         *)
(***************************************************************************)
EXTENDS Naturals, Sequences, FiniteSets, SequencesExt

CONSTANTS
    NBuckets,        \* n_buckets
    BucketsPerDir,   \* N_BUCKETS_PER_DIR: bucket heads per directory page
    Slots,           \* ENTRIES_PER_BUCKET
    NFrames,         \* buffer_cap
    Keys,            \* the keys the client uses, a set of positive numbers
    Script           \* Script[i]: the operations the client may run i-th

PageWords == IF Slots > BucketsPerDir THEN Slots ELSE BucketsPerDir
NDirPages == (NBuckets \div BucketsPerDir) + 1
(* Each operation allocates at most one page. *)
MaxPage == NDirPages + Len(Script)

File == INSTANCE HtFile
BM == INSTANCE HtBufferManager

VARIABLES
    hf,        \* the HtFile hpf
    bm,        \* the HtBufferManager bmgr
    pc,        \* where the client is: "idle", a step of an operation, "closed"
    op,        \* the running operation [kind, key]
    opn,       \* the number of operations started
    ret,       \* the last operation's result [n, kind, key, ok]
    dirf,      \* dir_frame_id
    cur,       \* cur_frame_id
    nxt,       \* next_frame_id
    slot       \* EntrySlot: [frame, idx] of the entry found, and its page

vars == <<hf, bm, pc, op, opn, ret, dirf, cur, nxt, slot>>

NoSlot == [frame |-> NFrames, idx |-> 0, page |-> 0]
free_slot == slot # NoSlot

(* std::hash<uint64_t> is the identity; bucket, its directory page and    *)
(* the word of that page holding the chain head.                          *)
Bucket(k) == k % NBuckets
DirPageNo(k) == (Bucket(k) \div BucketsPerDir) + 1
DirWord(k) == (Bucket(k) % BucketsPerDir) + 1

(* *dir_ptr = p, *next_ptr = p: the words that link a chain. *)
SetDir(b, v, p) == [b EXCEPT !.buf[v].ent[DirWord(op.key)] = p]
SetNext(b, v, p) == [b EXCEPT !.buf[v].next = p]

Occupied(pg) == {i \in 1..Slots : pg.ent[i] # 0}
Holds(pg, k) == \E i \in Occupied(pg) : pg.ent[i] = k
FirstFree(pg) == Min((1..Slots) \ Occupied(pg))

(* "Not found, new page allocated": allocate and zero a page, link it      *)
(* from frame v (its directory word if toDir, else its next), mark v       *)
(* dirty and unpin it, pin the new page; the entry goes into its first     *)
(* slot.                                                                   *)
NewBucket(b, f, v, toDir) ==
    LET a  == File!AllocatePage(f)
        f1 == File!TruncPage(a.f, a.page)
        b1 == BM!UnpinPage(BM!MarkDirty(
               IF toDir THEN SetDir(b, v, a.page) ELSE SetNext(b, v, a.page), v), v)
        q  == BM!PinPage(b1, f1, a.page)
    IN [b |-> q.b, f |-> q.f,
        slot |-> [frame |-> q.fid, idx |-> 1, page |-> a.page],
        ok |-> BM!CanPin(b1, a.page)]

Init ==
    /\ hf = [File!NewFile(MaxPage) EXCEPT !.fsize = NDirPages]
    /\ bm = BM!InitBuffer
    /\ pc = "idle"
    /\ op = [kind |-> "none", key |-> 0]
    /\ opn = 0
    /\ ret = [n |-> 0, kind |-> "none", key |-> 0, ok |-> FALSE]
    /\ dirf = NFrames /\ cur = NFrames /\ nxt = NFrames
    /\ slot = NoSlot

(* The operation returns ok. *)
Return(ok) ==
    /\ pc' = "idle"
    /\ ret' = [n |-> opn, kind |-> op.kind, key |-> op.key, ok |-> ok]

(* DbHashTable::Insert / Read (and the table's Erase): the next call. *)
Invoke ==
    /\ pc = "idle" /\ opn < Len(Script)
    /\ \E o \in Script[opn + 1] :
        /\ op' = o
        /\ pc' = IF o.kind = "insert" THEN "g_dir" ELSE "p_dir"
    /\ opn' = opn + 1
    /\ slot' = NoSlot
    /\ UNCHANGED <<hf, bm, ret, dirf, cur, nxt>>
(* The buffer manager and the file after a call. *)
Store(r) == bm' = r.b /\ hf' = r.f

(***************************************************************************)
(* Insert: GetFreeSlotWithProbe (lines 104-251), then lines 55-64.         *)
(***************************************************************************)

(* Lines 105-126: pin the directory page; an empty bucket gets a new page, *)
(* else pin the chain's first page.                                        *)
ProbeDir ==
    /\ pc = "g_dir"
    /\ BM!CanPin(bm, DirPageNo(op.key))
    /\ LET d == BM!PinPage(bm, hf, DirPageNo(op.key))
           head == d.b.buf[d.fid].ent[DirWord(op.key)]
       IN \/ /\ head = 0
             /\ LET r == NewBucket(d.b, d.f, d.fid, TRUE) IN
                /\ r.ok /\ Store(r) /\ slot' = r.slot
             /\ pc' = "ins_write"
             /\ UNCHANGED <<dirf, cur>>
          \/ /\ head # 0
             /\ BM!CanPin(d.b, head)
             /\ LET h == BM!PinPage(d.b, d.f, head) IN
                /\ Store(h) /\ cur' = h.fid
             /\ dirf' = d.fid
             /\ pc' = "g_head"
             /\ UNCHANGED slot
    /\ UNCHANGED <<op, opn, ret, nxt>>

(* Mutant: the duplicate check of the entry loop is missing. *)
ProbeScanNoDupCheck ==
    /\ pc = "g_scan"
    /\ LET pg == bm.buf[cur]
           s1 == IF ~free_slot /\ Occupied(pg) # 1..Slots
                 THEN [frame |-> cur, idx |-> FirstFree(pg), page |-> bm.meta[cur].page]
                 ELSE slot
       IN \/ /\ pg.next # 0 /\ BM!CanPin(bm, pg.next)
             /\ LET h == BM!PinPage(bm, hf, pg.next) IN Store(h) /\ nxt' = h.fid
             /\ slot' = s1 /\ pc' = "g_next"
          \/ /\ pg.next = 0 /\ s1 # NoSlot
             /\ slot' = s1 /\ pc' = "ins_write" /\ UNCHANGED <<hf, bm, nxt>>
          \/ /\ pg.next = 0 /\ s1 = NoSlot
             /\ LET a == NewBucket(bm, hf, cur, FALSE) IN
                /\ a.ok /\ Store(a) /\ slot' = a.slot
             /\ pc' = "ins_write" /\ UNCHANGED nxt
    /\ UNCHANGED <<op, opn, ret, dirf, cur>>

(* One iteration of the compaction loop at the head (lines 131-159): an    *)
(* empty first page is unlinked from the directory and freed; at the end   *)
(* of the chain a new page is allocated.  A non-empty page ends the loop   *)
(* and the directory page is unpinned.                                     *)
ProbeHead ==
    /\ pc = "g_head"
    /\ LET pg == bm.buf[cur]
           b1 == BM!MarkDirty(SetDir(bm, dirf, pg.next), dirf)
           r  == BM!FreePage(b1, hf, cur)
       IN \/ /\ pg.n = 0 /\ pg.next = 0
             /\ LET a == NewBucket(r.b, r.f, dirf, TRUE) IN
                /\ a.ok /\ Store(a) /\ slot' = a.slot
             /\ pc' = "ins_write"
             /\ UNCHANGED cur
          \/ /\ pg.n = 0 /\ pg.next # 0
             /\ BM!CanPin(r.b, pg.next)
             /\ LET h == BM!PinPage(r.b, r.f, pg.next) IN
                /\ Store(h) /\ cur' = h.fid
             /\ UNCHANGED <<pc, slot>>
          \/ /\ pg.n # 0
             /\ bm' = BM!UnpinPage(bm, dirf)
             /\ pc' = "g_scan"
             /\ UNCHANGED <<hf, cur, slot>>
    /\ UNCHANGED <<op, opn, ret, dirf, nxt>>

(* The for-loop over the entries of the current page (lines 162-194) and  *)
(* what follows it (195-197, 232-249): the key already there returns       *)
(* false after unpinning the current page; the first free slot is          *)
(* remembered; then pin the next page, or at the end of the chain use the  *)
(* remembered slot or link a new page.                                     *)
ProbeScan ==
    /\ pc = "g_scan"
    /\ LET pg == bm.buf[cur]
           s1 == IF ~free_slot /\ Occupied(pg) # 1..Slots
                 THEN [frame |-> cur, idx |-> FirstFree(pg), page |-> bm.meta[cur].page]
                 ELSE slot
       IN \/ /\ Holds(pg, op.key)
             /\ bm' = BM!UnpinPage(bm, cur)
             /\ Return(FALSE)
             /\ UNCHANGED <<hf, cur, nxt, slot>>
          \/ /\ ~Holds(pg, op.key) /\ pg.next # 0
             /\ BM!CanPin(bm, pg.next)
             /\ LET h == BM!PinPage(bm, hf, pg.next) IN
                /\ Store(h) /\ nxt' = h.fid
             /\ slot' = s1
             /\ pc' = "g_next"
             /\ UNCHANGED <<ret, cur>>
          \/ /\ ~Holds(pg, op.key) /\ pg.next = 0 /\ s1 # NoSlot
             /\ slot' = s1
             /\ pc' = "ins_write"
             /\ UNCHANGED <<hf, bm, ret, cur, nxt>>
          \/ /\ ~Holds(pg, op.key) /\ pg.next = 0 /\ s1 = NoSlot
             /\ LET a == NewBucket(bm, hf, cur, FALSE) IN
                /\ a.ok /\ Store(a) /\ slot' = a.slot
             /\ pc' = "ins_write"
             /\ UNCHANGED <<ret, cur, nxt>>
    /\ UNCHANGED <<op, opn, dirf>>

(* Mutant: the current page is unpinned even when it holds the slot. *)
ProbeNextAlwaysUnpin ==
    /\ pc = "g_next"
    /\ LET npg == bm.buf[nxt]
           b1  == BM!MarkDirty(SetNext(bm, cur, npg.next), cur)
           r   == BM!FreePage(b1, hf, nxt)
       IN \/ /\ npg.n = 0 /\ npg.next = 0 /\ ~free_slot
             /\ LET a == NewBucket(r.b, r.f, cur, FALSE) IN
                /\ a.ok /\ Store(a) /\ slot' = a.slot
             /\ pc' = "ins_write" /\ UNCHANGED <<cur, nxt>>
          \/ /\ npg.n = 0 /\ free_slot
             /\ Store(r) /\ pc' = "ins_write" /\ UNCHANGED <<cur, nxt, slot>>
          \/ /\ npg.n = 0 /\ npg.next # 0 /\ ~free_slot /\ BM!CanPin(r.b, npg.next)
             /\ LET h == BM!PinPage(r.b, r.f, npg.next) IN Store(h) /\ nxt' = h.fid
             /\ UNCHANGED <<pc, cur, slot>>
          \/ /\ npg.n # 0
             /\ bm' = BM!UnpinPage(bm, cur) /\ cur' = nxt /\ pc' = "g_scan"
             /\ UNCHANGED <<hf, nxt, slot>>
    /\ UNCHANGED <<op, opn, ret, dirf>>

(* One iteration of the compaction loop on the next page (lines 201-231): *)
(* an empty next page is unlinked from the current one and freed; at the   *)
(* end of the chain a new page is linked unless a slot was remembered;     *)
(* with a remembered slot the probe returns at once (line 222).  A         *)
(* non-empty next page becomes the current one; the current page is        *)
(* unpinned unless it holds the remembered slot (line 229).                *)
ProbeNext ==
    /\ pc = "g_next"
    /\ LET npg == bm.buf[nxt]
           b1  == BM!MarkDirty(SetNext(bm, cur, npg.next), cur)
           r   == BM!FreePage(b1, hf, nxt)
       IN \/ /\ npg.n = 0 /\ npg.next = 0 /\ ~free_slot
             /\ LET a == NewBucket(r.b, r.f, cur, FALSE) IN
                /\ a.ok /\ Store(a) /\ slot' = a.slot
             /\ pc' = "ins_write"
             /\ UNCHANGED <<cur, nxt>>
          \/ /\ npg.n = 0 /\ free_slot
             /\ Store(r)
             /\ pc' = "ins_write"
             /\ UNCHANGED <<cur, nxt, slot>>
          \/ /\ npg.n = 0 /\ npg.next # 0 /\ ~free_slot
             /\ BM!CanPin(r.b, npg.next)
             /\ LET h == BM!PinPage(r.b, r.f, npg.next) IN
                /\ Store(h) /\ nxt' = h.fid
             /\ UNCHANGED <<pc, cur, slot>>
          \/ /\ npg.n # 0
             /\ bm' = IF ~free_slot \/ cur # slot.frame
                      THEN BM!UnpinPage(bm, cur) ELSE bm
             /\ cur' = nxt
             /\ pc' = "g_scan"
             /\ UNCHANGED <<hf, nxt, slot>>
    /\ UNCHANGED <<op, opn, ret, dirf>>

(* Mutant: the filled page is not marked dirty. *)
InsertEntryNoDirty ==
    /\ pc = "ins_write"
    /\ bm' = BM!UnpinPage([bm EXCEPT !.buf[slot.frame].ent[slot.idx] = op.key,
                                     !.buf[slot.frame].n = @ + 1], slot.frame)
    /\ Return(TRUE)
    /\ UNCHANGED <<hf, op, opn, dirf, cur, nxt, slot>>

(* Insert, lines 55-62: fill the slot, count it, set its bit, mark the     *)
(* page dirty and unpin it.                                                *)
InsertEntry ==
    /\ pc = "ins_write"
    /\ bm' = BM!UnpinPage(BM!MarkDirty(
               [bm EXCEPT !.buf[slot.frame].ent[slot.idx] = op.key,
                          !.buf[slot.frame].n = @ + 1], slot.frame), slot.frame)
    /\ Return(TRUE)
    /\ UNCHANGED <<hf, op, opn, dirf, cur, nxt, slot>>
(***************************************************************************)
(* Search and Erase: ProbeAndCompress (lines 254-337), then lines 68-74    *)
(* and 78-87.                                                              *)
(***************************************************************************)

(* Lines 255-266: pin the directory page; an empty bucket returns false,   *)
(* else pin the chain's first page.                                        *)
FindDir ==
    /\ pc = "p_dir"
    /\ BM!CanPin(bm, DirPageNo(op.key))
    /\ LET d == BM!PinPage(bm, hf, DirPageNo(op.key))
           head == d.b.buf[d.fid].ent[DirWord(op.key)]
       IN \/ /\ head = 0
             /\ bm' = BM!UnpinPage(d.b, d.fid) /\ hf' = d.f
             /\ Return(FALSE)
             /\ UNCHANGED <<dirf, cur>>
          \/ /\ head # 0
             /\ BM!CanPin(d.b, head)
             /\ LET h == BM!PinPage(d.b, d.f, head) IN
                /\ Store(h) /\ cur' = h.fid
             /\ dirf' = d.fid
             /\ pc' = "p_head"
             /\ UNCHANGED ret
    /\ UNCHANGED <<op, opn, nxt, slot>>

(* Mutant: an empty head page is freed but the directory still points at  *)
(* it.                                                                     *)
FindHeadNoRelink ==
    /\ pc = "p_head"
    /\ LET pg == bm.buf[cur]
           r  == BM!FreePage(bm, hf, cur)
       IN \/ /\ pg.n = 0 /\ pg.next = 0
             /\ bm' = BM!UnpinPage(r.b, dirf) /\ hf' = r.f
             /\ Return(FALSE) /\ UNCHANGED cur
          \/ /\ pg.n = 0 /\ pg.next # 0 /\ BM!CanPin(r.b, pg.next)
             /\ LET h == BM!PinPage(r.b, r.f, pg.next) IN Store(h) /\ cur' = h.fid
             /\ UNCHANGED <<pc, ret>>
          \/ /\ pg.n # 0
             /\ bm' = BM!UnpinPage(bm, dirf) /\ pc' = "p_scan"
             /\ UNCHANGED <<hf, cur, ret>>
    /\ UNCHANGED <<op, opn, dirf, nxt, slot>>

(* One iteration of the compaction loop at the head (lines 267-280). *)
FindHead ==
    /\ pc = "p_head"
    /\ LET pg == bm.buf[cur]
           b1 == BM!MarkDirty(SetDir(bm, dirf, pg.next), dirf)
           r  == BM!FreePage(b1, hf, cur)
       IN \/ /\ pg.n = 0 /\ pg.next = 0
             /\ bm' = BM!UnpinPage(r.b, dirf) /\ hf' = r.f
             /\ Return(FALSE)
             /\ UNCHANGED cur
          \/ /\ pg.n = 0 /\ pg.next # 0
             /\ BM!CanPin(r.b, pg.next)
             /\ LET h == BM!PinPage(r.b, r.f, pg.next) IN
                /\ Store(h) /\ cur' = h.fid
             /\ UNCHANGED <<pc, ret>>
          \/ /\ pg.n # 0
             /\ bm' = BM!UnpinPage(bm, dirf)
             /\ pc' = "p_scan"
             /\ UNCHANGED <<hf, cur, ret>>
    /\ UNCHANGED <<op, opn, dirf, nxt, slot>>

(* Mutant: the page holding the key found is unpinned before the caller   *)
(* is done with it.                                                        *)
FindScanUnpinFound ==
    /\ pc = "p_scan"
    /\ LET pg == bm.buf[cur] IN
          \/ /\ Holds(pg, op.key)
             /\ slot' = [frame |-> cur, page |-> bm.meta[cur].page,
                         idx |-> CHOOSE i \in Occupied(pg) : pg.ent[i] = op.key]
             /\ bm' = BM!UnpinPage(bm, cur)
             /\ pc' = IF op.kind = "search" THEN "s_ret" ELSE "e_ret"
             /\ UNCHANGED <<hf, ret, nxt>>
          \/ /\ ~Holds(pg, op.key) /\ pg.next # 0 /\ BM!CanPin(bm, pg.next)
             /\ LET h == BM!PinPage(bm, hf, pg.next) IN Store(h) /\ nxt' = h.fid
             /\ pc' = "p_next" /\ UNCHANGED <<ret, slot>>
          \/ /\ ~Holds(pg, op.key) /\ pg.next = 0
             /\ bm' = BM!UnpinPage(bm, cur) /\ Return(FALSE)
             /\ UNCHANGED <<hf, nxt, slot>>
    /\ UNCHANGED <<op, opn, dirf, cur>>

(* The for-loop over the entries (lines 282-308) and lines 309-312,        *)
(* 330-333: the key found leaves its slot, with the page pinned, to the   *)
(* caller; else pin the next page, or unpin and return false at the end.   *)
FindScan ==
    /\ pc = "p_scan"
    /\ LET pg == bm.buf[cur] IN
          \/ /\ Holds(pg, op.key)
             /\ slot' = [frame |-> cur, page |-> bm.meta[cur].page,
                         idx |-> CHOOSE i \in Occupied(pg) : pg.ent[i] = op.key]
             /\ pc' = IF op.kind = "search" THEN "s_ret" ELSE "e_ret"
             /\ UNCHANGED <<hf, bm, ret, nxt>>
          \/ /\ ~Holds(pg, op.key) /\ pg.next # 0
             /\ BM!CanPin(bm, pg.next)
             /\ LET h == BM!PinPage(bm, hf, pg.next) IN
                /\ Store(h) /\ nxt' = h.fid
             /\ pc' = "p_next"
             /\ UNCHANGED <<ret, slot>>
          \/ /\ ~Holds(pg, op.key) /\ pg.next = 0
             /\ bm' = BM!UnpinPage(bm, cur)
             /\ Return(FALSE)
             /\ UNCHANGED <<hf, nxt, slot>>
    /\ UNCHANGED <<op, opn, dirf, cur>>

(* Mutant: an empty page in the middle of a chain ends the search.        *)
FindNextStopAtEmpty ==
    /\ pc = "p_next"
    /\ LET npg == bm.buf[nxt]
           r   == BM!FreePage(BM!MarkDirty(SetNext(bm, cur, 0), cur), hf, nxt)
       IN \/ /\ npg.n = 0
             /\ bm' = BM!UnpinPage(r.b, cur) /\ hf' = r.f
             /\ Return(FALSE) /\ UNCHANGED <<cur, nxt>>
          \/ /\ npg.n # 0
             /\ bm' = BM!UnpinPage(bm, cur) /\ cur' = nxt /\ pc' = "p_scan"
             /\ UNCHANGED <<hf, ret, nxt>>
    /\ UNCHANGED <<op, opn, dirf, slot>>

(* Mutant: an empty next page is freed but the current page still links   *)
(* to it.                                                                  *)
FindNextNoRelink ==
    /\ pc = "p_next"
    /\ LET npg == bm.buf[nxt]
           r   == BM!FreePage(bm, hf, nxt)
       IN \/ /\ npg.n = 0 /\ npg.next = 0
             /\ bm' = BM!UnpinPage(r.b, cur) /\ hf' = r.f
             /\ Return(FALSE) /\ UNCHANGED <<cur, nxt>>
          \/ /\ npg.n = 0 /\ npg.next # 0 /\ BM!CanPin(r.b, npg.next)
             /\ LET h == BM!PinPage(r.b, r.f, npg.next) IN Store(h) /\ nxt' = h.fid
             /\ UNCHANGED <<pc, ret, cur>>
          \/ /\ npg.n # 0
             /\ bm' = BM!UnpinPage(bm, cur) /\ cur' = nxt /\ pc' = "p_scan"
             /\ UNCHANGED <<hf, ret, nxt>>
    /\ UNCHANGED <<op, opn, dirf, slot>>

(* One iteration of the compaction loop on the next page (lines 313-329). *)
FindNext ==
    /\ pc = "p_next"
    /\ LET npg == bm.buf[nxt]
           b1  == BM!MarkDirty(SetNext(bm, cur, npg.next), cur)
           r   == BM!FreePage(b1, hf, nxt)
       IN \/ /\ npg.n = 0 /\ npg.next = 0
             /\ bm' = BM!UnpinPage(r.b, cur) /\ hf' = r.f
             /\ Return(FALSE)
             /\ UNCHANGED <<cur, nxt>>
          \/ /\ npg.n = 0 /\ npg.next # 0
             /\ BM!CanPin(r.b, npg.next)
             /\ LET h == BM!PinPage(r.b, r.f, npg.next) IN
                /\ Store(h) /\ nxt' = h.fid
             /\ UNCHANGED <<pc, ret, cur>>
          \/ /\ npg.n # 0
             /\ bm' = BM!UnpinPage(bm, cur)
             /\ cur' = nxt
             /\ pc' = "p_scan"
             /\ UNCHANGED <<hf, ret, nxt>>
    /\ UNCHANGED <<op, opn, dirf, slot>>

(* Search, lines 70-73: read the value and unpin the page. *)
SearchEntry ==
    /\ pc = "s_ret"
    /\ bm' = BM!UnpinPage(bm, slot.frame)
    /\ Return(TRUE)
    /\ UNCHANGED <<hf, op, opn, dirf, cur, nxt, slot>>

(* Erase, lines 80-86: zero the entry, uncount it, clear its bit, mark the *)
(* page dirty and unpin it.                                                *)
EraseEntry ==
    /\ pc = "e_ret"
    /\ bm' = BM!UnpinPage(BM!MarkDirty(
               [bm EXCEPT !.buf[slot.frame].ent[slot.idx] = 0,
                          !.buf[slot.frame].n = @ - 1], slot.frame), slot.frame)
    /\ Return(TRUE)
    /\ UNCHANGED <<hf, op, opn, dirf, cur, nxt, slot>>

(* ~HashTable deletes the buffer manager, whose destructor flushes every  *)
(* dirty frame and the file header (lines 91-93, BufferManager.h 33-37).  *)
Close ==
    /\ pc = "idle" /\ opn = Len(Script)
    /\ Store(BM!Flush(bm, hf))
    /\ pc' = "closed"
    /\ UNCHANGED <<op, opn, ret, dirf, cur, nxt, slot>>

Next ==
    \/ Invoke \/ ProbeDir \/ ProbeHead \/ ProbeScan \/ ProbeNext \/ InsertEntry
    \/ FindDir \/ FindHead \/ FindScan \/ FindNext \/ SearchEntry \/ EraseEntry
    \/ Close

(* The client's calls are sequential code: a step that can run does. *)
Spec == Init /\ [][Next]_vars /\ WF_vars(Next)
(***************************************************************************)
(* Properties                                                              *)
(***************************************************************************)
Frames == BM!Frames
MaxPin == Len(Script) + 2
Page == [next : 0..MaxPage, n : 0..Slots,
         ent : [1..PageWords -> 0..(MaxPage + Max(Keys))]]
PcName == {"idle", "closed", "g_dir", "g_head", "g_scan", "g_next", "ins_write",
           "p_dir", "p_head", "p_scan", "p_next", "s_ret", "e_ret"}

TypeOK ==
    /\ hf.disk \in [1..MaxPage -> Page]
    /\ hf.first_free \in 0..MaxPage /\ hf.fsize \in NDirPages..MaxPage
    /\ bm.meta \in [Frames -> [page : 0..MaxPage, pin : 0..MaxPin,
                               clock : 0..1, dirty : 0..1]]
    /\ bm.buf \in [Frames -> Page]
    /\ bm.table \in [BM!PageNos -> Frames \cup {BM!NoFrame}]
    /\ bm.hand \in Frames
    /\ pc \in PcName
    /\ opn \in 0..Len(Script)
    /\ {dirf, cur, nxt} \subseteq Frames \cup {BM!NoFrame}

(* The pages of the chain starting at p, as seen through View. *)
RECURSIVE ChainFrom(_, _, _)
ChainFrom(V(_), p, fuel) ==
    IF p = 0 \/ fuel = 0 THEN << >> ELSE << p >> \o ChainFrom(V, V(p).next, fuel - 1)

Heads(V(_)) == {V((b \div BucketsPerDir) + 1).ent[(b % BucketsPerDir) + 1] :
                  b \in 0..(NBuckets - 1)}
ChainPages(V(_)) == UNION {Range(ChainFrom(V, h, MaxPage)) : h \in Heads(V)}
KeysIn(V(_)) == {V(p).ent[i] : p \in ChainPages(V), i \in 1..Slots} \ {0}

PageView(p) == BM!View(bm, hf, p)
DiskView(p) == hf.disk[p]
StoredKeys == KeysIn(PageView)

(* The table refines HtMapSpec: every Insert, Search and Erase returns     *)
(* what a set of keys would, and changes the stored keys as it would,      *)
(* whatever compaction and eviction do along the way.                      *)
Map == INSTANCE HtMapSpec WITH keys <- StoredKeys, last <- ret
MapSemantics == Map!MSpec

(* The file's free list (HtFile::FreePage / AllocatePage) stays sound: no  *)
(* page twice, only bucket pages the file has handed out, none of them     *)
(* still linked into a chain or cached in a frame.                         *)
FreeListSound ==
    LET fl == File!FreeList(hf) IN
    /\ IsInjective(fl)
    /\ \A p \in Range(fl) :
          /\ p \in (NDirPages + 1)..hf.fsize
          /\ p \notin ChainPages(PageView)
          /\ bm.table[p] = BM!NoFrame

(* A frame whose dirty flag is clear is a copy of its page on disk: every  *)
(* change to a frame is followed by MarkDirty, and nothing writes a cached *)
(* page behind the buffer manager's back.                                  *)
CleanFramesMatchDisk ==
    \A v \in Frames :
        bm.meta[v].page # 0 /\ bm.meta[v].dirty = 0 => bm.buf[v] = hf.disk[bm.meta[v].page]

(* lookup_table and the frames' page_id agree, so a page is in at most one *)
(* frame and PinPage finds the frame that holds it.                        *)
LookupConsistent ==
    /\ \A v \in Frames : bm.meta[v].page # 0 => bm.table[bm.meta[v].page] = v
    /\ \A p \in BM!PageNos : bm.table[p] # BM!NoFrame => bm.meta[bm.table[p]].page = p

(* The EntrySlot GetFreeSlotWithProbe or ProbeAndCompress hands back       *)
(* points into a frame that is still pinned and still holds the page the   *)
(* slot was found in, however far the probe walked after finding it.       *)
SlotPinned ==
    pc \notin {"idle", "closed"} /\ free_slot =>
        bm.meta[slot.frame].pin > 0 /\ bm.meta[slot.frame].page = slot.page

(* Between operations no page is pinned: every PinPage of an operation is  *)
(* matched by an UnpinPage or a FreePage.                                  *)
NoPinLeak ==
    pc \in {"idle", "closed"} => \A v \in Frames : bm.meta[v].pin = 0

(* After ~HashTable, the file alone holds exactly the keys the table held. *)
Durable == pc = "closed" => KeysIn(DiskView) = StoredKeys
====
