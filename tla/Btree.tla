-------------------------------- MODULE Btree --------------------------------
(***************************************************************************)
(* Btree (src/Btree/btree.hpp, node.h): a B+-tree of order Order whose     *)
(* nodes are pages reached through a BtBufferManager.  One instance        *)
(* belongs to one YCSB thread, so a client runs the calls of Script one    *)
(* after the other (DbBtree::Insert and DbBtree::Read, db_btree.cc); each  *)
(* level of a descent and each level of the split pass is one step.        *)
(*                                                                         *)
(* The code keeps raw pointers into frames (node *stack[], node_cur, the   *)
(* references of split): the model keeps frame numbers and reads the node  *)
(* through them, whatever page the frame holds by then.  A key is a Pair   *)
(* reduced to its key (the record number only leads back to the same key); *)
(* the header page is a node whose data[0] is Metadata::count.             *)
(***************************************************************************)
EXTENDS Naturals, Sequences, FiniteSets, SequencesExt

CONSTANTS
    Order,      \* BTREE_ORDER
    NFrames,    \* the buffer manager's page_count
    Keys,       \* the keys the client uses, positive numbers
    Script      \* Script[i]: the calls the client may make i-th

MAX_LEVEL == 8
ROOT == 1                                       \* ROOT_PAGE_NUM
MinChildren == IF Order % 2 = 1 THEN (Order \div 2) + 1 ELSE Order \div 2
DataIdx == 0..Order                             \* MAX_DATA = BTREE_ORDER + 1
ChildIdx == 0..(Order + 1)                      \* MAX_CHILDREN = BTREE_ORDER + 2
(* Each insert allocates at most two pages per level it splits. *)
MaxPage == 1 + 3 * Len(Script)

(* Node(page_id): the constructor zeroes keys and children. *)
EmptyNode(p) == [data |-> [i \in DataIdx |-> 0], children |-> [i \in ChildIdx |-> 0],
                 right |-> 0, count |-> 0, page_id |-> p]
ZeroPage == EmptyNode(0)
(* Metadata(): count 1; record_count and the padding are left out. *)
Header(n) == [ZeroPage EXCEPT !.data[0] = n]

BM == INSTANCE BtBufferManager

VARIABLES
    disk,       \* the index file
    bm,         \* buf_mgr
    pc,         \* "idle", a step of insert or find, "closed"
    op,         \* the running call [kind, key]
    opn,        \* the number of calls started
    ret,        \* the last call's result [n, kind, key, ok]
    stk,        \* stack[0..stack_idx] with insert_pos: [f, pos], and pg,
                \* the page each frame was read for (a history variable)
    fcur        \* find's node_cur: [f, pg]

vars == <<disk, bm, pc, op, opn, ret, stk, fcur>>

(* The positions the while-loops of find and insert stop at: the first     *)
(* i < count with data[i] >= v (LowerPos), or with data[i] > v (UpperPos). *)
StopAt(n, Go(_)) ==
    LET S == {i \in 0..(n.count - 1) : ~Go(n.data[i])} IN
    IF S = {} THEN n.count ELSE Min(S)
LowerPosAppend(n, v) == n.count
LowerPos(n, v) == LET Lt(x) == x < v IN StopAt(n, Lt)
UpperPosLt(n, v) == LET Lt(x) == x < v IN StopAt(n, Lt)
UpperPos(n, v) == LET Le(x) == x <= v IN StopAt(n, Le)

IsOverflowLate(n) == n.count > Order + 1
IsOverflow(n) == n.count > Order

(* Node::insert_in_node: shift data[pos..count-1] and children[pos+1..]    *)
(* one place right, store v at pos.                                        *)
InsertInNode(n, pos, v) ==
    [n EXCEPT !.data = [j \in DataIdx |->
                         IF j = pos THEN v
                         ELSE IF pos < j /\ j <= n.count THEN n.data[j - 1] ELSE n.data[j]],
              !.children = [j \in ChildIdx |->
                         IF pos < j /\ j <= n.count + 1 THEN n.children[j - 1]
                         ELSE n.children[j]],
              !.count = @ + 1]

(* read_node: pin for reading. *)
ReadNode(b, d, p) == BM!PinPage(b, d, p, BM!PAGE_READ)

(* write_node: pin for writing and set dirty. *)
Dirtied(w) == [b |-> BM!SetDirty(w.b, w.fid), d |-> w.d]
WriteNodeClean(b, d, p) ==
    LET w == BM!PinPage(b, d, p, BM!PAGE_WRITE) IN [b |-> w.b, d |-> w.d]
WriteNode(b, d, p) == Dirtied(BM!PinPage(b, d, p, BM!PAGE_WRITE))

(* write_node of the page frame f holds, after r. *)
WriteFrame(r, f) == WriteNode(r.b, r.d, r.b.buf[f].page_id)

(* new_node: take ++count from the header, flush_header (write_node(0)),   *)
(* pin the new page for writing, set it dirty and construct a node there.  *)
(* Each stage takes the buffer manager and file the previous one left.     *)
Construct(n, pg) ==
    [b |-> [BM!SetDirty(n.b, n.fid) EXCEPT !.buf[n.fid] = EmptyNode(pg)],
     d |-> n.d, fid |-> n.fid]
NewNodePin(w, pg) == Construct(BM!PinPage(w.b, w.d, pg, BM!PAGE_WRITE), pg)
NewNodeFrom(h) ==
    NewNodePin(WriteNode([h.b EXCEPT !.buf[h.fid].data[0] = @ + 1], h.d, 0),
               h.b.buf[h.fid].data[0] + 1)
NewNodeNoIncrement(b, d) ==
    LET h == ReadNode(b, d, 0) IN NewNodePin(WriteNode(h.b, h.d, 0), h.b.buf[h.fid].data[0])
NewNode(b, d) == NewNodeFrom(ReadNode(b, d, 0))

(* Copy entries iter0.. of frame src into frame dst from index 0 (the      *)
(* for-loops of split and split_root): data and children move down,       *)
(* dst's count grows by one per entry, and the last child follows.         *)
MoveUpper(B, src, dst, iter0) ==
    LET k == Order + 1 - iter0
        s == B[src]
    IN [B EXCEPT ![dst].data = [j \in DataIdx |-> IF j < k THEN s.data[iter0 + j] ELSE @[j]],
                 ![dst].children = [j \in ChildIdx |->
                                     IF j <= k THEN s.children[iter0 + j] ELSE @[j]],
                 ![dst].count = @ + k]

(* The leaf case of split (lines 253-257): the new leaf f2 takes over f1's *)
(* right link, f1 links to f2, and the parent points at f2.                *)
LinkRightLost(B, pf, pos, f1, f2) ==
    LET R2 == [B EXCEPT ![f1].right = B[f2].page_id]
    IN [R2 EXCEPT ![pf].children[pos + 1] = R2[f2].page_id]
LinkRight(B, pf, pos, f1, f2) ==
    LET R1 == [B EXCEPT ![f2].right = B[f1].right]
        R2 == [R1 EXCEPT ![f1].right = R1[f2].page_id]
    IN [R2 EXCEPT ![pf].children[pos + 1] = R2[f2].page_id]

(* The statements of split(parent, pos) (lines 240-268) on the frames     *)
(* B: parent pf, its child f1 at pos, the new node f2, in the code's order. *)
SplitFrames(B, pf, pos, f1, f2) ==
    LET isLeaf == B[f1].children[0] = 0
        B1 == [B EXCEPT ![f1].count = MinChildren]
        B2 == [B1 EXCEPT ![pf] = InsertInNode(B1[pf], pos, B1[f1].data[MinChildren])]
        B3 == IF isLeaf THEN LinkRight(B2, pf, pos, f1, f2) ELSE B2
        B4 == MoveUpper(B3, f1, f2, IF isLeaf THEN MinChildren ELSE MinChildren + 1)
        B5 == [B4 EXCEPT ![pf].children[pos] = B4[f1].page_id]
    IN [B5 EXCEPT ![pf].children[pos + 1] = B5[f2].page_id]

(* split(parent, pos) (lines 234-275): read the child, new_node, move the  *)
(* upper half, write_node parent, child and new node.                      *)
SplitWrite(n2, f1, pf, pos) ==
    LET r == [b |-> [n2.b EXCEPT !.buf = SplitFrames(n2.b.buf, pf, pos, f1, n2.fid)],
              d |-> n2.d]
    IN WriteFrame(WriteFrame(WriteFrame(r, pf), f1), n2.fid)
SplitRead(c1, pf, pos) == SplitWrite(NewNode(c1.b, c1.d), c1.fid, pf, pos)
Split(b, d, pf, pos) == SplitRead(ReadNode(b, d, b.buf[pf].children[pos]), pf, pos)

(* The statements of split_root() (lines 285-317) on the frames B: the     *)
(* root rf keeps one separator and points at the new nodes f1 and f2.     *)
SplitRootFrames(B, rf, f1, f2) ==
    LET B1 == [B EXCEPT ![f1].data = [j \in DataIdx |->
                                        IF j < MinChildren THEN B[rf].data[j] ELSE @[j]],
                        ![f1].children = [j \in ChildIdx |->
                                        IF j <= MinChildren THEN B[rf].children[j] ELSE @[j]],
                        ![f1].count = @ + MinChildren]
        B2 == [B1 EXCEPT ![rf].data[0] = B1[rf].data[MinChildren]]
        B3 == [B2 EXCEPT ![f1].right = B2[f2].page_id]
        B4 == MoveUpper(B3, rf, f2,
                        IF B3[rf].children[0] # 0 THEN MinChildren + 1 ELSE MinChildren)
        B5 == [B4 EXCEPT ![rf].children[0] = B4[f1].page_id]
    IN [B5 EXCEPT ![rf].children[1] = B5[f2].page_id, ![rf].count = 1]

(* split_root() (lines 278-323): two new_nodes, then write_node root and   *)
(* both new nodes.                                                         *)
SplitRootWrite(n2, rf, f1) ==
    LET r == [b |-> [n2.b EXCEPT !.buf = SplitRootFrames(n2.b.buf, rf, f1, n2.fid)],
              d |-> n2.d]
    IN WriteFrame(WriteFrame(WriteFrame(r, rf), f1), n2.fid)
SplitRootNew(n1, rf) == SplitRootWrite(NewNode(n1.b, n1.d), rf, n1.fid)
SplitRootRead(r) == SplitRootNew(NewNode(r.b, r.d), r.fid)
SplitRoot(b, d) == SplitRootRead(ReadNode(b, d, ROOT))

(* The constructor on an empty file (lines 14-23): read the header page    *)
(* and construct Metadata in it, read the root and construct Node(1) in    *)
(* it, write_node the root, flush_header.                                  *)
BootRoot(h) ==
    LET r == ReadNode([h.b EXCEPT !.buf[h.fid] = Header(1)], h.d, ROOT)
    IN WriteNode([r.b EXCEPT !.buf[r.fid] = EmptyNode(ROOT)], r.d, ROOT)
(* File::File with trunc: an empty file of zero pages (is_empty()).       *)
NewFile == [p \in BM!PageNos |-> ZeroPage]

Boot ==
    LET w1 == BootRoot(ReadNode(BM!InitBuffer, NewFile, 0))
    IN WriteNode(w1.b, w1.d, 0)

Init ==
    /\ bm = Boot.b
    /\ disk = Boot.d
    /\ pc = "idle"
    /\ op = [kind |-> "none", key |-> 0]
    /\ opn = 0
    /\ ret = [n |-> 0, kind |-> "none", key |-> 0, ok |-> FALSE]
    /\ stk = << >>
    /\ fcur = [f |-> BM!NoFrame, pg |-> 0]

Return(ok) ==
    /\ pc' = "idle"
    /\ ret' = [n |-> opn, kind |-> op.kind, key |-> op.key, ok |-> ok]

(* The buffer manager and the file after a call. *)
Store(r) == bm' = r.b /\ disk' = r.d

(* DbBtree::Insert / Read: the next call pins the root (insert line 166,   *)
(* find line 107).                                                         *)
(* insert, lines 157-168: stack_idx = 0, read_node(root), stack[0] = root. *)
InsertStart(rootFrame) ==
    /\ pc' = "i_desc"
    /\ stk' = << [f |-> rootFrame, pg |-> ROOT, pos |-> 0] >>
    /\ UNCHANGED fcur

Invoke ==
    /\ pc = "idle" /\ opn < Len(Script)
    /\ LET r == ReadNode(bm, disk, ROOT) IN
       /\ Store(r)
       /\ \E o \in Script[opn + 1] :
            /\ op' = o
            /\ \/ o.kind = "insert" /\ InsertStart(r.fid)
               \/ o.kind = "read" /\ pc' = "f_desc"
                  /\ fcur' = [f |-> r.fid, pg |-> ROOT]
                  /\ UNCHANGED stk
    /\ opn' = opn + 1
    /\ UNCHANGED ret

(***************************************************************************)
(* insert (lines 157-208)                                                  *)
(***************************************************************************)

(* One iteration of Step 1 (lines 170-189): find the position in node_cur; *)
(* follow the child there, or at a leaf insert in place and write_node it. *)
InsertDescend ==
    /\ pc = "i_desc"
    /\ LET top == stk[Len(stk)]
           n   == bm.buf[top.f]
           pos == LowerPos(n, op.key)
       IN \/ /\ n.children[pos] # 0
             /\ Len(stk) < MAX_LEVEL
             /\ LET r == ReadNode(bm, disk, n.children[pos]) IN
                /\ Store(r)
                /\ stk' = [stk EXCEPT ![Len(stk)].pos = pos]
                          \o << [f |-> r.fid, pg |-> n.children[pos], pos |-> 0] >>
             /\ UNCHANGED pc
          \/ /\ n.children[pos] = 0
             /\ LET b1 == [bm EXCEPT !.buf[top.f] = InsertInNode(n, pos, op.key)] IN
                Store(WriteNode(b1, disk, b1.buf[top.f].page_id))
             /\ pc' = "i_unwind"
             /\ UNCHANGED stk
    /\ UNCHANGED <<op, opn, ret, fcur>>

(* One iteration of Step 2 (lines 193-202): split node_cur into its parent *)
(* if it overflows, then go up a level.                                    *)
InsertUnwind ==
    /\ pc = "i_unwind" /\ Len(stk) > 1
    /\ LET cur == stk[Len(stk)]
           par == stk[Len(stk) - 1]
       IN \E r \in {IF IsOverflow(bm.buf[cur.f]) THEN Split(bm, disk, par.f, par.pos)
                     ELSE [b |-> bm, d |-> disk]} : Store(r)
    /\ stk' = SubSeq(stk, 1, Len(stk) - 1)
    /\ UNCHANGED <<pc, op, opn, ret, fcur>>

(* Lines 203-207: split the root if it overflows, then                     *)
(* increment_record_and_flush (get_header, flush_header).                  *)
InsertEnd ==
    /\ pc = "i_unwind" /\ Len(stk) = 1
    /\ \E s \in {IF IsOverflow(bm.buf[stk[1].f]) THEN SplitRoot(bm, disk)
                  ELSE [b |-> bm, d |-> disk]} :
          LET h == ReadNode(s.b, s.d, 0) IN Store(WriteNode(h.b, h.d, 0))
    /\ Return(TRUE)
    /\ stk' = << >>
    /\ UNCHANGED <<op, opn, fcur>>

(***************************************************************************)
(* find (lines 99-131) and DbBtree::Read (db_btree.cc 34-58)               *)
(***************************************************************************)

(* One iteration of find's loop: an internal node is left through the     *)
(* first child whose separator exceeds the key; at a leaf the pair at the  *)
(* first position not below the key is returned (always present), and     *)
(* Read succeeds when that pair's record holds the key.                    *)
FindStep ==
    /\ pc = "f_desc"
    /\ LET n == bm.buf[fcur.f] IN
          \/ /\ n.children[0] # 0
             /\ LET c == n.children[UpperPos(n, op.key)]
                    r == ReadNode(bm, disk, c)
                IN Store(r) /\ fcur' = [f |-> r.fid, pg |-> c]
             /\ UNCHANGED <<pc, ret>>
          \/ /\ n.children[0] = 0
             /\ Return(n.data[LowerPos(n, op.key)] = op.key)
             /\ fcur' = [f |-> BM!NoFrame, pg |-> 0]
             /\ UNCHANGED <<bm, disk>>
    /\ UNCHANGED <<op, opn, stk>>

(* ~Btree: buf_mgr.Finalize() writes back every dirty frame. *)
Close ==
    /\ pc = "idle" /\ opn = Len(Script)
    /\ disk' = BM!Finalize(bm, disk)
    /\ pc' = "closed"
    /\ UNCHANGED <<bm, op, opn, ret, stk, fcur>>

Next == Invoke \/ InsertDescend \/ InsertUnwind \/ InsertEnd \/ FindStep \/ Close

(* When Next is enabled, read off the guards of its actions: the client   *)
(* can call or close while idle, find and the split pass always have a     *)
(* step, and a descent stops only at a full stack (MAX_LEVEL).             *)
CanStep ==
    \/ pc \in {"idle", "f_desc", "i_unwind"}
    \/ pc = "i_desc" /\ LET n == bm.buf[stk[Len(stk)].f] IN
                        n.children[LowerPos(n, op.key)] = 0
                        \/ Len(stk) < MAX_LEVEL

(* The client's calls are sequential code: a step that can run does.      *)
(* This is WF_vars(Next) with CanStep for ENABLED Next, which TLC would    *)
(* evaluate without sharing the intermediate pages of a split.            *)
Spec == Init /\ [][Next]_vars /\ ([]<>~CanStep \/ []<><<Next>>_vars)
(***************************************************************************)
(* Properties                                                              *)
(***************************************************************************)
Node == [data : [DataIdx -> Nat], children : [ChildIdx -> 0..MaxPage],
         right : 0..MaxPage, count : 0..(Order + 1), page_id : 0..MaxPage]
StackEntry == [f : BM!Frames, pg : 1..MaxPage, pos : 0..(Order + 1)]

TypeOK ==
    /\ disk \in [BM!PageNos -> Node]
    /\ bm.fr \in [BM!Frames -> [pid : BM!PageNos \cup {BM!NoPage}, used : 0..2,
                                dirty : 0..1]]
    /\ bm.buf \in [BM!Frames -> Node]
    /\ bm.table \in [BM!PageNos -> BM!Frames \cup {BM!NoFrame}]
    /\ bm.cur \in BM!Frames
    /\ pc \in {"idle", "closed", "i_desc", "i_unwind", "f_desc"}
    /\ opn \in 0..Len(Script)
    /\ stk \in Seq(StackEntry) /\ Len(stk) <= MAX_LEVEL

PageView(p) == BM!View(bm, disk, p)
DiskView(p) == disk[p]

IsLeaf(n) == n.children[0] = 0
Kids(n) == IF IsLeaf(n) THEN << >> ELSE [i \in 1..(n.count + 1) |-> n.children[i - 1]]

(* The pages reachable from the pages S in at most fuel child steps. *)
RECURSIVE Reach(_, _, _)
Reach(V(_), S, fuel) ==
    LET S1 == S \cup UNION {Range(Kids(V(q))) : q \in S} IN
    IF fuel = 0 \/ S1 = S THEN S ELSE Reach(V, S1, fuel - 1)
Pages(V(_), p) == Reach(V, {p}, MAX_LEVEL)

(* The leaves below p from left to right. *)
RECURSIVE Leaves(_, _, _)
Leaves(V(_), p, fuel) ==
    IF IsLeaf(V(p)) \/ fuel = 0 THEN << p >>
    ELSE FoldLeft(LAMBDA acc, c : acc \o Leaves(V, c, fuel - 1), << >>, Kids(V(p)))

LeafKeys(n) == {n.data[i] : i \in 0..(n.count - 1)}
KeysBelow(V(_), p) == UNION {LeafKeys(V(q)) : q \in {q \in Pages(V, p) : IsLeaf(V(q))}}
TreeKeys == KeysBelow(PageView, ROOT)

(* The tree refines BtIndexSpec: every insert adds its key and every read  *)
(* answers as a set of keys would, through splits, root splits and         *)
(* evictions.                                                              *)
(* An insert takes effect when the leaf takes its key (InsertDescend);     *)
(* the split pass after it must leave the keys as they are.               *)
LastCall ==
    IF pc = "i_unwind" THEN [n |-> opn, kind |-> op.kind, key |-> op.key, ok |-> TRUE]
    ELSE ret
Index == INSTANCE BtIndexSpec WITH keys <- TreeKeys, last <- LastCall
IndexSemantics == Index!ISpec

Between == pc \in {"idle", "closed"}

(* Between calls the pages form a tree: every node below the root is      *)
(* stored at its own page_id, no page is reached twice, and every page is  *)
(* one new_node handed out (at most the header's count).                  *)
TreeShape ==
    Between =>
        LET P == Pages(PageView, ROOT) IN
        /\ \A p \in P : PageView(p).page_id = p /\ 1 <= p /\ p <= PageView(0).data[0]
        /\ \A p \in P : IsInjective(Kids(PageView(p)))
        /\ \A p, q \in P : p # q => Range(Kids(PageView(p))) \cap Range(Kids(PageView(q))) = {}
        /\ \A p \in P : ROOT \notin Range(Kids(PageView(p)))

(* Spec property 4 as the code maintains it: keys ascend in every node,    *)
(* and each separator lies between the keys of its left and right          *)
(* subtrees (a leaf split copies the separator into the right leaf).       *)
(* Spec property 4 says strictly greater on the right; the code keeps the *)
(* separator itself in the right leaf, so only <= holds there.           *)
KeyOrder ==
    Between =>
        \A p \in Pages(PageView, ROOT) :
            LET n == PageView(p) IN
            /\ \A i \in 1..(n.count - 1) : n.data[i - 1] <= n.data[i]
            /\ ~IsLeaf(n) =>
                 \A i \in 0..(n.count - 1) :
                    /\ \A x \in KeysBelow(PageView, n.children[i]) : x <= n.data[i]
                    /\ \A y \in KeysBelow(PageView, n.children[i + 1]) : n.data[i] <= y

(* The right links chain the leaves in key order: following right from   *)
(* the leftmost leaf visits exactly the leaves of the tree, left to right *)
(* (what a range scan relies on).                                          *)
RECURSIVE RightChain(_, _, _)
RightChain(V(_), p, fuel) ==
    IF p = 0 \/ fuel = 0 THEN << >> ELSE << p >> \o RightChain(V, V(p).right, fuel - 1)
LeafChain ==
    Between =>
        LET L == Leaves(PageView, ROOT, MAX_LEVEL) IN
        RightChain(PageView, L[1], MaxPage) = L

(* The frames insert and find hold pointers into (stack[], node_cur)      *)
(* still hold the pages they were read for: the buffer manager did not    *)
(* reuse a frame the running call is using.                                *)
FramesInUseHeld ==
    /\ \A i \in 1..Len(stk) : bm.fr[stk[i].f].pid = stk[i].pg
    /\ pc = "f_desc" => bm.fr[fcur.f].pid = fcur.pg

(* After ~Btree the file alone holds the tree the buffer pool showed. *)
Durable == pc = "closed" => KeysBelow(DiskView, ROOT) = TreeKeys
====
