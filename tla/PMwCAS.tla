------------------------------- MODULE PMwCAS -------------------------------
(***************************************************************************)
(* The multi-word CAS of src/Bztree/mwcas.cc (PMWCAS_THREAD_HELP == 1 and  *)
(* PMWCAS_SAFE_MEMORY == 1), in both builds: with PMEM (PersistentMwCAS)   *)
(* or without (VolatileMwCAS, the Volatile actions), with or without RTM   *)
(* (RTMInstallDescriptors before the CondCAS loop).                        *)
(*                                                                         *)
(* The volatile build has no dirty bits, no flushes and no crashes: its    *)
(* status CAS is the commit point, and only mem, status and dw are used.   *)
(*                                                                         *)
(* Target words and descriptors live in persistent memory behind a cache:  *)
(* mem/status/dw are what the CPUs see, pmem/pstatus/pdw what survives a   *)
(* crash.  A flush (PersistAddress, PersistStatus, NVRAM::Flush) copies    *)
(* the cached value down; the cache may also write any line back at any    *)
(* time (the Evict actions).  A crash reloads the cache from persistent   *)
(* memory and DescriptorPool::Recovery rolls every descriptor forward or   *)
(* back.                                                                   *)
(*                                                                         *)
(* Every thread runs Descriptor::PersistentMwCAS on a stack of frames: a   *)
(* frame is one activation (the owner at depth 1, a helper of another     *)
(* descriptor above it).  Each step of a frame is one atomic access to     *)
(* shared memory (a CAS, a read, or a flush with its dirty-bit clearing).  *)
(***************************************************************************)
EXTENDS Naturals, Sequences, FiniteSets, SequencesExt

CONSTANTS
    Threads,     \* threads using the pool, one partition each
    Addrs,       \* target word addresses (positive integers, sortable)
    Desc,        \* descriptors of the pool (positive integers)
    Part,        \* Part[t]: the descriptors of thread t's partition
    Ops,         \* Ops[t]: sequence of operations, each a set of [addr, old, new]
    InitVal,     \* initial value of every target word
    MaxCrashes,  \* bound on the number of crashes
    Reads,       \* Reads[t]: words t reads with GetValue after its operations
    PMEM,        \* TRUE: the build with -DPMEM; FALSE: the volatile build
    RTM          \* TRUE: the build with -DRTM

NoDesc == 0

ASSUME PMEM \in BOOLEAN /\ RTM \in BOOLEAN
ASSUME ~PMEM => MaxCrashes = 0

ASSUME Part \in [Threads -> SUBSET Desc]
ASSUME \A t, u \in Threads : t # u => Part[t] \cap Part[u] = {}
ASSUME \A t \in Threads : \A k \in DOMAIN Ops[t] :
          \A e1, e2 \in Ops[t][k] : e1.addr = e2.addr => e1 = e2

(* The kStatus constants of Descriptor (include/mwcas.h:426-429). *)
Finished == "Finished"
Succeeded == "Succeeded"
Failed == "Failed"
Undecided == "Undecided"

(* A 64-bit target word: a plain value, a pointer to an MwCAS descriptor   *)
(* (kMwCASFlag), or a pointer to one word descriptor (kCondCASFlag), with  *)
(* the kDirtyFlag bit.  A word descriptor is named by (descriptor, addr).  *)
Val(v) == [tag |-> "V", v |-> v, d |-> NoDesc, a |-> 0, dirty |-> FALSE]
MwPtr(d) == [tag |-> "M", v |-> 0, d |-> d, a |-> 0, dirty |-> FALSE]
CondPtr(d, a) == [tag |-> "C", v |-> 0, d |-> d, a |-> a, dirty |-> FALSE]
SetDirty(w) == [w EXCEPT !.dirty = TRUE]
Clean(w) == [w EXCEPT !.dirty = FALSE]
RefersTo(w, d) == w.tag # "V" /\ w.d = d

AllEntries == UNION {UNION Range(Ops[t]) : t \in Threads}
Vals == {InitVal} \cup {e.old : e \in AllEntries} \cup {e.new : e \in AllEntries}

VARIABLES
    mem, pmem,          \* target words: cached / persistent
    status, pstatus,    \* Descriptor::status_ as [s, dirty]: cached / persistent
    dw, pdw,            \* Descriptor::words_ (sorted by address): cached / persistent
    dstate,             \* "free" (on free_list), "owned", "garbage" (in garbage_list)
    gwait,              \* gwait[d]: threads whose epoch still protects garbage d
    stack,              \* stack[t]: PersistentMwCAS activations of thread t
    tpc,                \* tpc[t]: "alloc", "add", "ready", "run", "read", "done"
    opi,                \* opi[t]: index of t's current operation in Ops[t]
    cur,                \* cur[t]: descriptor of t's current operation
    crashes,            \* number of crashes so far
    rec,                \* recovery cursor [i, j]; i = 0 when not recovering
    rdi,                \* rdi[t]: index of t's current read in Reads[t]
    conflict            \* history: a reason t's current operation may fail

pvars == <<mem, pmem, status, pstatus, dw, pdw, dstate, gwait, stack, tpc,
           opi, cur, crashes, rec, rdi>>
vars == <<pvars, conflict>>

DescList == SetToSortSeq(Desc, <)

(* A status word with kStatusDirtyFlag clear. *)
St(s) == [s |-> s, dirty |-> FALSE]
OpSet(t) == Ops[t][opi[t]]
InOp(t) == tpc[t] \in {"add", "ready", "run"}
(* Inside an EpochGuard: an operation, or GetValue (mwcas.h 744, 706).   *)
InEpoch(t) == InOp(t) \/ tpc[t] = "read"
ReadOrDone(t, i) == IF i > Len(Reads[t]) THEN "done" ELSE "read"
NextOp(t) == IF opi[t] + 1 > Len(Ops[t]) THEN ReadOrDone(t, 1) ELSE "alloc"

(* The entry of descriptor d for address a, and its old and new values.    *)
(* A word descriptor that no longer lists a (reused descriptor) reads as   *)
(* the zeros Finalize wrote.                                               *)
(* A word descriptor Finalize has cleared: address kAllocNullAddress.     *)
NullEntry == [addr |-> 0, old |-> 0, new |-> 0]
Cleared(ws) == [k \in DOMAIN ws |-> NullEntry]

EntriesAt(d, a) == {e \in Range(dw[d]) : e.addr = a}
OldAt(d, a) == IF EntriesAt(d, a) = {} THEN 0 ELSE (CHOOSE e \in EntriesAt(d, a) : TRUE).old
NewAt(d, a) == IF EntriesAt(d, a) = {} THEN 0 ELSE (CHOOSE e \in EntriesAt(d, a) : TRUE).new

Frame(d) == [d |-> d, pc |-> "entry", i |-> 1, my |-> Succeeded, st |-> Finished,
             ret |-> Val(0), wd |-> NoDesc, wa |-> 0, des |-> Val(0),
             back |-> "next", succ |-> FALSE]
(* The frame with its scratch fields (values held only within one call)    *)
(* forgotten, at pc.                                                       *)
Goto(f, pc) == [f EXCEPT !.pc = pc, !.st = Finished, !.ret = Val(0), !.wd = NoDesc,
                         !.wa = 0, !.des = Val(0), !.back = "next"]
Top(t) == stack[t][Len(stack[t])]
SetTop(t, f) == stack' = [stack EXCEPT ![t][Len(stack[t])] = f]

(***************************************************************************)
(* The logical value of a target word, as a reader helping through         *)
(* GetValueProtectedPersistent would get it: a pointer to an MwCAS        *)
(* descriptor stands for its new value once the Succeeded status is        *)
(* persistent and for its old value before; a pointer to a word            *)
(* descriptor stands for its old value.                                    *)
(***************************************************************************)
IsCommitted(d, ps, s) == d # NoDesc /\ (IF PMEM THEN ps[d] ELSE s[d]).s = Succeeded
Committed(d) == IsCommitted(d, pstatus, status)

LogicalVal(a) ==
    LET w == mem[a] IN
    CASE w.tag = "V" -> w.v
      [] w.tag = "M" -> IF Committed(w.d) THEN NewAt(w.d, a) ELSE OldAt(w.d, a)
      [] OTHER -> OldAt(w.d, a)

OpAddrs(t) == {e.addr : e \in OpSet(t)}

(* History: u's operation may fail once an overlapping operation commits  *)
(* while it runs, i.e. when d becomes Committed.                           *)
NoteCommit(d) ==
    conflict' = [u \in Threads |->
        \/ conflict[u]
        \/ /\ ~Committed(d) /\ IsCommitted(d, pstatus', status')
           /\ tpc[u] = "run" /\ cur[u] # d
           /\ \E v \in Threads : /\ tpc[v] = "run" /\ cur[v] = d
                                /\ OpAddrs(u) \cap OpAddrs(v) # {}]

Init ==
    /\ mem = [a \in Addrs |-> Val(InitVal)]
    /\ pmem = mem
    /\ status = [d \in Desc |-> St(Finished)]
    /\ pstatus = status
    /\ dw = [d \in Desc |-> <<>>]
    /\ pdw = dw
    /\ dstate = [d \in Desc |-> "free"]
    /\ gwait = [d \in Desc |-> {}]
    /\ stack = [t \in Threads |-> <<>>]
    /\ tpc = [t \in Threads |-> IF Ops[t] = <<>> THEN ReadOrDone(t, 1) ELSE "alloc"]
    /\ opi = [t \in Threads |-> 1]
    /\ cur = [t \in Threads |-> NoDesc]
    /\ crashes = 0
    /\ rec = [i |-> 0, j |-> 0]
    /\ rdi = [t \in Threads |-> 1]
    /\ conflict = [t \in Threads |-> FALSE]

Running == rec.i = 0

(* Mutation: Initialize does not persist the Undecided status. *)
AllocateDescriptorNoPersist(t) ==
    /\ Running /\ tpc[t] = "alloc"
    /\ \E d \in Part[t] :
        /\ dstate[d] = "free"
        /\ dstate' = [dstate EXCEPT ![d] = "owned"]
        /\ status' = [status EXCEPT ![d] = St(Undecided)]
        /\ cur' = [cur EXCEPT ![t] = d]
    /\ tpc' = [tpc EXCEPT ![t] = "add"]
    /\ UNCHANGED <<mem, pmem, pstatus, dw, pdw, gwait, stack, opi, crashes, rec, conflict, rdi>>

(* Descriptor::Initialize: the status becomes Undecided and, with PMEM,   *)
(* is persisted before any entry is added.                                 *)
Initialize(d) ==
    /\ status' = [status EXCEPT ![d] = St(Undecided)]
    /\ pstatus' = IF PMEM THEN [pstatus EXCEPT ![d] = St(Undecided)] ELSE pstatus

(* DescriptorPool::AllocateDescriptor: pop the partition's free list and   *)
(* Initialize the descriptor.  An empty free list leaves the thread at      *)
(* "alloc", where the scavenge loop frees garbage (FreeDescriptor).         *)
AllocateDescriptor(t) ==
    /\ Running /\ tpc[t] = "alloc"
    /\ \E d \in Part[t] :
        /\ dstate[d] = "free"
        /\ dstate' = [dstate EXCEPT ![d] = "owned"]
        /\ Initialize(d)
        /\ cur' = [cur EXCEPT ![t] = d]
    /\ tpc' = [tpc EXCEPT ![t] = "add"]
    /\ UNCHANGED <<mem, pmem, dw, pdw, gwait, stack, opi, crashes, rec, conflict, rdi>>

(* Mutation: the garbage list frees an item without waiting for its epoch. *)
FreeDescriptorNoEpoch(t) ==
    /\ Running /\ tpc[t] = "alloc"
    /\ \E d \in Part[t] :
        /\ dstate[d] = "garbage"
        /\ status' = [status EXCEPT ![d] = St(Finished)]
        /\ dw' = [dw EXCEPT ![d] = Cleared(@)]
        /\ pdw' = [pdw EXCEPT ![d] = Cleared(dw[d])]
        /\ dstate' = [dstate EXCEPT ![d] = "free"]
    /\ UNCHANGED <<mem, pmem, pstatus, gwait, stack, tpc, opi, cur, crashes, rec, conflict, rdi>>

(* GarbageList Push/Scavenge calling Descriptor::FreeDescriptor on an item *)
(* whose epoch is safe: DeallocateMemory, then Finalize (status Finished,  *)
(* not persisted; with PMEM words cleared and flushed; count_ kept), then  *)
(* back on the free list.                                                  *)
FreeDescriptor(t) ==
    /\ Running /\ tpc[t] = "alloc"
    /\ \E d \in Part[t] :
        /\ dstate[d] = "garbage" /\ gwait[d] = {}
        /\ status' = [status EXCEPT ![d] = St(Finished)]
        /\ dw' = IF PMEM THEN [dw EXCEPT ![d] = Cleared(@)] ELSE dw
        /\ pdw' = IF PMEM THEN [pdw EXCEPT ![d] = Cleared(dw[d])] ELSE pdw
        /\ dstate' = [dstate EXCEPT ![d] = "free"]
    /\ UNCHANGED <<mem, pmem, pstatus, gwait, stack, tpc, opi, cur, crashes, rec, conflict, rdi>>

(* Descriptor::AddEntry for every word of the operation; the entries are   *)
(* kept in the address order PersistentMwCAS sorts them into.              *)
AddEntries(t) ==
    /\ Running /\ tpc[t] = "add"
    /\ dw' = [dw EXCEPT ![cur[t]] = SetToSortSeq(OpSet(t), LAMBDA x, y : x.addr < y.addr)]
    /\ tpc' = [tpc EXCEPT ![t] = "ready"]
    /\ UNCHANGED <<mem, pmem, status, pstatus, pdw, dstate, gwait, stack, opi, cur,
                   crashes, rec, conflict, rdi>>

(* Mutant: the thread never leaves its epoch (no Unprotect).             *)
RetireNoUnprotect(t, d) ==
    /\ dstate' = [dstate EXCEPT ![d] = "garbage"]
    /\ gwait' = [e \in Desc |-> IF e = d THEN {u \in Threads \ {t} : InEpoch(u)}
                                 ELSE gwait[e]]
    /\ tpc' = [tpc EXCEPT ![t] = NextOp(t)]
    /\ opi' = [opi EXCEPT ![t] = @ + 1]

(* Push d on the garbage list: every thread inside an epoch now must leave *)
(* it before d is reclaimed; then t itself leaves its operation.           *)
Retire(t, d) ==
    /\ dstate' = [dstate EXCEPT ![d] = "garbage"]
    /\ gwait' = [e \in Desc |-> IF e = d THEN {u \in Threads \ {t} : InEpoch(u)}
                                 ELSE gwait[e] \ {t}]
    /\ tpc' = [tpc EXCEPT ![t] = NextOp(t)]
    /\ opi' = [opi EXCEPT ![t] = @ + 1]

(* Descriptor::Abort (via DescriptorGuard) before MwCAS() is called.       *)
Abort(t) ==
    /\ Running /\ tpc[t] = "ready"
    /\ status' = [status EXCEPT ![cur[t]] = St(Failed)]
    /\ Retire(t, cur[t])
    /\ UNCHANGED <<mem, pmem, pstatus, dw, pdw, stack, cur, crashes, rec, conflict, rdi>>

(* Mutation: the word descriptors are not flushed before they are used. *)
MwCASNoFlush(t) ==
    /\ Running /\ tpc[t] = "ready"
    /\ stack' = [stack EXCEPT ![t] = <<Frame(cur[t])>>]
    /\ tpc' = [tpc EXCEPT ![t] = "run"]
    /\ conflict' = [conflict EXCEPT ![t] = \E e \in OpSet(t) : LogicalVal(e.addr) # e.old]
    /\ UNCHANGED <<mem, pmem, status, pstatus, dw, pdw, dstate, gwait, opi, cur, crashes, rec, rdi>>

(* Descriptor::MwCAS -> PersistentMwCAS(0), lines 727-743: flush the word  *)
(* descriptors before the descriptor becomes visible.                      *)
MwCAS(t) ==
    /\ PMEM /\ Running /\ tpc[t] = "ready"
    /\ pdw' = [pdw EXCEPT ![cur[t]] = dw[cur[t]]]
    /\ stack' = [stack EXCEPT ![t] = <<Frame(cur[t])>>]
    /\ tpc' = [tpc EXCEPT ![t] = "run"]
    /\ conflict' = [conflict EXCEPT ![t] = \E e \in OpSet(t) : LogicalVal(e.addr) # e.old]
    /\ UNCHANGED <<mem, pmem, status, pstatus, dw, dstate, gwait, opi, cur, crashes, rec, rdi>>

(* Descriptor::MwCAS -> VolatileMwCAS(0), lines 621-635: the words are     *)
(* sorted in place (AddEntries keeps them sorted) and nothing is flushed.  *)
VolatileMwCAS(t) ==
    /\ ~PMEM /\ Running /\ tpc[t] = "ready"
    /\ stack' = [stack EXCEPT ![t] = <<Frame(cur[t])>>]
    /\ tpc' = [tpc EXCEPT ![t] = "run"]
    /\ conflict' = [conflict EXCEPT ![t] = \E e \in OpSet(t) : LogicalVal(e.addr) # e.old]
    /\ UNCHANGED <<mem, pmem, status, pstatus, dw, pdw, dstate, gwait, opi, cur, crashes, rec, rdi>>

(***************************************************************************)
(* Steps of the top activation f of thread t.  Names of pcs:               *)
(*   entry, entry_flush   ReadPersistStatus at line 749                    *)
(*   cc, cc_dirty         CondCAS (500-536) and its dirty-word help        *)
(*   ccc, ccc_flush,      PersistentCompleteCondCAS (551-565) on the word  *)
(*   ccc_cas, ccc_persist   descriptor (wd, wa)                            *)
(*   decide, pstat        status CAS (804), PersistStatus + clear (811-812) *)
(*   p2, fin, fin_persist phase 2 (815-832)                                *)
(*   ret                  return: Cleanup at depth 0, else back to caller  *)
(***************************************************************************)
FrameStep(t, pc) == Running /\ stack[t] # <<>> /\ Top(t).pc = pc

(* words_[indexes_[i]]: past count_ of a reused descriptor only cleared    *)
(* words remain.                                                           *)
EntryOf(f) == IF f.i <= Len(dw[f.d]) THEN dw[f.d][f.i] ELSE NullEntry

(* Mutation: the phase-1 loop bound is off by one. *)
NextWordPastEnd(f) ==
    IF f.i <= Len(dw[f.d]) THEN [Goto(f, "cc") EXCEPT !.i = @ + 1]
    ELSE Goto(f, "decide")

(* The for-loop of phase 1 moves to the next word while my_status holds.   *)
NextWord(f) ==
    IF f.i < Len(dw[f.d]) THEN [Goto(f, "cc") EXCEPT !.i = @ + 1]
    ELSE Goto(f, "decide")

(* ReadPersistStatus() != kStatusUndecided ? goto phase_2 : phase 1, which  *)
(* starts with RTMInstallDescriptors in the RTM build (lines 653-655,     *)
(* 762-765).                                                               *)
AfterStatus(f, s) ==
    IF s = Undecided THEN [Goto(f, IF RTM THEN "rtm" ELSE "cc") EXCEPT !.i = 1, !.my = Succeeded]
    ELSE Goto(f, "p2")

(* PersistentMwCAS line 749: read the status; a dirty one is persisted     *)
(* and its dirty bit cleared by CAS before it is used.                     *)
ReadStatus(t) ==
    LET f == Top(t) IN
    /\ FrameStep(t, "entry")
    /\ SetTop(t, IF status[f.d].dirty
                 THEN [f EXCEPT !.pc = "entry_flush", !.st = status[f.d].s]
                 ELSE AfterStatus(f, status[f.d].s))
    /\ UNCHANGED <<mem, pmem, status, pstatus, dw, pdw, dstate, gwait, tpc, opi, cur,
                   crashes, rec, conflict, rdi>>

PersistStatusFlag(d, st) ==
    /\ pstatus' = [pstatus EXCEPT ![d] = status[d]]
    /\ status' = [status EXCEPT ![d] = IF @ = [s |-> st, dirty |-> TRUE] THEN St(st) ELSE @]

ReadStatusFlush(t) ==
    LET f == Top(t) IN
    /\ FrameStep(t, "entry_flush")
    /\ PersistStatusFlag(f.d, f.st)
    /\ NoteCommit(f.d)
    /\ SetTop(t, AfterStatus(f, f.st))
    /\ UNCHANGED <<mem, pmem, dw, pdw, dstate, gwait, tpc, opi, cur, crashes, rec, rdi>>

(* Persist the dirty word w at a and CAS its dirty bit off (CondCAS lines  *)
(* 512-516, PersistentCompleteCondCAS 562-563, phase 2 828-829).          *)
PersistWord(a, w) ==
    /\ pmem' = [pmem EXCEPT ![a] = mem[a]]
    /\ mem' = [mem EXCEPT ![a] = IF @ = w THEN Clean(w) ELSE @]

(***************************************************************************)
(* Descriptor::RTMInstallDescriptors (lines 569-616).  Retries of the      *)
(* transaction change nothing, so the kMaxTries loop is one step: the      *)
(* transaction commits only if every listed word holds exactly its old     *)
(* value (else _xabort), and it may always abort for other reasons until   *)
(* the tries run out; then the CondCAS loop runs as the fallback.  On      *)
(* success the volatile build goes on to the status CAS, the PMEM build    *)
(* first persists each installed pointer (lines 590-604).                  *)
(***************************************************************************)
Listed(d) == {e \in Range(dw[d]) : e.addr # 0}

InstallPtr(d) == IF PMEM THEN SetDirty(MwPtr(d)) ELSE MwPtr(d)

(* Mutation: the transaction installs without comparing the old values. *)
RTMInstallNoCompare(t) ==
    LET f == Top(t) IN
    /\ FrameStep(t, "rtm")
    /\ \/ /\ mem' = [a \in Addrs |-> IF \E e \in Listed(f.d) : e.addr = a
                                     THEN InstallPtr(f.d) ELSE mem[a]]
          /\ SetTop(t, Goto(f, IF PMEM THEN "rtm_persist" ELSE "decide"))
       \/ /\ SetTop(t, Goto(f, "cc"))
          /\ UNCHANGED mem
    /\ UNCHANGED <<pmem, status, pstatus, dw, pdw, dstate, gwait, tpc, opi, cur, crashes, rec, conflict, rdi>>

RTMInstall(t) ==
    LET f == Top(t) IN
    /\ FrameStep(t, "rtm")
    /\ \/ /\ \A e \in Listed(f.d) : mem[e.addr] = Val(e.old)
          /\ mem' = [a \in Addrs |-> IF \E e \in Listed(f.d) : e.addr = a
                                     THEN InstallPtr(f.d) ELSE mem[a]]
          /\ SetTop(t, Goto(f, IF PMEM THEN "rtm_persist" ELSE "decide"))
       \/ /\ SetTop(t, Goto(f, "cc"))
          /\ UNCHANGED mem
    /\ UNCHANGED <<pmem, status, pstatus, dw, pdw, dstate, gwait, tpc, opi, cur, crashes, rec, conflict, rdi>>

(* Lines 591-604: for each listed word still holding the dirty pointer,    *)
(* persist it and CAS the dirty bit off; then return true.                 *)
RTMPersist(t) ==
    LET f == Top(t)
        e == EntryOf(f)
    IN
    /\ FrameStep(t, "rtm_persist")
    /\ IF e.addr # 0 /\ mem[e.addr] = InstallPtr(f.d)
       THEN PersistWord(e.addr, InstallPtr(f.d))
       ELSE UNCHANGED <<mem, pmem>>
    /\ SetTop(t, IF f.i < Len(dw[f.d]) THEN [f EXCEPT !.i = @ + 1]
                 ELSE [Goto(f, "decide") EXCEPT !.i = 1])
    /\ UNCHANGED <<status, pstatus, dw, pdw, dstate, gwait, tpc, opi, cur, crashes, rec, conflict, rdi>>

(* Descriptor::CondCAS: CAS(addr, CondPtr, old) and what PersistentMwCAS    *)
(* does with the value it returns (lines 768-801).                          *)
(* Mutation: the loop forgets that the word may already hold this very    *)
(* descriptor (CleanPtr(rval) == self) and helps it.                       *)
CondCASOutcomeNoSelf(t, f, w, ret) ==
    CASE ret.dirty ->
           SetTop(t, [f EXCEPT !.pc = "cc_dirty", !.ret = ret])
      [] ret.tag = "C" ->
           SetTop(t, [f EXCEPT !.pc = "ccc", !.wd = ret.d, !.wa = ret.a, !.back = "retry"])
      [] ret = Val(w.old) ->
           SetTop(t, [f EXCEPT !.pc = "ccc", !.wd = f.d, !.wa = w.addr, !.back = "next"])
      [] ret.tag = "M" ->
           stack' = [stack EXCEPT ![t] = Append(@, Frame(ret.d))]
      [] OTHER ->
           SetTop(t, [f EXCEPT !.pc = "decide", !.my = Failed])

(* What CondCAS and the phase-1 loop do with the value ret the CAS saw on  *)
(* word w: help a dirty word, complete a CondCAS, continue when the word   *)
(* held the old value or this descriptor, help another MwCAS, else fail.   *)
CondCASOutcome(t, f, w, ret) ==
    CASE ret.dirty ->
           SetTop(t, [f EXCEPT !.pc = "cc_dirty", !.ret = ret])
      [] ret.tag = "C" ->
           SetTop(t, [f EXCEPT !.pc = "ccc", !.wd = ret.d, !.wa = ret.a, !.back = "retry"])
      [] ret = Val(w.old) ->
           SetTop(t, [f EXCEPT !.pc = "ccc", !.wd = f.d, !.wa = w.addr, !.back = "next"])
      [] ret = MwPtr(f.d) ->
           SetTop(t, NextWord(f))
      [] ret.tag = "M" ->
           stack' = [stack EXCEPT ![t] = Append(@, Frame(ret.d))]
      [] OTHER ->
           SetTop(t, [f EXCEPT !.pc = "decide", !.my = Failed])

CondCAS(t) ==
    LET f == Top(t)
        w == EntryOf(f)
        ret == mem[w.addr]
    IN
    /\ FrameStep(t, "cc")
    /\ IF w.addr = 0
       THEN SetTop(t, NextWord(f)) /\ UNCHANGED mem   \* line 772: skip a null entry
       ELSE /\ mem' = IF ret = Val(w.old) THEN [mem EXCEPT ![w.addr] = CondPtr(f.d, w.addr)]
                     ELSE mem
            /\ CondCASOutcome(t, f, w, ret)
    /\ UNCHANGED <<pmem, status, pstatus, dw, pdw, dstate, gwait, tpc, opi, cur, crashes, rec, conflict, rdi>>

(* CondCAS lines 512-516: persist the dirty word it saw, then retry.     *)
CondCASDirty(t) ==
    LET f == Top(t) IN
    /\ FrameStep(t, "cc_dirty")
    /\ PersistWord(EntryOf(f).addr, f.ret)
    /\ SetTop(t, Goto(f, "cc"))
    /\ UNCHANGED <<status, pstatus, dw, pdw, dstate, gwait, tpc, opi, cur, crashes, rec, conflict, rdi>>

(* PersistentCompleteCondCAS line 557 (VolatileCompleteCondCAS 543-544):  *)
(* the value to install depends on the status of the word descriptor's     *)
(* MwCAS; with PMEM it carries the dirty bit.                              *)
Desired(d, a, s) ==
    LET v == IF s = Undecided THEN MwPtr(d) ELSE Val(OldAt(d, a))
    IN IF PMEM THEN SetDirty(v) ELSE v

(* Where CondCAS goes after completing a CondCAS: retry on another's, or   *)
(* return the old value to the phase-1 loop, which moves on; a GetValue   *)
(* that completed one returns to its retry.                               *)
AfterCCC(f) == CASE f.back = "retry" -> Goto(f, "cc")
                 [] f.back = "read" -> Goto(f, "ret")
                 [] OTHER -> NextWord(f)

CompleteReadStatus(t) ==
    LET f == Top(t) IN
    /\ FrameStep(t, "ccc")
    /\ SetTop(t, IF status[f.wd].dirty
                 THEN [f EXCEPT !.pc = "ccc_flush", !.st = status[f.wd].s]
                 ELSE [f EXCEPT !.pc = "ccc_cas", !.des = Desired(f.wd, f.wa, status[f.wd].s)])
    /\ UNCHANGED <<mem, pmem, status, pstatus, dw, pdw, dstate, gwait, tpc, opi, cur,
                   crashes, rec, conflict, rdi>>

CompleteReadStatusFlush(t) ==
    LET f == Top(t) IN
    /\ FrameStep(t, "ccc_flush")
    /\ PersistStatusFlag(f.wd, f.st)
    /\ NoteCommit(f.wd)
    /\ SetTop(t, [f EXCEPT !.pc = "ccc_cas", !.st = Finished, !.des = Desired(f.wd, f.wa, f.st)])
    /\ UNCHANGED <<mem, pmem, dw, pdw, dstate, gwait, tpc, opi, cur, crashes, rec, rdi>>

CompleteCAS(t) ==
    LET f == Top(t)
        rval == mem[f.wa]
    IN
    /\ PMEM /\ FrameStep(t, "ccc_cas")
    /\ mem' = IF rval = CondPtr(f.wd, f.wa) THEN [mem EXCEPT ![f.wa] = f.des] ELSE mem
    /\ SetTop(t, IF rval \in {CondPtr(f.wd, f.wa), f.des}
                 THEN [f EXCEPT !.pc = "ccc_persist"] ELSE AfterCCC(f))
    /\ UNCHANGED <<pmem, status, pstatus, dw, pdw, dstate, gwait, tpc, opi, cur, crashes, rec, conflict, rdi>>

(* VolatileCompleteCondCAS line 545: CAS the word from CondPtr to the      *)
(* desired value and return, whatever the CAS saw.                         *)
VolatileCompleteCAS(t) ==
    LET f == Top(t) IN
    /\ ~PMEM /\ FrameStep(t, "ccc_cas")
    /\ mem' = IF mem[f.wa] = CondPtr(f.wd, f.wa) THEN [mem EXCEPT ![f.wa] = f.des] ELSE mem
    /\ SetTop(t, AfterCCC(f))
    /\ UNCHANGED <<pmem, status, pstatus, dw, pdw, dstate, gwait, tpc, opi, cur, crashes, rec, conflict, rdi>>

(* Mutation: the installed descriptor pointer loses its dirty bit without *)
(* being flushed.                                                          *)
CompletePersistNoFlush(t) ==
    LET f == Top(t) IN
    /\ FrameStep(t, "ccc_persist")
    /\ mem' = [mem EXCEPT ![f.wa] = IF @ = f.des THEN Clean(f.des) ELSE @]
    /\ SetTop(t, AfterCCC(f))
    /\ UNCHANGED <<pmem, status, pstatus, dw, pdw, dstate, gwait, tpc, opi, cur, crashes, rec, conflict, rdi>>

CompletePersist(t) ==
    LET f == Top(t) IN
    /\ FrameStep(t, "ccc_persist")
    /\ PersistWord(f.wa, f.des)
    /\ SetTop(t, AfterCCC(f))
    /\ UNCHANGED <<status, pstatus, dw, pdw, dstate, gwait, tpc, opi, cur, crashes, rec, conflict, rdi>>

(* Line 804: CAS the status from Undecided to my_status | dirty.          *)
DecideStatus(t) ==
    LET f == Top(t) IN
    /\ PMEM /\ FrameStep(t, "decide")
    /\ status' = [status EXCEPT ![f.d] = IF @ = St(Undecided)
                                         THEN [s |-> f.my, dirty |-> TRUE] ELSE @]
    /\ SetTop(t, [f EXCEPT !.pc = "pstat"])
    /\ UNCHANGED <<mem, pmem, pstatus, dw, pdw, dstate, gwait, tpc, opi, cur, crashes, rec, conflict, rdi>>

(* Mutation: the status is stored, not CASed from Undecided. *)
VolatileDecideStatusStore(t) ==
    LET f == Top(t) IN
    /\ ~PMEM /\ FrameStep(t, "decide")
    /\ status' = [status EXCEPT ![f.d] = St(f.my)]
    /\ NoteCommit(f.d)
    /\ SetTop(t, [f EXCEPT !.pc = "p2"])
    /\ UNCHANGED <<mem, pmem, pstatus, dw, pdw, dstate, gwait, tpc, opi, cur, crashes, rec, rdi>>

(* VolatileMwCAS line 690: CAS the status from Undecided to my_status; it  *)
(* commits the operation, and phase 2 follows (line 692).                  *)
VolatileDecideStatus(t) ==
    LET f == Top(t) IN
    /\ ~PMEM /\ FrameStep(t, "decide")
    /\ status' = [status EXCEPT ![f.d] = IF @ = St(Undecided) THEN St(f.my) ELSE @]
    /\ NoteCommit(f.d)
    /\ SetTop(t, [f EXCEPT !.pc = "p2"])
    /\ UNCHANGED <<mem, pmem, pstatus, dw, pdw, dstate, gwait, tpc, opi, cur, crashes, rec, rdi>>

(* Lines 811-812: PersistStatus(), then status_ &= ~kStatusDirtyFlag.      *)
PersistStatus(t) ==
    LET f == Top(t) IN
    /\ FrameStep(t, "pstat")
    /\ pstatus' = [pstatus EXCEPT ![f.d] = status[f.d]]
    /\ status' = [status EXCEPT ![f.d].dirty = FALSE]
    /\ NoteCommit(f.d)
    /\ SetTop(t, [f EXCEPT !.pc = "p2"])
    /\ UNCHANGED <<mem, pmem, dw, pdw, dstate, gwait, tpc, opi, cur, crashes, rec, rdi>>

(* Line 816: succeeded = (status_ == kStatusSucceeded).                    *)
Phase2(t) ==
    LET f == Top(t) IN
    /\ FrameStep(t, "p2")
    /\ SetTop(t, [f EXCEPT !.pc = "fin", !.i = 1, !.succ = (status[f.d] = St(Succeeded))])
    /\ UNCHANGED <<mem, pmem, status, pstatus, dw, pdw, dstate, gwait, tpc, opi, cur,
                   crashes, rec, conflict, rdi>>

NextFinal(f) ==
    IF f.i < Len(dw[f.d]) THEN [Goto(f, "fin") EXCEPT !.i = @ + 1]
    ELSE Goto(f, "ret")

(* Lines 823-830: CAS the descriptor pointer to the final value | dirty;   *)
(* if it is there now, persist it and CAS the dirty bit off.               *)
FinalCAS(t) ==
    LET f == Top(t)
        e == EntryOf(f)
        val == SetDirty(Val(IF f.succ THEN e.new ELSE e.old))
        rval == mem[e.addr]
    IN
    /\ PMEM /\ FrameStep(t, "fin")
    /\ IF e.addr = 0
       THEN SetTop(t, NextFinal(f)) /\ UNCHANGED mem   \* line 820: skip a null entry
       ELSE /\ mem' = IF rval = MwPtr(f.d) THEN [mem EXCEPT ![e.addr] = val] ELSE mem
            /\ SetTop(t, IF rval \in {MwPtr(f.d), val}
                         THEN [f EXCEPT !.pc = "fin_persist", !.des = val] ELSE NextFinal(f))
    /\ UNCHANGED <<pmem, status, pstatus, dw, pdw, dstate, gwait, tpc, opi, cur, crashes, rec, conflict, rdi>>

(* Mutation: phase 2 writes only the new values of a successful MwCAS. *)
VolatileFinalCASNoRollback(t) ==
    LET f == Top(t)
        e == EntryOf(f)
    IN
    /\ ~PMEM /\ FrameStep(t, "fin")
    /\ mem' = IF e.addr # 0 /\ mem[e.addr] = MwPtr(f.d) /\ f.succ
              THEN [mem EXCEPT ![e.addr] = Val(e.new)]
              ELSE mem
    /\ SetTop(t, NextFinal(f))
    /\ UNCHANGED <<pmem, status, pstatus, dw, pdw, dstate, gwait, tpc, opi, cur, crashes, rec, conflict, rdi>>

(* VolatileMwCAS lines 695-703: CAS each word from the descriptor pointer  *)
(* to its new or old value, skipping null entries, and go on.             *)
VolatileFinalCAS(t) ==
    LET f == Top(t)
        e == EntryOf(f)
    IN
    /\ ~PMEM /\ FrameStep(t, "fin")
    /\ mem' = IF e.addr # 0 /\ mem[e.addr] = MwPtr(f.d)
              THEN [mem EXCEPT ![e.addr] = Val(IF f.succ THEN e.new ELSE e.old)]
              ELSE mem
    /\ SetTop(t, NextFinal(f))
    /\ UNCHANGED <<pmem, status, pstatus, dw, pdw, dstate, gwait, tpc, opi, cur, crashes, rec, conflict, rdi>>

FinalPersist(t) ==
    LET f == Top(t) IN
    /\ FrameStep(t, "fin_persist")
    /\ PersistWord(EntryOf(f).addr, f.des)
    /\ SetTop(t, NextFinal(f))
    /\ UNCHANGED <<status, pstatus, dw, pdw, dstate, gwait, tpc, opi, cur, crashes, rec, conflict, rdi>>

(* Lines 834-838: a helper returns to the CondCAS or the GetValue it came  *)
(* from, which retries (goto retry_entry, goto retry); the owner runs      *)
(* Cleanup, pushing the descriptor on the garbage list, and the operation  *)
(* returns.                                                                *)
Return(t) ==
    /\ FrameStep(t, "ret")
    /\ IF Len(stack[t]) > 1 \/ tpc[t] = "read"
       THEN /\ stack' = [stack EXCEPT ![t] = SubSeq(@, 1, Len(@) - 1)]
            /\ UNCHANGED <<dstate, gwait, tpc, opi>>
       ELSE /\ stack' = [stack EXCEPT ![t] = <<>>]
            /\ Retire(t, Top(t).d)
    /\ UNCHANGED <<mem, pmem, status, pstatus, dw, pdw, cur, crashes, rec, conflict, rdi>>

(***************************************************************************)
(* MwcTargetField::GetValue (include/mwcas.h): GetValueProtectedPersistent *)
(* (749-788) with PMEM, GetValueProtectedVolatile (711-738) without, each  *)
(* pass of its retry loop one step on the word: complete a CondCAS         *)
(* (PersistentCompleteCondCAS, as a frame that returns here), persist a    *)
(* dirty word and CAS its dirty bit off, help an MwCAS (PersistentMwCAS(1) *)
(* as a frame), or return a clean value and leave the epoch.               *)
(***************************************************************************)
ReadAddr(t) == Reads[t][rdi[t]]

ReadDone(t) ==
    /\ rdi' = [rdi EXCEPT ![t] = @ + 1]
    /\ tpc' = [tpc EXCEPT ![t] = ReadOrDone(t, rdi[t] + 1)]
    /\ gwait' = [e \in Desc |-> gwait[e] \ {t}]
    /\ UNCHANGED <<mem, pmem, stack>>

(* Mutation: the dirty bit is CASed off without PersistValue(). *)
GetValueNoPersist(t) ==
    LET a == ReadAddr(t)
        w == mem[a]
    IN
    /\ Running /\ tpc[t] = "read" /\ stack[t] = <<>>
    /\ CASE w.tag = "C" ->
              /\ stack' = [stack EXCEPT ![t] = <<[Frame(w.d) EXCEPT !.pc = "ccc", !.wd = w.d,
                                                  !.wa = a, !.back = "read"]>>]
              /\ UNCHANGED <<mem, pmem, tpc, rdi, gwait>>
         [] w.dirty ->
              /\ mem' = [mem EXCEPT ![a] = Clean(w)]
              /\ UNCHANGED <<pmem, stack, tpc, rdi, gwait>>
         [] w.tag = "M" ->
              /\ stack' = [stack EXCEPT ![t] = <<Frame(w.d)>>]
              /\ UNCHANGED <<mem, pmem, tpc, rdi, gwait>>
         [] OTHER -> ReadDone(t)
    /\ UNCHANGED <<status, pstatus, dw, pdw, dstate, opi, cur, crashes, rec, conflict>>

GetValue(t) ==
    LET a == ReadAddr(t)
        w == mem[a]
    IN
    /\ Running /\ tpc[t] = "read" /\ stack[t] = <<>>
    /\ CASE w.tag = "C" ->
              /\ stack' = [stack EXCEPT ![t] = <<[Frame(w.d) EXCEPT !.pc = "ccc", !.wd = w.d,
                                                  !.wa = a, !.back = "read"]>>]
              /\ UNCHANGED <<mem, pmem, tpc, rdi, gwait>>
         [] w.dirty ->
              /\ PersistWord(a, w)
              /\ UNCHANGED <<stack, tpc, rdi, gwait>>
         [] w.tag = "M" ->
              /\ stack' = [stack EXCEPT ![t] = <<Frame(w.d)>>]
              /\ UNCHANGED <<mem, pmem, tpc, rdi, gwait>>
         [] OTHER -> ReadDone(t)
    /\ UNCHANGED <<status, pstatus, dw, pdw, dstate, opi, cur, crashes, rec, conflict>>

(***************************************************************************)
(* DescriptorPool::Recovery (mwcas.cc:94-285), one word at a time, over    *)
(* the descriptors in pool order, then InitDescriptors.                    *)
(***************************************************************************)
RecDesc == DescList[rec.i]

(* Mutation: Recovery rolls back only pointers to the MwCAS descriptor. *)
RecoveredValueKeepCond(d, e, val) ==
    LET toDesc == val.tag = "M" /\ val.d = d
    IN IF toDesc /\ status[d].s = Succeeded THEN Val(e.new)
       ELSE IF toDesc THEN Val(e.old)
       ELSE Clean(val)

(* What Recovery leaves in the word of entry e of descriptor d that holds  *)
(* val: a pointer to this descriptor rolls forward if it Succeeded and     *)
(* back otherwise, a pointer to this word descriptor rolls back, and any   *)
(* other value only loses its dirty bit.                                   *)
RecoveredValue(d, e, val) ==
    LET toWord == val.tag = "C" /\ val.d = d /\ val.a = e.addr
        toDesc == val.tag = "M" /\ val.d = d
    IN IF toDesc /\ status[d].s = Succeeded THEN Val(e.new)
       ELSE IF toDesc \/ toWord THEN Val(e.old)
       ELSE Clean(val)

(* Lines 159-262 for one word: clear a dirty bit; roll a pointer to this   *)
(* word descriptor back, and a pointer to this descriptor forward if the   *)
(* status is Succeeded and back otherwise; persist what was written.       *)
RecoverWord ==
    /\ rec.i \in 1..Len(DescList)
    /\ status[RecDesc].s # Finished
    /\ rec.j <= Len(dw[RecDesc])
    /\ LET e == dw[RecDesc][rec.j] IN
       IF e.addr = 0
       THEN UNCHANGED <<mem, pmem>>   \* lines 165-167: skip a null entry
       ELSE LET final == RecoveredValue(RecDesc, e, mem[e.addr]) IN
            /\ mem' = [mem EXCEPT ![e.addr] = final]
            /\ pmem' = [pmem EXCEPT ![e.addr] = final]
    /\ rec' = [rec EXCEPT !.j = @ + 1]
    /\ UNCHANGED <<status, pstatus, dw, pdw, dstate, gwait, stack, tpc, opi, cur, crashes, conflict, rdi>>

RecoverNextDesc ==
    /\ rec.i \in 1..Len(DescList)
    /\ status[RecDesc].s = Finished \/ rec.j > Len(dw[RecDesc])
    /\ rec' = [i |-> rec.i + 1, j |-> 1]
    /\ UNCHANGED <<mem, pmem, status, pstatus, dw, pdw, dstate, gwait, stack, tpc, opi,
                   cur, crashes, conflict, rdi>>

(* DescriptorPool::InitDescriptors (288-314): every descriptor Finished,   *)
(* its words cleared, all on the free lists, and the pool flushed.         *)
InitDescriptors ==
    /\ rec.i = Len(DescList) + 1
    /\ status' = [d \in Desc |-> St(Finished)]
    /\ pstatus' = status'
    /\ dw' = [d \in Desc |-> <<>>]
    /\ pdw' = dw'
    /\ dstate' = [d \in Desc |-> "free"]
    /\ gwait' = [d \in Desc |-> {}]
    /\ rec' = [i |-> 0, j |-> 0]
    /\ UNCHANGED <<mem, pmem, stack, tpc, opi, cur, crashes, conflict, rdi>>

RecoveryStep == RecoverWord \/ RecoverNextDesc \/ InitDescriptors

(* Power failure: the caches are lost, every operation in flight is        *)
(* abandoned, and the pool is reopened with Recovery.                      *)
Crash ==
    /\ crashes < MaxCrashes
    /\ mem' = pmem
    /\ status' = pstatus
    /\ dw' = pdw
    /\ stack' = [t \in Threads |-> <<>>]
    /\ tpc' = [t \in Threads |-> CASE InOp(t) -> NextOp(t)
                                   [] tpc[t] = "read" -> ReadOrDone(t, rdi[t] + 1)
                                   [] OTHER -> tpc[t]]
    /\ rdi' = [t \in Threads |-> IF tpc[t] = "read" THEN rdi[t] + 1 ELSE rdi[t]]
    /\ opi' = [t \in Threads |-> IF InOp(t) THEN opi[t] + 1 ELSE opi[t]]
    /\ crashes' = crashes + 1
    /\ rec' = [i |-> 1, j |-> 1]
    /\ conflict' = [t \in Threads |-> FALSE]
    /\ UNCHANGED <<pmem, pstatus, pdw, dstate, gwait, cur>>

(* The cache writes a line back on its own.  A written-back target word or *)
(* word descriptor is read only by Recovery, so those write-backs are      *)
(* taken only while a crash can still come; a written-back status also     *)
(* decides when an MwCAS commits, so it is always possible.                *)
EvictWord ==
    \E a \in Addrs : /\ crashes < MaxCrashes
                     /\ pmem[a] # mem[a]
                     /\ pmem' = [pmem EXCEPT ![a] = mem[a]]
                     /\ UNCHANGED <<mem, status, pstatus, dw, pdw, dstate, gwait, stack,
                                    tpc, opi, cur, crashes, rec, conflict, rdi>>
EvictStatus ==
    \E d \in Desc : /\ pstatus[d] # status[d]
                    /\ pstatus' = [pstatus EXCEPT ![d] = status[d]]
                    /\ NoteCommit(d)
                    /\ UNCHANGED <<mem, pmem, status, dw, pdw, dstate, gwait, stack,
                                   tpc, opi, cur, crashes, rec, rdi>>
EvictWords ==
    \E d \in Desc : /\ crashes < MaxCrashes
                    /\ pdw[d] # dw[d]
                    /\ pdw' = [pdw EXCEPT ![d] = dw[d]]
                    /\ UNCHANGED <<mem, pmem, status, pstatus, dw, dstate, gwait, stack,
                                   tpc, opi, cur, crashes, rec, conflict, rdi>>

Evict == PMEM /\ (EvictWord \/ EvictStatus \/ EvictWords)

ThreadStep(t) ==
    \/ AllocateDescriptor(t) \/ FreeDescriptor(t) \/ AddEntries(t)
    \/ Abort(t) \/ MwCAS(t) \/ VolatileMwCAS(t)
    \/ ReadStatus(t) \/ ReadStatusFlush(t) \/ RTMInstall(t) \/ RTMPersist(t)
    \/ CondCAS(t) \/ CondCASDirty(t)
    \/ CompleteReadStatus(t) \/ CompleteReadStatusFlush(t)
    \/ CompleteCAS(t) \/ CompletePersist(t) \/ VolatileCompleteCAS(t)
    \/ DecideStatus(t) \/ PersistStatus(t) \/ VolatileDecideStatus(t) \/ Phase2(t)
    \/ FinalCAS(t) \/ FinalPersist(t) \/ VolatileFinalCAS(t) \/ Return(t)
    \/ GetValue(t)

Next ==
    \/ \E t \in Threads : ThreadStep(t)
    \/ RecoveryStep
    \/ Crash
    \/ Evict

(* A thread that can take a step eventually does (the OS scheduler);       *)
(* recovery runs to completion.  Cache write-back and crashes are not      *)
(* forced.                                                                 *)
Spec ==
    /\ Init /\ [][Next]_vars
    /\ \A t \in Threads : WF_vars(ThreadStep(t))
    /\ WF_vars(RecoveryStep)

(***************************************************************************)
(* Properties                                                              *)
(***************************************************************************)
StatusName == {Finished, Succeeded, Failed, Undecided}
PlainWords == {Val(v) : v \in Vals \cup {0}} \cup {MwPtr(d) : d \in Desc}
              \cup {CondPtr(d, a) : d \in Desc, a \in Addrs}
Words == PlainWords \cup {SetDirty(w) : w \in PlainWords}
Entry == [addr : Addrs, old : Vals, new : Vals] \cup {NullEntry}
MaxEntries == Max({Cardinality(op) : op \in UNION {Range(Ops[t]) : t \in Threads}})
FrameType ==
    [d : Desc, i : 1..MaxEntries, my : {Succeeded, Failed}, st : StatusName, ret : Words,
     wd : Desc \cup {NoDesc}, wa : Addrs \cup {0}, des : Words, back : {"next", "retry", "read"},
     succ : BOOLEAN,
     pc : {"entry", "entry_flush", "rtm", "rtm_persist", "cc", "cc_dirty", "ccc", "ccc_flush", "ccc_cas",
           "ccc_persist", "decide", "pstat", "p2", "fin", "fin_persist", "ret"}]

TypeOK ==
    /\ mem \in [Addrs -> Words] /\ pmem \in [Addrs -> Words]
    /\ status \in [Desc -> [s : StatusName, dirty : BOOLEAN]]
    /\ pstatus \in [Desc -> [s : StatusName, dirty : BOOLEAN]]
    /\ dw \in [Desc -> Seq(Entry)] /\ pdw \in [Desc -> Seq(Entry)]
    /\ dstate \in [Desc -> {"free", "owned", "garbage"}]
    /\ gwait \in [Desc -> SUBSET Threads]
    /\ stack \in [Threads -> Seq(FrameType)]
    /\ tpc \in [Threads -> {"alloc", "add", "ready", "run", "read", "done"}]
    /\ rdi \in [Threads -> Nat] /\ \A t \in Threads : rdi[t] <= Len(Reads[t]) + 1
    /\ opi \in [Threads -> Nat] /\ cur \in [Threads -> Desc \cup {NoDesc}]
    /\ crashes \in 0..MaxCrashes
    /\ rec \in [i : 0..Len(DescList) + 1, j : Nat]
    /\ conflict \in [Threads -> BOOLEAN]

(* Epoch-based reclamation (GarbageList + FreeDescriptor) never puts a     *)
(* descriptor back on a free list while a target word still points to it   *)
(* or to one of its word descriptors, and such a pointer always names a    *)
(* word the descriptor lists.                                              *)
NoDanglingDescriptor ==
    Running =>
      \A a \in Addrs :
        mem[a].tag # "V" =>
          /\ dstate[mem[a].d] # "free"
          /\ EntriesAt(mem[a].d, a) # {}

(* What persistent memory holds can always be recovered: a persisted       *)
(* pointer names a descriptor whose persisted status is not Finished and   *)
(* whose persisted word descriptors list that word, so Recovery will roll  *)
(* it forward or back.                                                     *)
RecoverableImage ==
    \A a \in Addrs :
      pmem[a].tag # "V" =>
        /\ pstatus[pmem[a].d].s # Finished
        /\ \E e \in Range(pdw[pmem[a].d]) : e.addr = a

(* The dirty-bit protocol (GetValueProtectedPersistent lines 765-767,     *)
(* CondCAS 512-516, PersistentCompleteCondCAS 562-563, phase 2 828-829):  *)
(* a word that any reader may return without helping (clean, and not a    *)
(* CondCAS pointer) already holds its persisted value, so no value handed *)
(* out to a reader can be lost by a crash.                                *)
CleanIsPersistent ==
    PMEM => \A a \in Addrs : (mem[a].tag # "C" /\ ~mem[a].dirty) => Clean(pmem[a]) = mem[a]

(* The RAW_CHECK at the end of Recovery's loop (lines 265-280), for every  *)
(* word: once a descriptor is recovered no target word points to it.       *)
RecoveredClean ==
    rec.i > 1 =>
      \A k \in 1..(rec.i - 1) : \A a \in Addrs : ~RefersTo(mem[a], DescList[k])

(* Sorting the words by address (line 731) keeps helping acyclic: a thread *)
(* never helps, directly or through others, a descriptor it is already     *)
(* running.                                                                *)
NoHelpCycle ==
    \A t \in Threads : \A x, y \in DOMAIN stack[t] :
      x # y => stack[t][x].d # stack[t][y].d

(* Every thread eventually completes all of its operations: helping makes  *)
(* the algorithm lock-free and the epoch lets every descriptor come back.  *)
AllOpsComplete == <>(\A t \in Threads : tpc[t] = "done")

(* The refinement: the persistent MwCAS is a durable linearizable          *)
(* implementation of MwCASSpec.                                            *)
AbsState == [t \in Threads |->
               IF tpc[t] = "run"
               THEN IF Committed(cur[t]) THEN "committed" ELSE "pending"
               ELSE "idle"]

Abs == INSTANCE MwCASSpec WITH
         amem <- [a \in Addrs |-> LogicalVal(a)],
         aopi <- opi, ast <- AbsState, conflict <- conflict

(* Every behaviour of the implementation is one of MwCASSpec: operations   *)
(* take effect atomically, fail only on a real conflict, and survive       *)
(* crashes exactly when they committed.                                    *)
Linearizable == Abs!ASpec

=============================================================================
