# TLA+ models of the persistent and volatile MwCAS and its garbage list (src/Bztree), the HashTable (src/HashTable), the Btree (src/Btree) and the YCSB driver (src/Ycsb)

This directory holds TLA+ specifications of the concurrent and persistent parts of
this repository, with the TLC configurations that check them. For now that is the
persistent multi-word compare-and-swap library (PMwCAS) under `src/Bztree`, in
both its builds (with and without `PMEM`), the
file-backed hash table under `src/HashTable` with its buffer manager and page file,
the B+-tree under `src/Btree` with its own buffer manager, and the thread
control of the YCSB benchmark driver `src/Ycsb/ycsbc.cc` that runs them.

## The system

| Part | Source | State it keeps | Operations |
|---|---|---|---|
| MwCAS descriptor | `src/Bztree/mwcas.cc`, `include/mwcas.h` | `status_` (with a dirty bit), `count_`, `words_[]` (address, old, new), `indexes_` | `AddEntry`, `MwCAS` → `PersistentMwCAS` (or `VolatileMwCAS` without `PMEM`), `CondCAS`, `PersistentCompleteCondCAS` (`VolatileCompleteCondCAS`), `ReadPersistStatus`, `Cleanup`, `Abort` |
| Target words | `MwcTargetField` in `include/mwcas.h` | 64-bit words; they hold a value, an MwCAS descriptor pointer (`kMwCASFlag`) or a word descriptor pointer (`kCondCASFlag`), plus `kDirtyFlag` | readers help through `GetValueProtectedPersistent` |
| Descriptor pool | `mwcas.cc` 31-360 | one partition per thread, each with a free list | `AllocateDescriptor`+`Initialize`, `FreeDescriptor`+`Finalize`, `Recovery`, `InitDescriptors` |
| Garbage list | `include/garbage_list_unsafe_persistent.h` | a ring of retired items, each with its removal epoch | `Push`, `Scavenge` |
| NVRAM | `include/nvram.h` | the CPU cache above persistent memory | `Flush` (clwb/clflush + fence) |
| HashTable | `src/HashTable` | bucket pages in a file, cached by `HtBufferManager` | `Insert`, `Search`, `Erase`, page pin/unpin/flush |
| Btree | `src/Btree`, `src/Ycsb/db/db_btree.cc` | B+-tree nodes (one per page) in a file, cached by a `BufferManager`; a header page with the page count | `insert` with `split`/`split_root`, `find`, `new_node`, `read_node`/`write_node`; `PinPage`, `Finalize` |
| YCSB driver | `src/Ycsb/ycsbc.cc`, `client.h`, `db/` | one `Client` and one DB connection per worker thread; `start_barrier`, `shutdown_barrier`, `shutdown` | load, ramp-up and run phases: `std::async(DelegateClient)`, the barriers, `delete clients[i]` |

**How the parts interact.** A thread takes a descriptor from its partition and adds
its entries. It then calls `MwCAS`. `PersistentMwCAS` works in five steps:

1. It sorts the entries by address and flushes the word descriptors.
2. Phase 1 installs a pointer to each word descriptor with `CondCAS`.
3. `PersistentCompleteCondCAS` turns that pointer into the MwCAS descriptor pointer, but only while the status is Undecided.
4. The status is CASed to Succeeded or Failed and persisted.
5. Phase 2 replaces each descriptor pointer by the new value (or the old one).

Every value written is first written with the dirty bit. It is flushed, and only
then is the bit cleared. A thread that meets another descriptor's pointer helps
that descriptor, which can recurse. The owner then pushes the descriptor on its
garbage list. The descriptor returns to the free list (`FreeDescriptor`) only when
no thread that was inside an epoch at push time is still there.

Built without `PMEM`, `VolatileMwCAS` runs the same two phases with no dirty bits
and no flushes, `Initialize` does not persist the status, and `Finalize` sets
Finished but leaves the word descriptors in place. There is no recovery.

After a power failure, `Recovery` walks the pool. For each word of each
descriptor, a pointer to the descriptor rolls forward if the persisted status is
Succeeded and rolls back otherwise. It then reinitialises the pool.

**What makes it hard.** The difficulty comes from several sources:

- helpers of the same descriptor interleaving at every step, and recursive helping;
- a status read followed by a CAS (RDCSS), with ABA on reused values;
- dirty-bit and flush ordering;
- a crash between any two steps, with arbitrary cache write-backs;
- descriptor reuse through epochs.

These are the hazards listed in `PROJECT.json`.

## Modules

- **`MwCASSpec.tla`**: the abstract specification, i.e. what an MwCAS promises its callers.
  - `amem` is the logical memory. Each thread goes idle → pending → committed and back.
  - `ACommit` applies an operation atomically, only when all its words hold their old values.
  - `AFail` is allowed only when the `conflict` history says the words differed at the call, or at a commit of an overlapping operation while the operation ran.
  - `ACrash` abandons every operation in flight and keeps `amem`, so committed operations are durable.
- **`PMwCAS.tla`**: the implementation.
  - **State.** `mem`/`pmem` are the cached and persisted target words, `status`/`pstatus` the descriptor statuses with their dirty bit, and `dw`/`pdw` the word descriptors.
  - **Pool and epochs.** `dstate` is `free`, `used` or `garbage`. `gwait[d]` is the set of threads whose epoch still protects a retired descriptor `d`.
  - **Threads.** `stack[t]` is the activation stack of a thread: one frame per nested `PersistentMwCAS` call with its `pc`, loop index and locals. `tpc`/`opi`/`cur` are the thread's place in its list of operations. `crashes` counts crashes, and `rec` is Recovery's cursor (descriptor, word).
  - **Actions.** Every shared-memory access of the code is one action, named after the code: `ReadStatus` (line 749), `CondCAS` (509), `CondCASDirty` (511-516), `CompleteReadStatus`/`CompleteCAS`/`CompletePersist` (557-564), `DecideStatus` (804), `PersistStatus` (811-812), `FinalCAS`/`FinalPersist` (827-830) and `Return` (834-838, including `Cleanup`).
  - **Pool actions** are `AllocateDescriptor`, `AddEntries`, `Abort` and `FreeDescriptor`. **Recovery** is `RecoverWord`, `RecoverNextDesc` and `InitDescriptors`. The environment is `Crash` and `Evict`.
  - **Refinement.** `Linearizable` is `MwCASSpec!ASpec` under a refinement mapping. `LogicalVal` is the value a helping reader would return. A descriptor commits when its Succeeded status becomes persistent: it is flushed, or it is evicted from the cache. In the volatile build it commits at the status CAS.
  - **RTM build.** With the constant `RTM`, phase 1 of an Undecided descriptor starts at `RTMInstall` (`RTMInstallDescriptors`, lines 569-616): the hardware transaction installs the descriptor pointer in every listed word (dirty with `PMEM`) if each still holds its old value, and otherwise aborts. Its `kMaxTries` retries are collapsed into one step, since an abort changes nothing, and the fallback to the `CondCAS` loop is always possible. With `PMEM`, `RTMPersist` is the loop at lines 590-606 that flushes each word still holding the pointer.
  - **Readers.** `Reads[t]` lists the words thread `t` reads after its operations; `rdi[t]` is its place in the list. `GetValue` is one pass of the retry loop of `GetValueProtectedPersistent` (`mwcas.h` 749-788): a word descriptor pointer makes the reader run `PersistentCompleteCondCAS` (a frame with `back = "read"`), a dirty word is flushed and its dirty bit cleared, an MwCAS pointer makes the reader help the descriptor (a frame at depth 1), and a plain value ends the read (`ReadDone`). A reader is inside its epoch (`InEpoch`), so it holds back the reuse of descriptors it may help.
  - **Builds.** The constant `PMEM` selects the build. The persistent-only steps (`MwCAS`, `CompleteCAS`, `DecideStatus`, `FinalCAS`, and `Crash`/`Evict`) are guarded by `PMEM`. Their volatile counterparts are guarded by `~PMEM`: `VolatileMwCAS` (lines 621-635), `VolatileCompleteCAS` (545), `VolatileDecideStatus` (690) and `VolatileFinalCAS` (695-703). The shared code (`CondCAS`, the phase-1 loop, `ReadStatus` on a status that is never dirty, `Phase2`, `Return`, the pool) is one set of actions. `AllocateDescriptor` and `FreeDescriptor` persist and clear only with `PMEM`. With `PMEM = FALSE` the persistent variables keep their initial values and nothing reads them.
- **`MCPMwCAS.tla`**: the constants for TLC, i.e. threads, descriptor partitions and each thread's operations.

Values are small integers and addresses are `1..3`. A word descriptor is named by
(descriptor, address). Descriptor numbers stand for pool offsets, and `DescList`
is the pool order used by Recovery.

- **`HtFile.tla`**: the page file (`File.h`). A file is a record `[disk, first_free, fsize]`:
  the page contents on disk, and the header fields held in memory until `Flush`. A page
  is `[next, n, ent]`, i.e. the first 8 bytes, `n_entries` and the entry keys (bucket
  page) or chain heads (directory page). `AllocatePage` pops the free list by reading the
  successor from the freed page on disk, else extends the file. `FreePage` writes the
  old head into the page and makes it the head. `TruncPage` zeroes a page.
- **`HtBufferManager.tla`**: the buffer pool (`BufferManager.h`). A record
  `[meta, buf, table, hand]`: frame metadata (page, pin, clock, dirty), frame contents,
  `lookup_table` and `clock_hand`. `ClockSweep` is the `GetFreeFrame` loop as a
  RECURSIVE operator, and the victim is written back if dirty. `PinPage`, `UnpinPage`,
  `MarkDirty`, `FreePage` and `Flush` follow the code. Operations that may write the
  file take and return it.
- **`HashTable.tla`**: the table (`HashTable.h`), driven like `DbHashTable` in
  `src/Ycsb/db/db_hashtable.cc`.
  - **Client.** A client runs `Script`, one call after the other: one instance
    belongs to one YCSB thread, so there is no concurrency inside the table.
  - **Steps.** Each iteration of a probing loop is one step, with the control of the
    code kept: `ProbeDir`, `ProbeHead`, `ProbeScan` and `ProbeNext` are
    `GetFreeSlotWithProbe` (compaction at the head, the entry loop, compaction of the
    next page, the early return at line 222, the new page at the end). `FindDir`,
    `FindHead`, `FindScan` and `FindNext` are `ProbeAndCompress`. `InsertEntry`,
    `SearchEntry` and `EraseEntry` are the bodies of `Insert`, `Search` and `Erase`.
    `Close` is `~HashTable`, which flushes the pool.
  - **Data.** `slot` is the `EntrySlot` (frame, index, and the page it was found in).
    An entry is its key; values are left out because the table never inspects them.
    `std::hash<uint64_t>` is the identity, so the bucket of `k` is `k % NBuckets`.
- **`HtMapSpec.tla`**: what the table promises: a set of keys, where insert succeeds
  exactly when the key is absent, and search and erase exactly when it is present.
  `MapSemantics` is this spec under the mapping "keys reachable from the directory
  through the pool's view of each page" and "the last result".
- **`MCHashTable.tla`**: scripts for TLC. `MCScriptAny` is any six calls on keys
  1..3; `MCScriptDup` is the fixed nine-call sequence of the duplicate finding.

- **`BtBufferManager.tla`**: the Btree's `BufferManager` (`buffer_manager.cc`) over
  its `File` (`file.hpp`). A frame keeps its page id, `last_used` and dirty flag.
  `PinPage` on a hit sets `last_used` to the mode (`PAGE_WRITE` = 1, `PAGE_READ` = 2).
  On a miss, `Sweep` (RECURSIVE, the `next_page` loop) decrements `last_used` until
  it finds a frame at 0, and `Load` writes that victim back if dirty, drops its table
  entry and loads the page. `pin_count` is not in the model because the code never
  reads it: `UnpinPage` is empty. `Finalize` writes back every dirty frame.
- **`Btree.tla`**: the tree (`btree.hpp`, `node.h`), driven like `DbBtree` one call
  after the other (one instance per YCSB thread).
  - **Steps.** `Invoke` pins the root. `InsertDescend` is one iteration of Step 1 of
    `insert` (follow a child or insert into the leaf and `write_node` it).
    `InsertUnwind` is one iteration of Step 2 (split the node if it overflows, pop).
    `InsertEnd` is `split_root` if needed plus `increment_record_and_flush`.
    `FindStep` is one iteration of `find`; at a leaf it returns with
    `DbBtree::Read`'s check that the pair found holds the key. `Close` is `~Btree`.
  - **Pointers.** The code keeps raw pointers into frames (`stack[]`, `node_cur`,
    the references inside `split`). The model keeps frame numbers (`stk`, `fcur`)
    and reads whatever the frame holds when it is used, so a frame reused under a
    pointer is modelled as in the code. `stk[i].pg` is a history variable: the page
    the frame was read for.
  - **Split.** `split` and `split_root` are their statements in order, over the
    frames: read the child, `new_node`, the moves (`SplitFrames`,
    `SplitRootFrames`), then `write_node` of parent, child and new node. Each stage
    passes the buffer manager and file it leaves to the next (`SplitRead`,
    `SplitWrite`, `NewNodeFrom`, ...), so every pin of a split can evict.
  - **Data.** A key is a `Pair` reduced to its key. The header page is a node whose
    `data[0]` is `Metadata::count`; `record_count` is left out.
- **`BtIndexSpec.tla`**: what the index promises: a set of keys, where insert
  always succeeds and adds its key, and a read succeeds exactly when the key was
  inserted (spec.md properties 5 and S1). `IndexSemantics` is this spec under the
  mapping "keys in the leaves reachable from the root through the pool's view of
  each page" and "the last result". The insert takes effect at the leaf insert;
  the split pass after it must not change the keys.
- **`MCBtree.tla`**: the script. `MCScript` is six inserts of keys 1..3 followed by
  two inserts or reads of them (duplicates allowed, as in the code).

- **`EpochReclaimSpec.tla`**: what epoch-based reclamation promises one partition's
  descriptors. Each is `free`, `inuse` or `garbage`. Another thread may take a
  reference (`RGrab`) only to a descriptor in use and keeps it until it leaves its
  epoch (`RRelease`). `RFree` returns garbage that nobody holds to the free list.
- **`GarbageList.tla`**: one partition as the code runs it.
  - **Owner.** The owner thread is the only one that touches the free list and the
    ring, as in the code (one partition per thread, no locking). An operation is
    `OProtect`, `AllocPop` or `AllocScavenge` (the `AllocateDescriptor` loop), then
    either `Publish` (the descriptor's pointer reaches a target word) and `Cleanup`,
    or `Abort` (the `DescriptorGuard` path that frees at once, since nothing was
    published). `Cleanup` pushes the descriptor: `PushStep` is one turn of `Push`'s
    loop, with the quarter-ring bump (`QuarterBump`) and the reuse of a slot whose
    item is safe (`Reuse`). `OUnprotect` ends the operation. `Uninitialize` destroys
    what is left in the ring.
  - **Readers.** Another thread protects in two steps (`RProtectLoad` reads the
    current epoch, `RProtectStore` stores it, as in `EpochManager::Protect`), may
    pick up the descriptor pointer from a target word (`RGrab`), leaves
    (`RUnprotect`) or bumps the epoch (`RBump`).
  - **Epochs.** The epoch manager is not in this repository and is modelled from
    spec.md 4.6. `BumpCurrentEpoch` makes the safe epoch one less than the oldest
    epoch still protected. Because only the order of epochs matters, `Commit`
    renumbers them by rank after each step, so the state space is finite.
  - **Refinement.** `DState` maps the state to `EpochReclaimSpec`: free if on the
    free list, in use while the owner's descriptor is published or being built,
    garbage otherwise. `Reclaims` is `EpochReclaimSpec`'s spec under this mapping.
- **`MCGarbageList.tla`**: the instance TLC runs.

  The partitions allocate a `GarbageListUnsafe` (`mwcas.cc:21`), whose header
  `garbage_list_unsafe.h` is not in this repository.
  `garbage_list_unsafe_persistent.h` says it is a copy of that file (lines 21-30),
  and no code includes it; the model translates it as the available source of the
  algorithm.

- **`YcsbDriver.tla`**: `main` and `DelegateClient` of `ycsbc.cc` for the btree
  backend. `mpc` walks main's three blocks (load: spawn, `f.get()`, delete; ramp:
  `workers.clear()`, arm the barriers, spawn, wait on `start_barrier`, sleep,
  `shutdown = true`, wait on `shutdown_barrier`, delete; run: the same with the
  `f.get()` loop before the deletes). Each worker (`wpc`) decrements
  `start_barrier` and spins on it, loops until `shutdown` (`ops` bounds the loop),
  decrements `shutdown_barrier`, then reads `GetInsert`/`GetRead` on its `Client`
  and closes. A `Client` is reduced to `alive`, whether main has deleted it.
  Each thread's `CoreWorkload` is kept as far as it decides keys: `seq` is the
  counter of its `sequence_key_generator_`, `KeyChooser` the keys its
  `key_chooser_` can return, and `NextTransactionKey` the keys its rejection loop
  accepts (`Last` is `insert_key_sequence_.Last()`). `workloads[i]` and
  `ramp_workloads[i]` differ only in `insert_start`. A worker's operation is
  `DoInsert` (load), `DoRead` with the ramp workload (ramp) or `DoTransaction`
  (run), whose default case throws and ends the thread. The btree connection is
  the set of keys inserted into it (`db`), with `DbInsert` and `DbRead` as
  `DbBtree::Insert` and `Read`; `Btree.tla`'s `IndexSemantics` is what justifies
  reducing the tree to a set. `rd` is the key of a worker's last read.
  `workers.clear()` waits for the threads, because the destructor of an
  `std::async` future blocks until its thread ends.

## Runs

| run | cfg | what it checks |
|---|---|---|
| crash_reuse | `MCPMwCAS.cfg` | The PMEM build. Two threads running operations {1,2} and {2,3} that overlap on word 2; t1 has a single descriptor and a second operation {1}, so that operation waits for the first descriptor to come back through the garbage list. The RTM install and its fallback are both enabled, and after its operations t1 reads word 3. One crash anywhere, with write-backs of words, descriptors and statuses. Checks `TypeOK`, `NoHelpCycle` (the address sort keeps helping acyclic), `NoDanglingDescriptor`, `RecoverableImage` (every persisted pointer can be resolved by Recovery), `RecoveredClean` (Recovery's closing RAW_CHECK), `CleanIsPersistent` (a word a reader may return without helping is already persisted, the dirty-bit protocol), durable `Linearizable` and `AllOpsComplete`. |
| volatile | `MCPMwCASVolatile.cfg` | The build without PMEM. The same two threads, and a third running {1,3}, which overlaps both. The RTM install and its fallback are both enabled; there are no readers. No word returns to a value it held, so the ABA of the finding cannot happen. Checks `NoHelpCycle`, `NoDanglingDescriptor` (with `Finalize` leaving the words in place), `Linearizable` (the status CAS is the commit) and `AllOpsComplete`. Its type invariant is the same as in `crash_reuse` and is not checked again. |
| aba | `MCPMwCASABA.cfg` | Three threads, expected violation of `Linearizable`: see the finding below. |
| ht_chain | `MCHashTableChain.cfg` | One bucket, two-slot pages, four frames, any six calls on keys 1..3. Chains of two pages, holes, compaction at the head and in the chain, page reuse through the free list. Checks `TypeOK`, `FreeListSound`, `CleanFramesMatchDisk`, `LookupConsistent`, `SlotPinned`, `Durable` and `MapSemantics`. |
| ht_deep_evict | `MCHashTableDeepEvict.cfg` | One-slot pages in one bucket over three frames, any six calls: chains reach three pages, an empty page in the middle is unlinked while a probe walks past it, and the directory with a full chain no longer fits in the pool, so CLOCK evicts clean and dirty pages and re-reads them. Checks `FreeListSound`, `CleanFramesMatchDisk`, `LookupConsistent` and `MapSemantics`. |
| ht_dup | `MCHashTableDup.cfg` | Expected violation of `MapSemantics`: a duplicate insert (finding below). |
| ht_leak | `MCHashTableLeak.cfg` | Expected violation of `NoPinLeak`: a pin leaked by insert. |
| bt_tree | `MCBtree.cfg` | Order 2, seven frames, six inserts of keys 1..3 then two inserts or reads: leaf splits, an internal split under the root, two root splits (height three), evictions with write-back, reads over the grown tree. Checks `TypeOK`, `TreeShape` (the pages reachable from the root form a tree of pages `new_node` handed out, each at its own `page_id`), `KeyOrder` (sorted nodes, left subtree <= separator <= right subtree), `LeafChain` (the right links visit exactly the leaves, left to right), `FramesInUseHeld` (the frames `stack[]` and `node_cur` point into still hold their pages), `Durable` (after `~Btree` the file alone holds the same keys), and `IndexSemantics`. |
| gl_reclaim | `MCGarbageList.cfg` | A partition of two descriptors with its two-slot ring, the owner running published or aborted operations, one other thread protecting, reading and bumping. Checks `TypeOK`, `Conserved` (every descriptor is exactly once on the free list, in the owner's hands or in a ring slot), `PushSlotFree` (finding below), `Reclaims` (nothing is freed while another thread holds it) and `OpsComplete` (every allocation and every push returns). |
| bt_smallpool | `MCBtreeSmallPool.cfg` | The same script over six frames: expected violation of `IndexSemantics`, see the finding below. |
| ycsb_keys | `MCYcsbKeys.cfg` | Two workers, load of four records, then a run of reads and inserts with the zipfian chooser: expected violation of `TransactionKeyInserted` (every key `NextTransactionKey` returns has been inserted, so the read answers `kOK`), see the finding below. |
| ycsb_ramp | `MCYcsbDriver.cfg` | Two workers, load, ramp-up and run: expected violation of `ClientAliveWhenUsed` (a worker uses its `Client` only while main has not deleted it), see the finding below. |

Every property of a passing run has a mutant in `PROJECT.json`: a plausible bug in
one mapped definition that TLC shows breaks it. Examples:

- status decided by a store instead of a CAS;
- word descriptors not flushed;
- the dirty bit cleared without a flush;
- Recovery ignoring word descriptor pointers;
- no persist in `Initialize`;
- freeing without waiting for the epoch;
- a thread that never leaves its epoch;
- an off-by-one in the phase-1 loop;
- an RTM transaction that installs without comparing the old values;
- a reader that clears the dirty bit without flushing the word.

### Finding: a delayed PersistentCompleteCondCAS re-installs a finished descriptor

The `aba` run finds the following schedule:

1. t1's MwCAS moves words 1 and 2 from 0 to 1. t1 reads Undecided at
   `mwcas.cc:557` and is delayed before the CAS at 560.
2. t2 is helping t1's descriptor. It read Undecided at line 749 and is delayed
   before its CondCAS on word 2.
3. t3 helps t1's operation to completion, then its own MwCAS moves word 2 back
   from 1 to 0.
4. t2 resumes. Word 2 holds t1's old value 0 again, so its CondCAS re-installs
   the word descriptor pointer.
5. t1's stale CAS then replaces it by t1's MwCAS descriptor pointer, which now
   stands for the Succeeded new value 1.

The result is that t3's committed update is lost. The comment at `mwcas.cc:479-499`
says the conditional CAS exists exactly to prevent a delayed installer from
producing such a state. The race needs a helper that is still in phase 1 after
the descriptor has finished, and an ABA on the word's value.
`VolatileCompleteCondCAS` (lines 543-545) has the same window between its status
read and its CAS. The `aba` configuration with `PMEM = FALSE` violates
`Linearizable` as well.

### Finding: insert stores a duplicate key (ht_dup)

With two-slot pages in one bucket: insert 1..5 fills pages A = [1,2], B = [3,4] and
C = [5]. Erase 2 leaves a hole in A, and erase 3 and 4 empty B. Insert 5 then
proceeds as follows:

1. It remembers the hole in A.
2. It finds B empty, so it unlinks and frees B.
3. Because a slot is remembered, it returns true at `HashTable.h:222` without
   scanning C.

Key 5 is now stored twice, and the insert reported success. The spec says a duplicate
anywhere in the chain makes insert fail (`spec.md`, hash-table invariants and
property 6).

### Finding: insert leaks a pin (ht_leak)

When the remembered slot is on an earlier page, the page being scanned when the
chain ends (`HashTable.h:232`) is never unpinned. The same holds on the early return
at 222. On a duplicate (174) only the current page is unpinned, not the slot's page.
Each leak pins a frame for good, with three consequences:

- The frame can never be evicted.
- If the page is later emptied, `FreePage`'s `assert(pin_count == 1)` fails.
- Once the leaks fill the pool, `GetFreeFrame` spins. TLC shows this with two frames
  and the script of `ht_chain` when `<>(pc = "closed")` is checked. That check takes
  over four minutes, so it is not a run.

### Finding: the ramp-up deletes Clients still in use (ycsb_ramp)

In the ramp-up block main waits for `shutdown_barrier == 0` (`ycsbc.cc:343`) and
then deletes every `Client` (346). A worker decrements `shutdown_barrier` when it
leaves its loop (line 75), but then still calls `db->thread_deinit()` and reads
`client->GetInsert()` and `client->GetRead()` (100-102). Unlike the load and run
blocks, the ramp block never calls `f.get()`; its futures are joined only at
`workers.clear()` in the run block (352). TLC finds the schedule in which the last
worker counts itself out, main deletes its `Client`, and the worker then reads it:
a use after free. The run phase does not have the bug because it joins every
future (`f.get()`, 409) before the deletes.

### Finding: the workload reads a key it never inserted (ycsb_keys)

`CounterGenerator::Next` returns `++counter_` (`counter_generator.h:22`), and a
workload's sequence starts at `insert_start`, so the load inserts
`insert_start+1 .. insert_start+record_count_`. `NextTransactionKey` draws from
`insert_start` up and rejects only keys above `insert_key_sequence_.Last()`,
which is `insert_start+record_count_-1` (`core_workload.cc:162`,
`core_workload.h:193`). TLC's trace: thread 0 loads keys 1 and 2, and its first
read draws key 0, which `DbBtree::Read` answers with `kErrorNoData`. The comment
at `core_workload.cc` 172-174 says a key not inserted yet is ignored and another
picked. The last loaded key is never read, and keys inserted during the run are
never read either, because nothing advances `insert_key_sequence_`. With
`-insertstart` other than 0, the ramp-up's `ramp_workloads` (insertstart 0)
read a range the load never touched. With `++counter_` replaced by `counter_++`,
the same configuration has no violation.

### Observation: an unsupported operation hangs the run

`DoTransaction` throws for every operation but READ and INSERT
(`client.h:89`), and `updateproportion` defaults to 0.05. The exception leaves
`DelegateClient` before `--shutdown_barrier`, so main spins for ever at
`while (shutdown_barrier)` (`ycsbc.cc:402`) and never reaches the `f.get()` that
would rethrow it. With `OpChoices = {"READ", "UPDATE"}` TLC reports the
deadlock at `run_wait_stop` with both workers done. It is a hazard in
`PROJECT.json` rather than a run, since a deadlock is not a property.

### Divergence: erase does not compact

`Erase` only clears the entry. An emptied page stays linked until a later probe
walks over it. Insert 1, 2, 3 and erase 1, 2 leave an empty first page linked to
the page holding 3, contrary to `spec.md` property 7. Search results are unaffected
(`MapSemantics` holds), so this is a divergence from the spec, not a wrong answer.

### Finding: a small buffer pool loses keys (bt_smallpool)

`BufferManager::PinPage` picks its victim by CLOCK over `last_used` alone
(`buffer_manager.cc` 59-67) and `UnpinPage` is empty, so a frame a caller still
points into can be evicted. An insert pins the nodes of its descent for reading (`last_used` 2);
each miss afterwards moves the CLOCK hand, and a frame the hand has passed twice
is the next victim even though `stack[]` still points into it. At height three
the splits of one insert (child, header and new page at each level) make enough
misses for that with six frames (`-buffer_page 6` is accepted by `DbBtree`, as is
any size). The split pass then writes the separator into whatever page that frame
now holds, and keys are lost: TLC shows an insert after which a key inserted
earlier is no longer found. spec.md's BufferPool invariant (ii) says no frame is
evicted while pinned. With seven frames the same script passes, including
`FramesInUseHeld`; but the safe size depends on how many misses one insert makes,
which grows with the height, and nothing in the code checks it.

### Divergence: the separator stays in the right leaf

A leaf split copies `child1.data[MIN_NUM_CHILDREN]` into the parent (line 251)
and the copy loop moves the same key into the new right leaf. spec.md property 4
says every key of `children[i+1]` is greater than `data[i]`; the code keeps it
greater or equal. `find` goes right on `data[pos] <= key` (line 114), which is
what this layout needs: `KeyOrder` with `<=` holds, and so does `IndexSemantics`.
The strict form fails in the first state after a leaf split, so it is stated
here rather than as a run.

### Observation: Push never meets an occupied slot

`PushSlotFree` holds: when `Push` reaches a slot, the slot is empty. The ring has
as many slots as the partition has descriptors, and `AllocateDescriptor` scavenges
only when the free list is empty, which empties the ring of everything safe. So
`Push`'s branches that skip a protected item or destroy a safe one
(`garbage_list_unsafe_persistent.h` 204-221) are never taken in this use. The
mutant that makes `Scavenge` stop one slot short breaks it. The quarter-ring bump
at line 199 is still load-bearing: without it (`QuarterBumpNever`) the owner's
next operation protects the epoch its own last descriptors were retired in, and
`AllocateDescriptor` spins forever (`OpsComplete` fails).

## Bounds

- **Threads.** Two threads with two-word operations are enough to cover:
  - CondCAS finding another's word descriptor or MwCAS pointer;
  - recursive helping;
  - the status race between owner and helper;
  - conflicting failures.

  The ABA needs a third thread to write the old value back.
- **Crashes.** One crash at any point, with write-backs, reaches every persisted
  combination of words, word descriptors and status that Recovery must handle.
- **Write-backs.** Write-backs of words and word descriptors are allowed only while
  a crash can still happen (`crashes < MaxCrashes`). Without a crash they are
  invisible, since only Recovery reads persistent memory. Status write-backs are
  always allowed, because a persisted Succeeded status is the commit point.
- **Reuse.** Both passing MwCAS runs give t1 one descriptor for two operations,
  so the reclamation path is taken.
- **Readers.** In `crash_reuse` t1 reads word 3 after its operations, while t2's
  operation {2,3} may still be installing, helping or finalizing on it, so the
  reader meets word descriptor pointers, MwCAS pointers and dirty words, and a
  crash can fall between its flush and its return. A reader on word 1 as well
  (195k states, close to the time limit) adds no new case; a reader in the
  volatile run takes 545k states and over five minutes, so that run has none.
- **RTM.** The transaction is one step whose outcome (install all or abort) is
  chosen by the words it reads, so the interleavings it hides are those a
  hardware transaction forbids.
- **Volatile build.** Without crashes the state space is small enough for a third
  thread, which makes helping chains of depth two and three-way status races
  possible (138k states).

- **HashTable.** Two-slot pages and three keys in one bucket give chains of two
  pages with holes on either page. One-slot pages give three-page chains. The
  duplicate needs five keys and a fixed script, which is why `ht_dup` has one.
  Four frames are enough for a probe (directory, current, next page and the slot's
  page). One-slot pages over three frames give three-page chains that, with the
  directory, do not fit in the pool, so dirty directory and bucket pages are
  evicted and re-read. Every action and every branch of every step fires in
  `ht_chain` and `ht_deep_evict` together. `MaxPage` bounds the file by one new page per
  call, which is the most an insert allocates.
- **Btree.** Order 2 is the smallest order with splits of both kinds; the
  code's `BTREE_ORDER` is derived from the page size and only changes how many
  keys a node takes before it splits. Six inserts of three keys reach height
three, where a leaf split happens under an internal node and the root splits
twice; the two calls after them are inserts or reads over that tree. Seven frames
is the smallest pool in which this script is correct (six loses keys), so
evictions of dirty pages happen in the passing run. `MaxPage` is three new pages
per call, more than an insert allocates at these heights.

- **Garbage list.** Two descriptors, and so a two-slot ring, with one other
  thread. This reaches an empty free list with both descriptors in the ring, a
  scavenge that can free one and not the other, a reader holding a descriptor
  across a bump, and the reader's load/store race with the owner's bump. A run
  with four descriptors (456k states) also passes `TypeOK`, `Conserved`,
  `PushSlotFree` and `Reclaims`, but takes too long to be a run with liveness.

- **YCSB driver.** Two workers, one operation per loop and one second per phase:
  the bug needs only one worker to finish its ramp loop after main has seen the
  barrier reach zero, and a second worker makes main's loops over the threads and
  the barrier counts non-trivial. More operations or seconds only lengthen the
  loops. `ycsb_keys` loads two records per thread, so each thread has a first
  and a last key and the zipfian range (`NewKeys = 1`) reaches past `Last`,
  which makes the rejection loop reject; two run operations allow an insert
  followed by a read.

## Fairness

`Spec` has weak fairness on each thread's step and on Recovery. Threads run
lock-free code, and the OS scheduler eventually runs a thread that can run.
Recovery runs to completion before the pool reopens. Crashes and cache
write-backs carry no fairness. Liveness (`AllOpsComplete`) therefore relies
only on the program's own steps.

The HashTable spec has weak fairness on its one client, which is a plain sequential
program. No liveness property of it is a run (see the leak finding).

The Btree spec has weak fairness on its one client, written as
`[]<>~CanStep \/ []<><<Next>>_vars`. `CanStep` is `ENABLED <<Next>>_vars` read off
the guards: idle (call or close), inside `find` or the split pass (always a step),
or in a descent that is not at a full stack. Every action changes `pc`, `stk`,
`fcur` or `opn`, so no enabled step is a stutter. TLC's own evaluation of
`ENABLED` does not share the intermediate pages of a split and does not finish.
No liveness property of the Btree is a run: the only step that can block is the
descent at a full stack (`MAX_LEVEL`), and a tree nine levels high cannot be built
(page numbers are 24 bits, `types.hpp:35`), while cycles of child pointers are
already excluded by `TreeShape`.

The GarbageList spec has weak fairness on the owner's steps inside an operation
and on each reader's `RProtectStore` and `RUnprotect`: a thread that has started
an operation or a protect runs on, and a thread inside an epoch eventually
leaves it (the code's `EpochGuard` is scoped to one read). Starting an operation,
grabbing and bumping carry no fairness. `OpsComplete` is checked under this.

The YCSB runs check safety invariants only; the fairness (weak fairness on main
and on each worker) is not used by them.

## Not modelled

- Memory recycling through free callbacks (`ReserveAndAddEntry`, the recycle
  flags of `AddEntry`, `DeallocateMemory` and the frees in Recovery): the callbacks
  hand memory to the PMDK allocator, which is outside this code, and the operands
  of the models are values, not allocations. Whether a crash between
  `DeallocateMemory` and `Finalize`'s flush makes Recovery free the same memory
  again depends on the callback clearing the pointer inside its PMDK transaction.
- The volatile reader (`GetValueProtected`) has no reader in the volatile run, for
  the state-space reason under Bounds; its persistent counterpart is modelled.
- In `PMwCAS.tla`, reclamation is abstracted to "wait until every thread that
  was in an operation at push time has left it"; `GarbageList.tla` models the ring
  and the epochs under this contract separately.
- Threads sharing a partition (more threads than partitions): the code requires
  one thread per partition, and threads that share one never run at the same time.
- The non-PMDK clflush loop in `nvram.h`, which has a wrong stride (hazard in
  `PROJECT.json`).
- Btree: `remove`, the iterators and `scan` (commented out or declared without a
  definition), the reopen constructor (`get_header` on a non-empty file),
  `record_count` and the data file of records, and crashes (the tree has no log;
  spec.md calls its crash consistency best effort). A pool of zero frames, which
  the second `DbBtree` constructor creates, is a hazard in `PROJECT.json`.
- The HashTable's reopen constructor (reading `n_buckets` from the header) and the
  `posix_fallocate` failure that makes `AllocatePage` return page 0 (a hazard in
  `PROJECT.json`). Values stored beside the keys are also left out, since the table
  never reads them.
- YCSB: the weights of the distributions (only the set of keys a generator can
  return is kept; `uniform_generator.h` and the zipfian generators are not in this
  repository), the "latest" distribution, key hashing (`utils::Hash` is not in
  this repository; keys are built as with `insertorder=ordered`), values and
  fields, the statistics and the output, the backends other than btree. A hazard
  is not recorded: `ramp_workloads` is filled only for the btree backend
  (`ycsbc.cc:161`) but indexed for every backend (305), which the btree-only
  model cannot reach.
- The environment wrappers: `LinuxEnvironment` (files, threads, clocks), the PMDK
  allocator (each call is a PMDK transaction around `pmemobj_tx_xalloc`/`pmemobj_tx_free`,
  atomic by the library, not by this code), `TlsAllocator` (not used anywhere under
  `src/`) and CPU pinning. None of them holds state the protocols read; the models
  take the descriptor pool and the pages as already allocated.
