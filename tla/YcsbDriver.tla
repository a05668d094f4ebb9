------------------------------ MODULE YcsbDriver ------------------------------
(***************************************************************************)
(* The benchmark driver of src/Ycsb/ycsbc.cc: the main thread and the      *)
(* worker threads it starts with std::async for the load, ramp-up and run  *)
(* phases, for the btree backend (one connection and one Client per        *)
(* thread).  Workers meet at start_barrier, run until main sets shutdown,  *)
(* and count themselves out on shutdown_barrier; main deletes the Clients  *)
(* at the end of each phase.  Only the control is kept: a Client is its    *)
(* allocation (alive) and the number of operations it has done (ops).      *)
(* Each thread's CoreWorkload (core_workload.h/.cc) is kept as far as it   *)
(* decides keys: the counter of its sequence_key_generator_ (seq) and the  *)
(* set of keys its key_chooser_ may return; its btree connection is the    *)
(* set of keys inserted into it (db), as IndexSemantics of Btree.tla       *)
(* shows the tree to be.  Keys are built with insertorder=ordered          *)
(* (BuildKeyName returns the key number; utils::Hash is not in src).       *)
(***************************************************************************)
EXTENDS Integers

CONSTANTS
    N,          \* num_threads
    Load,       \* -load true
    Ramp,       \* ramp_up > 0
    Run,        \* -run true
    RecordCount,   \* recordcount
    InsertStart,   \* insertstart
    RequestDist,   \* requestdistribution: "uniform" or "zipfian"
    NewKeys,       \* the zipfian key space's fudge: op_count * insert_proportion * 2
    OpChoices,     \* the operations op_chooser_ holds (proportion > 0)
    MaxOps,     \* bound on the operations of one ramp or run loop
    RampSec,    \* ramp_up seconds
    Seconds     \* benchmarkseconds

Workers == 1..N

VARIABLES
    mpc,              \* where main is
    k,                \* index of main's loop over the workers
    slept,            \* seconds of gather_stats in the current phase
    phase,            \* the Phase argument of the workers started last
    shutdown, start_barrier, shutdown_barrier,
    wpc,              \* where each worker is; "none" when it has no thread
    ops,              \* operations of the worker's loop
    alive,            \* clients[i] is allocated
    seq,              \* counter_ of workloads[i].sequence_key_generator_
    db,               \* the keys inserted into connections[i]
    rd                \* the key of worker i's last read, or NoKey

vars == <<mpc, k, slept, phase, shutdown, start_barrier, shutdown_barrier, wpc, ops, alive, seq, db, rd>>
wl == <<seq, db, rd>>

NoKey == -1

(***************************************************************************)
(* CoreWorkload::CoreWorkload and the generators it builds.                *)
(***************************************************************************)
(* record_count_ = recordcount / threadcount (line 117); the load runs     *)
(* total_ops / num_threads inserts per thread (ycsbc.cc 258, 271), the     *)
(* same number.                                                            *)
record_count == RecordCount \div N
NumOps == record_count

(* insert_start = insertstart + record_count_ * thread_id (lines 129-131). *)
(* workloads[i] gets the command line's insertstart, ramp_workloads[i]     *)
(* insertstart 0 (ycsbc.cc 154-160).                                       *)
StartOf(is, i) == is + record_count * (i - 1)
insert_start(i) == StartOf(InsertStart, i)
ramp_insert_start(i) == StartOf(0, i)

(* insert_key_sequence_.Set(insert_start + record_count_) (line 162), and  *)
(* CounterGenerator::Last() is counter_ - 1; nothing calls its Next().     *)
Last(s) == s + record_count - 1

(* The keys key_chooser_ can return (lines 164-179).                       *)
KeyChooser(s) ==
    IF RequestDist = "uniform" THEN s .. s + record_count - 1
                               ELSE s .. s + record_count + NewKeys

(* NextTransactionKey: draw again while the key is past Last().  With no   *)
(* key left the do-while loop spins and the action is disabled.            *)
NextTransactionKey(s) == {key \in KeyChooser(s) : key <= Last(s)}

(* NextSequenceKey: sequence_key_generator_->Next(), which is ++counter_.  *)
NextSequenceKey(i) == seq[i] + 1

(* DbBtree::Insert writes the record and inserts the key into the tree;    *)
(* it always returns kOK.  DbBtree::Read answers kOK exactly when find     *)
(* reaches a pair holding the key.                                         *)
DbInsert(d, key) == d \cup {key}
DbRead(d, key) == IF key \in d THEN "kOK" ELSE "kErrorNoData"

(* TransactionInsert with the key NextSequenceKey returns.                 *)
DoInsert(i) ==
    /\ seq' = [seq EXCEPT ![i] = NextSequenceKey(i)]
    /\ db' = [db EXCEPT ![i] = DbInsert(@, NextSequenceKey(i))]
    /\ UNCHANGED <<rd, wpc>>

(* TransactionRead with the key NextTransactionKey draws; the status is    *)
(* DbRead of that key.                                                     *)
DoRead(i, s) ==
    /\ \E key \in NextTransactionKey(s) : rd' = [rd EXCEPT ![i] = key]
    /\ UNCHANGED <<seq, db, wpc>>

(* DoTransaction: READ and INSERT are served; every other operation hits   *)
(* the default case and throws, which leaves DelegateClient at once (no    *)
(* --shutdown_barrier, no thread_deinit or Close): the future holds it.    *)
DoTransaction(i, op) ==
    CASE op = "READ"   -> DoRead(i, insert_start(i))
      [] op = "INSERT" -> DoInsert(i)
      [] OTHER         -> wpc' = [wpc EXCEPT ![i] = "done"] /\ UNCHANGED wl

(* The block main enters after the one it ends (lines 257, 296, 351).      *)
AfterLoad == IF Run /\ Ramp THEN "ramp_clear" ELSE IF Run THEN "run_clear" ELSE "end"

Init ==
    /\ mpc = IF Load THEN "load_spawn" ELSE AfterLoad
    /\ k = 1
    /\ slept = 0
    /\ phase = "load"
    /\ shutdown = FALSE
    /\ start_barrier = 0
    /\ shutdown_barrier = 0
    /\ wpc = [i \in Workers |-> "none"]
    /\ ops = [i \in Workers |-> 0]
    /\ alive = [i \in Workers |-> FALSE]
    /\ seq = [i \in Workers |-> insert_start(i)]
    \* Without -load the files hold what an earlier -load run inserted.
    /\ db = [i \in Workers |-> IF Load THEN {}
                                ELSE insert_start(i) + 1 .. insert_start(i) + record_count]
    /\ rd = [i \in Workers |-> NoKey]

(* One turn of a "for (i = 0; i < num_threads; ++i)" loop of main: at the  *)
(* last worker it goes on to pc next with the index reset.                 *)
LoopOn(next) ==
    IF k = N THEN mpc' = next /\ k' = 1 ELSE k' = k + 1 /\ UNCHANGED mpc

(* new Client, then workers.emplace_back(async(DelegateClient, ..., ph)).  *)
Spawn(at, ph, next) ==
    /\ mpc = at
    /\ alive' = [alive EXCEPT ![k] = TRUE]
    /\ wpc' = [wpc EXCEPT ![k] = "start"]
    /\ ops' = [ops EXCEPT ![k] = 0]
    /\ phase' = ph
    /\ LoopOn(next)
    /\ UNCHANGED <<slept, shutdown, start_barrier, shutdown_barrier, seq, db, rd>>

(* f.get(): blocks until worker k has returned its ClientStats.            *)
Get(at, next) ==
    /\ mpc = at
    /\ wpc[k] = "done"
    /\ LoopOn(next)
    /\ UNCHANGED <<slept, phase, shutdown, start_barrier, shutdown_barrier, wpc, ops, alive, seq, db, rd>>

(* delete clients[i].                                                      *)
Delete(at, next) ==
    /\ mpc = at
    /\ alive' = [alive EXCEPT ![k] = FALSE]
    /\ LoopOn(next)
    /\ UNCHANGED <<slept, phase, shutdown, start_barrier, shutdown_barrier, wpc, ops, seq, db, rd>>

(* workers.clear() destroys the futures of the previous phase; the future  *)
(* of an std::async call blocks in its destructor until the thread ends.   *)
(* Then the barriers are armed for num_threads workers (lines 297-301,     *)
(* 352-358); only the run block resets shutdown.                           *)
Clear(at, next, resetShutdown) ==
    /\ mpc = at
    /\ \A i \in Workers : wpc[i] \in {"none", "done"}
    /\ wpc' = [i \in Workers |-> "none"]
    /\ start_barrier' = N
    /\ shutdown_barrier' = N
    /\ shutdown' = IF resetShutdown THEN FALSE ELSE shutdown
    /\ slept' = 0
    /\ mpc' = next
    /\ UNCHANGED <<k, phase, ops, alive, seq, db, rd>>

(* while (start_barrier);                                                  *)
WaitStart(at, next) ==
    /\ mpc = at
    /\ start_barrier = 0
    /\ mpc' = next
    /\ UNCHANGED <<k, slept, phase, shutdown, start_barrier, shutdown_barrier, wpc, ops, alive, seq, db, rd>>

(* while (slept < secs) gather_stats(); shutdown = true;                  *)
Tick(at, secs) ==
    /\ mpc = at
    /\ slept < secs
    /\ slept' = slept + 1
    /\ UNCHANGED <<mpc, k, phase, shutdown, start_barrier, shutdown_barrier, wpc, ops, alive, seq, db, rd>>

Shutdown(at, secs, next) ==
    /\ mpc = at
    /\ slept = secs
    /\ shutdown' = TRUE
    /\ mpc' = next
    /\ UNCHANGED <<k, slept, phase, start_barrier, shutdown_barrier, wpc, ops, alive, seq, db, rd>>

(* while (shutdown_barrier.load(std::memory_order_acquire));               *)
WaitStop(at, next) ==
    /\ mpc = at
    /\ shutdown_barrier = 0
    /\ mpc' = next
    /\ UNCHANGED <<k, slept, phase, shutdown, start_barrier, shutdown_barrier, wpc, ops, alive, seq, db, rd>>

(***************************************************************************)
(* main, lines 257-449: the three blocks as a sequence of pcs.             *)
(***************************************************************************)
LoadPhase ==
    \/ Spawn("load_spawn", "load", "load_get")
    \/ Get("load_get", "load_del")
    \/ Delete("load_del", AfterLoad)

RampPhase ==
    \/ Clear("ramp_clear", "ramp_spawn", FALSE)
    \/ Spawn("ramp_spawn", "ramp", "ramp_wait_start")
    \/ WaitStart("ramp_wait_start", "ramp_tick")
    \/ Tick("ramp_tick", RampSec)
    \/ Shutdown("ramp_tick", RampSec, "ramp_wait_stop")
    \/ WaitStop("ramp_wait_stop", "ramp_del")
    \/ Delete("ramp_del", "run_clear")

RunPhase ==
    \/ Clear("run_clear", "run_spawn", TRUE)
    \/ Spawn("run_spawn", "run", "run_wait_start")
    \/ WaitStart("run_wait_start", "run_tick")
    \/ Tick("run_tick", Seconds)
    \/ Shutdown("run_tick", Seconds, "run_wait_stop")
    \/ WaitStop("run_wait_stop", "run_get")
    \/ Get("run_get", "run_del")
    \/ Delete("run_del", "end")

(***************************************************************************)
(* DelegateClient(i), lines 54-105.                                        *)
(***************************************************************************)
WSet(i, pc) == wpc' = [wpc EXCEPT ![i] = pc]

(* The load phase goes straight to its loop; the others decrement          *)
(* start_barrier and spin until it reaches zero.                           *)
WStart(i) ==
    /\ wpc[i] = "start"
    /\ IF phase = "load"
       THEN WSet(i, "loop") /\ UNCHANGED start_barrier
       ELSE WSet(i, "spin") /\ start_barrier' = start_barrier - 1
    /\ UNCHANGED <<mpc, k, slept, phase, shutdown, shutdown_barrier, ops, alive, seq, db, rd>>

WSpin(i) ==
    /\ wpc[i] = "spin"
    /\ start_barrier = 0
    /\ WSet(i, "loop")
    /\ UNCHANGED <<mpc, k, slept, phase, shutdown, start_barrier, shutdown_barrier, ops, alive, seq, db, rd>>

(* One DoInsert (load), DoRead with the ramp workload (ramp) or            *)
(* DoTransaction (run) on the worker's Client.                             *)
WOp(i) ==
    /\ wpc[i] = "loop"
    /\ IF phase = "load" THEN ops[i] < NumOps ELSE ~shutdown /\ ops[i] < MaxOps
    /\ ops' = [ops EXCEPT ![i] = @ + 1]
    /\ CASE phase = "load" -> DoInsert(i)
         [] phase = "ramp" -> DoRead(i, ramp_insert_start(i))
         [] OTHER          -> \E op \in OpChoices : DoTransaction(i, op)
    /\ UNCHANGED <<mpc, k, slept, phase, shutdown, start_barrier, shutdown_barrier, alive>>

(* The loop ends: after num_ops inserts, or when shutdown is seen, which   *)
(* --shutdown_barrier announces to main.                                   *)
WExit(i) ==
    /\ wpc[i] = "loop"
    /\ IF phase = "load"
       THEN ops[i] = NumOps /\ UNCHANGED shutdown_barrier
       ELSE shutdown /\ shutdown_barrier' = shutdown_barrier - 1
    /\ WSet(i, "tail")
    /\ UNCHANGED <<mpc, k, slept, phase, shutdown, start_barrier, ops, alive, seq, db, rd>>

(* db->thread_deinit; stats.inserts = client->GetInsert();                 *)
(* stats.reads = client->GetRead() (and, in the run phase, the LOG_IF on   *)
(* client->GetOps()).                                                      *)
WTail(i) ==
    /\ wpc[i] = "tail"
    /\ WSet(i, "close")
    /\ UNCHANGED <<mpc, k, slept, phase, shutdown, start_barrier, shutdown_barrier, ops, alive, seq, db, rd>>

(* db->Close(); return stats: the future becomes ready.                    *)
WClose(i) ==
    /\ wpc[i] = "close"
    /\ WSet(i, "done")
    /\ UNCHANGED <<mpc, k, slept, phase, shutdown, start_barrier, shutdown_barrier, ops, alive, seq, db, rd>>

Worker(i) == WStart(i) \/ WSpin(i) \/ WOp(i) \/ WExit(i) \/ WTail(i) \/ WClose(i)

Next ==
    \/ LoadPhase \/ RampPhase \/ RunPhase
    \/ \E i \in Workers : Worker(i)

(* The OS runs every thread that can run; main and the workers spin, so    *)
(* weak fairness is what they get.                                         *)
Spec == Init /\ [][Next]_vars /\ WF_vars(LoadPhase \/ RampPhase \/ RunPhase)
        /\ \A i \in Workers : WF_vars(Worker(i))

-----------------------------------------------------------------------------
TypeOK ==
    /\ k \in Workers /\ slept \in 0..(IF RampSec > Seconds THEN RampSec ELSE Seconds)
    /\ phase \in {"load", "ramp", "run"} /\ shutdown \in BOOLEAN
    /\ start_barrier \in 0..N /\ shutdown_barrier \in 0..N
    /\ wpc \in [Workers -> {"none", "start", "spin", "loop", "tail", "close", "done"}]
    /\ ops \in [Workers -> 0..(IF NumOps > MaxOps THEN NumOps ELSE MaxOps)]
    /\ alive \in [Workers -> BOOLEAN]
    /\ seq \in [Workers -> Nat] /\ db \in [Workers -> SUBSET Nat]
    /\ rd \in [Workers -> Nat \cup {NoKey}]

(* A worker touches its Client (the operations of its loop, GetInsert,     *)
(* GetRead and GetOps after it) only while main has not deleted it.        *)
ClientAliveWhenUsed == \A i \in Workers : wpc[i] \in {"loop", "tail"} => alive[i]

(* NextTransactionKey returns only keys that have been inserted: the       *)
(* comment at core_workload.cc 172-174 says a key "not inserted yet" is    *)
(* ignored and another picked, which is what its loop on                   *)
(* insert_key_sequence_.Last() is for.  Every read of a worker's tree     *)
(* then answers kOK.                                                       *)
TransactionKeyInserted ==
    \A i \in Workers : rd[i] # NoKey => DbRead(db[i], rd[i]) = "kOK"
=============================================================================
