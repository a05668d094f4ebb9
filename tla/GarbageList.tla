----------------------------- MODULE GarbageList -----------------------------
(***************************************************************************)
(* One descriptor partition of the MwCAS DescriptorPool with its garbage   *)
(* list (src/Bztree/include/garbage_list_unsafe_persistent.h, used through *)
(* DescriptorPartition in src/Bztree/mwcas.cc) and the shared EpochManager.*)
(*                                                                         *)
(* The Owner thread runs operations: Protect, AllocateDescriptor (pop the  *)
(* free list, else bump the epoch and Scavenge until one comes back), then *)
(* MwCAS (its descriptor is reachable from target words until Cleanup) or *)
(* Abort, then Push on the garbage list, then Unprotect.  Readers are the  *)
(* other threads: inside an epoch they may read a target word and keep a  *)
(* pointer to the descriptor it holds (held), and their own pools bump    *)
(* the shared epoch.  The ring is items[0..ItemCount-1]; item_count is     *)
(* GetDescPerPartition(), so ItemCount is also the number of descriptors.  *)
(*                                                                         *)
(* The EpochManager is not in src; it is modelled after spec.md 4.6 and    *)
(* the PMwCAS library it comes from: current_epoch_ starts at 1 and        *)
(* safe_to_reclaim_epoch_ at 0; Protect loads the current epoch and then   *)
(* stores it in the thread's entry; BumpCurrentEpoch increments the epoch  *)
(* and sets the safe epoch to (oldest protected epoch, or the old current  *)
(* one) - 1; IsSafeToReclaim(e) is e <= safe.                              *)
(*                                                                         *)
(* Epochs are only compared and incremented, so after every bump they are  *)
(* renumbered by rank (Commit): the same behaviours, finitely many states. *)
(***************************************************************************)
EXTENDS Naturals, Sequences, FiniteSets, FiniteSetsExt

CONSTANTS
    ItemCount,  \* item_count_ = desc_per_partition_, a power of two
    Owner,      \* the thread owning the partition
    Readers     \* the other threads

Desc == 1..ItemCount
NoDesc == 0
Slots == 0..(ItemCount - 1)
Threads == Readers \cup {Owner}
Empty == [epoch |-> 0, item |-> NoDesc]

VARIABLES
    current,    \* EpochManager::current_epoch_
    safe,       \* EpochManager::safe_to_reclaim_epoch_
    prot,       \* prot[t]: the epoch in t's table entry, 0 if not protected
    rpc,        \* rpc[r]: "out", "loading" (epoch loaded, not stored) or "in"
    rload,      \* rload[r]: the epoch r loaded in Protect
    held,       \* held[r]: descriptors r read from a target word
    tail,       \* tail_ & (item_count_ - 1)
    items,      \* items_[i]: [removal_epoch, removed_item]
    freeList,   \* DescriptorPartition::free_list, head first
    opc,        \* the Owner's place in its operation
    cur,        \* the Owner's descriptor
    rem,        \* Push's removal_epoch
    published   \* descriptors a target word points to

vars == <<current, safe, prot, rpc, rload, held, tail, items, freeList, opc, cur,
          rem, published>>

(* Renumber every epoch by its rank among the epochs in use, safe + 1     *)
(* (the oldest epoch the last bump saw) included.                         *)
Commit(c, s, it, rm) ==
    LET V == ({c, s + 1, rm} \cup {prot[t] : t \in Threads} \cup {rload[r] : r \in Readers}
              \cup {it[i].epoch : i \in Slots}) \ {0}
        N(e) == IF e = 0 THEN 0 ELSE Cardinality({v \in V : v <= e})
    IN /\ current' = N(c)
       /\ safe' = N(s + 1) - 1
       /\ prot' = [t \in Threads |-> N(prot[t])]
       /\ rload' = [r \in Readers |-> N(rload[r])]
       /\ items' = [i \in Slots |-> [it[i] EXCEPT !.epoch = N(@)]]
       /\ rem' = N(rm)

(* BumpCurrentEpoch: fetch_add, then ComputeNewSafeToReclaimEpoch over the *)
(* table with the old epoch as the bound.                                  *)
Bumped(c) ==
    [c |-> c + 1, s |-> Min({c} \cup {prot[t] : t \in {u \in Threads : prot[u] # 0}}) - 1]

IsSafeToReclaimLate(e, s) == e <= s + 1
IsSafeToReclaim(e, s) == e <= s

(* Descriptor::FreeDescriptor: Finalize, then push on the free list. *)
FreeDescriptor(fl, d) == <<d>> \o fl

(* Push: tail_++ masked by item_count_ - 1. *)
NextSlotNoMask(t) == t + 1
NextSlot(t) == (t + 1) % ItemCount

(* Push bumps the epoch every quarter of the ring: (slot << 2) & mask = 0. *)
QuarterBumpNever(slot) == FALSE
QuarterBump(slot) == (slot * 4) % ItemCount = 0

(* A slot whose prior item is safe: its destroy callback runs (a slot     *)
(* with epoch 0 is empty).                                                *)
Reuse(fl, prior, d) == IF prior # 0 THEN FreeDescriptor(fl, d) ELSE fl

(* Scavenge: every slot with a safe epoch is destroyed and reset to 0.    *)
(* (The invalid epoch ~0 is never seen: the list has one thread.)         *)
RECURSIVE ScavengeNoReset(_, _, _, _)
ScavengeNoReset(i, it, fl, s) ==
    IF i = ItemCount THEN [items |-> it, free |-> fl]
    ELSE IF it[i].epoch = 0 \/ ~IsSafeToReclaim(it[i].epoch, s)
         THEN ScavengeNoReset(i + 1, it, fl, s)
         ELSE ScavengeNoReset(i + 1, it, FreeDescriptor(fl, it[i].item), s)
RECURSIVE ScavengeShort(_, _, _, _)
ScavengeShort(i, it, fl, s) ==
    IF i = ItemCount - 1 THEN [items |-> it, free |-> fl]
    ELSE IF it[i].epoch = 0 \/ ~IsSafeToReclaim(it[i].epoch, s)
         THEN ScavengeShort(i + 1, it, fl, s)
         ELSE ScavengeShort(i + 1, [it EXCEPT ![i] = Empty], FreeDescriptor(fl, it[i].item), s)
RECURSIVE Scavenge(_, _, _, _)
Scavenge(i, it, fl, s) ==
    IF i = ItemCount THEN [items |-> it, free |-> fl]
    ELSE IF it[i].epoch = 0 \/ ~IsSafeToReclaim(it[i].epoch, s)
         THEN Scavenge(i + 1, it, fl, s)
         ELSE Scavenge(i + 1, [it EXCEPT ![i] = Empty], FreeDescriptor(fl, it[i].item), s)

(* Uninitialize's loop: every slot holding an item is destroyed. *)
RECURSIVE DestroyAll(_, _)
DestroyAll(i, fl) ==
    IF i = ItemCount THEN fl
    ELSE DestroyAll(i + 1, IF items[i].item # NoDesc THEN FreeDescriptor(fl, items[i].item) ELSE fl)

(* DescriptorPool::InitDescriptors pushes descriptors 1..n in order on    *)
(* the free list.                                                          *)
InitFreeList == [i \in 1..ItemCount |-> ItemCount + 1 - i]

(* GarbageList::Initialize: items_ allocated and zeroed, tail_ = 0.        *)
EmptyRing == [i \in Slots |-> Empty]

(* The DescriptorPartition constructor: an empty free list filled by      *)
(* InitDescriptors, and the garbage list initialized.                      *)
Init ==
    /\ current = 1 /\ safe = 0
    /\ prot = [t \in Threads |-> 0]
    /\ rpc = [r \in Readers |-> "out"] /\ rload = [r \in Readers |-> 0]
    /\ held = [r \in Readers |-> {}]
    /\ tail = 0 /\ items = EmptyRing
    /\ freeList = InitFreeList
    /\ opc = "idle" /\ cur = NoDesc /\ rem = 0 /\ published = {}

-----------------------------------------------------------------------------
(* Owner *)

OProtect ==
    /\ opc = "idle"
    /\ prot' = [prot EXCEPT ![Owner] = current]
    /\ opc' = "alloc"
    /\ UNCHANGED <<current, safe, rpc, rload, held, tail, items, freeList, cur, rem, published>>

(* AllocateDescriptor: the free list has a descriptor. *)
AllocPop ==
    /\ opc = "alloc" /\ freeList # <<>>
    /\ cur' = Head(freeList) /\ freeList' = Tail(freeList)
    /\ opc' = "use"
    /\ UNCHANGED <<current, safe, prot, rpc, rload, held, tail, items, rem, published>>

(* AllocateDescriptor: the free list is empty; bump the epoch, Scavenge   *)
(* and loop.                                                               *)
AllocScavenge ==
    /\ opc = "alloc" /\ freeList = <<>>
    /\ LET b == Bumped(current)
           sc == Scavenge(0, items, freeList, b.s)
       IN /\ freeList' = sc.free
          /\ Commit(b.c, b.s, sc.items, rem)
    /\ UNCHANGED <<rpc, held, tail, opc, cur, published>>

(* MwCAS: the descriptor is installed in the target words. *)
Publish ==
    /\ opc = "use"
    /\ published' = {cur}
    /\ opc' = "installed"
    /\ UNCHANGED <<current, safe, prot, rpc, rload, held, tail, items, freeList, cur, rem>>

(* Cleanup: no target word points to the descriptor any more; Push reads  *)
(* the current epoch as its removal_epoch.                                *)
Cleanup ==
    /\ opc = "installed"
    /\ published' = {}
    /\ rem' = current
    /\ opc' = "push"
    /\ UNCHANGED <<current, safe, prot, rpc, rload, held, tail, items, freeList, cur>>

(* The DescriptorGuard is dropped without MwCAS: Abort pushes the unused  *)
(* descriptor.                                                             *)
Abort ==
    /\ opc = "use"
    /\ rem' = current
    /\ opc' = "push"
    /\ UNCHANGED <<current, safe, prot, rpc, rload, held, tail, items, freeList, cur, published>>

(* One turn of Push's loop: take the next slot, bump on a quarter; a slot *)
(* whose prior item is not yet safe is left and the loop goes on, else    *)
(* the prior item is destroyed and the slot gets the descriptor.          *)
PushStep ==
    /\ opc = "push"
    /\ tail' = NextSlot(tail)
    /\ LET b == IF QuarterBump(tail) THEN Bumped(current) ELSE [c |-> current, s |-> safe]
           prior == items[tail].epoch
       IN IF prior # 0 /\ ~IsSafeToReclaim(prior, b.s)
          THEN /\ Commit(b.c, b.s, items, rem)
               /\ UNCHANGED <<freeList, opc, cur>>
          ELSE /\ freeList' = Reuse(freeList, prior, items[tail].item)
               /\ Commit(b.c, b.s, [items EXCEPT ![tail] = [epoch |-> rem, item |-> cur]], 0)
               /\ opc' = "done" /\ cur' = NoDesc
    /\ UNCHANGED <<rpc, held, published>>

OUnprotect ==
    /\ opc = "done"
    /\ prot' = [prot EXCEPT ![Owner] = 0]
    /\ opc' = "idle"
    /\ UNCHANGED <<current, safe, rpc, rload, held, tail, items, freeList, cur, rem, published>>

(* ~DescriptorPool -> ~DescriptorPartition -> Uninitialize: every item's  *)
(* destroy callback runs regardless of epochs; the caller has stopped     *)
(* every other thread (the comment on Uninitialize).                       *)
Uninitialize ==
    /\ opc = "idle"
    /\ \A r \in Readers : rpc[r] = "out"
    /\ freeList' = DestroyAll(0, freeList)
    /\ items' = EmptyRing /\ tail' = 0
    /\ opc' = "closed"
    /\ UNCHANGED <<current, safe, prot, rpc, rload, held, cur, rem, published>>

-----------------------------------------------------------------------------
(* Readers *)

RProtectLoad(r) ==
    /\ rpc[r] = "out"
    /\ rload' = [rload EXCEPT ![r] = current]
    /\ rpc' = [rpc EXCEPT ![r] = "loading"]
    /\ UNCHANGED <<current, safe, prot, held, tail, items, freeList, opc, cur, rem, published>>

RProtectStore(r) ==
    /\ rpc[r] = "loading"
    /\ prot' = [prot EXCEPT ![r] = rload[r]]
    /\ rload' = [rload EXCEPT ![r] = 0]
    /\ rpc' = [rpc EXCEPT ![r] = "in"]
    /\ UNCHANGED <<current, safe, held, tail, items, freeList, opc, cur, rem, published>>

(* GetValueProtectedPersistent finds a descriptor pointer in a word and   *)
(* keeps it to help.                                                       *)
RGrab(r, d) ==
    /\ rpc[r] = "in" /\ d \in published
    /\ held' = [held EXCEPT ![r] = @ \cup {d}]
    /\ UNCHANGED <<current, safe, prot, rpc, rload, tail, items, freeList, opc, cur, rem, published>>

RUnprotect(r) ==
    /\ rpc[r] = "in"
    /\ prot' = [prot EXCEPT ![r] = 0]
    /\ held' = [held EXCEPT ![r] = {}]
    /\ rpc' = [rpc EXCEPT ![r] = "out"]
    /\ UNCHANGED <<current, safe, rload, tail, items, freeList, opc, cur, rem, published>>

(* Another partition's AllocateDescriptor or Push bumps the shared epoch. *)
RBump(r) ==
    /\ LET b == Bumped(current) IN Commit(b.c, b.s, items, rem)
    /\ UNCHANGED <<rpc, held, tail, freeList, opc, cur, published>>

-----------------------------------------------------------------------------
OwnerBusy ==
    AllocPop \/ AllocScavenge \/ Publish \/ Cleanup \/ Abort \/ PushStep
    \/ OUnprotect

Next ==
    \/ OProtect \/ OwnerBusy \/ Uninitialize
    \/ \E r \in Readers :
         \/ RProtectLoad(r) \/ RProtectStore(r) \/ RUnprotect(r) \/ RBump(r)
         \/ \E d \in Desc : RGrab(r, d)

(* The Owner is a running thread inside an operation; a reader finishes   *)
(* its read and leaves its epoch.  Starting an operation or a read,       *)
(* bumping and tearing down are not forced.                                *)
Spec ==
    /\ Init /\ [][Next]_vars
    /\ WF_vars(OwnerBusy)
    /\ \A r \in Readers : WF_vars(RProtectStore(r)) /\ WF_vars(RUnprotect(r))
-----------------------------------------------------------------------------
(* Properties *)

InFree(d) == \E i \in DOMAIN freeList : freeList[i] = d

TypeOK ==
    /\ current \in Nat \ {0} /\ safe \in Nat /\ safe < current
    /\ prot \in [Threads -> Nat] /\ rload \in [Readers -> Nat]
    /\ rpc \in [Readers -> {"out", "loading", "in"}] /\ held \in [Readers -> SUBSET Desc]
    /\ tail \in Slots
    /\ items \in [Slots -> [epoch : Nat, item : Desc \cup {NoDesc}]]
    /\ freeList \in Seq(Desc)
    /\ opc \in {"idle", "alloc", "use", "installed", "push", "done", "closed"}
    /\ cur \in Desc \cup {NoDesc} /\ rem \in Nat /\ published \in SUBSET Desc

(* Every descriptor of the partition is in exactly one place: once on the *)
(* free list, with the Owner, or in one slot of the ring.  Push must       *)
(* destroy the prior item of the slot it overwrites and Scavenge must      *)
(* clear the slots it destroys, or a descriptor is lost or freed twice.    *)
Conserved ==
    \A d \in Desc :
        Len(SelectSeq(freeList, LAMBDA x : x = d))
          + (IF cur = d THEN 1 ELSE 0)
          + Cardinality({i \in Slots : items[i].item = d}) = 1

(* Push always finds the slot at tail_ empty, so its loop (line 193)      *)
(* neither skips a slot nor destroys an item: the ring has as many slots   *)
(* as the partition has descriptors, Push fills them in order, and         *)
(* AllocateDescriptor scavenges only once every descriptor is on the list, *)
(* freeing the oldest (safe first) slots that Push reaches next.           *)
PushSlotFree == opc = "push" => items[tail].epoch = 0

(* The garbage list implements epoch-based reclamation: a descriptor goes *)
(* back to the free list (FreeDescriptor from Push or Scavenge) only when  *)
(* no reader still holds the pointer it read from a target word, however   *)
(* the readers' Protect, the bumps of other pools and the Owner's Push     *)
(* and Scavenge interleave.                                                *)
DState ==
    [d \in Desc |-> IF InFree(d) THEN "free"
                    ELSE IF d = cur /\ opc \in {"use", "installed"} THEN "inuse"
                    ELSE "garbage"]
Reclaim == INSTANCE EpochReclaimSpec WITH dstate <- DState
Reclaims == Reclaim!RSpec

(* AllocateDescriptor's loop ends and Push's loop ends: the Owner, which   *)
(* keeps its own epoch protected while it allocates, is not left waiting   *)
(* on descriptors its own epoch protects.                                  *)
OpsComplete ==
    /\ opc = "alloc" ~> opc = "use"
    /\ opc = "push" ~> opc = "done"
=============================================================================
