----------------------------- MODULE MwCASSpec -----------------------------
(***************************************************************************)
(* What a persistent multi-word compare-and-swap promises its callers      *)
(* (Descriptor::MwCAS in src/Bztree/mwcas.cc, seen from outside).          *)
(*                                                                         *)
(* Each thread runs a fixed sequence of operations.  An operation is a set *)
(* of entries [addr, old, new].  Between the call of MwCAS() and its       *)
(* return the operation takes effect atomically at most once: all words    *)
(* equal their old values at that instant and all get their new values.   *)
(* It may report failure only if, at its call or at some commit of an      *)
(* overlapping operation during its execution, not all words held their    *)
(* old values.  A crash abandons every operation in flight, keeps every    *)
(* committed one and never makes up a value.  An operation may also be     *)
(* given up before it is called (Descriptor::Abort).                        *)
(***************************************************************************)
EXTENDS Naturals, Sequences, FiniteSets

CONSTANTS
    Threads,   \* the threads using the MwCAS library
    Addrs,     \* the target words
    Ops,       \* Ops[t]: the operations of thread t, each a set of entries
    InitVal    \* the value every target word holds initially

VARIABLES
    amem,      \* amem[a]: the logical value of word a
    aopi,      \* aopi[t]: index of the operation thread t is at
    ast,       \* ast[t] \in {"idle", "pending", "committed"}
    conflict   \* conflict[t]: a reason the current operation of t may fail

avars == <<amem, aopi, ast, conflict>>

OpOf(t) == Ops[t][aopi[t]]
OpAddrs(op) == {e.addr : e \in op}
Matches(op) == \A e \in op : amem[e.addr] = e.old

AInit ==
    /\ amem = [a \in Addrs |-> InitVal]
    /\ aopi = [t \in Threads |-> 1]
    /\ ast = [t \in Threads |-> "idle"]
    /\ conflict = [t \in Threads |-> FALSE]

\* The caller gives up an operation before calling MwCAS().
AAbort(t) ==
    /\ ast[t] = "idle" /\ aopi[t] <= Len(Ops[t])
    /\ aopi' = [aopi EXCEPT ![t] = @ + 1]
    /\ UNCHANGED <<amem, ast, conflict>>

\* MwCAS() is called; failure is permitted if the words differ now.
AInvoke(t) ==
    /\ ast[t] = "idle" /\ aopi[t] <= Len(Ops[t])
    /\ ast' = [ast EXCEPT ![t] = "pending"]
    /\ conflict' = [conflict EXCEPT ![t] = ~Matches(OpOf(t))]
    /\ UNCHANGED <<amem, aopi>>

\* The operation takes effect; overlapping operations in flight may fail.
ACommit(t) ==
    /\ ast[t] = "pending"
    /\ Matches(OpOf(t))
    /\ amem' = [a \in Addrs |->
                 IF a \in OpAddrs(OpOf(t))
                 THEN (CHOOSE e \in OpOf(t) : e.addr = a).new
                 ELSE amem[a]]
    /\ ast' = [ast EXCEPT ![t] = "committed"]
    /\ conflict' = [u \in Threads |->
                     conflict[u] \/ (u # t /\ ast[u] # "idle"
                                     /\ OpAddrs(OpOf(u)) \cap OpAddrs(OpOf(t)) # {})]
    /\ UNCHANGED aopi

ASucceed(t) ==
    /\ ast[t] = "committed"
    /\ ast' = [ast EXCEPT ![t] = "idle"]
    /\ aopi' = [aopi EXCEPT ![t] = @ + 1]
    /\ UNCHANGED <<amem, conflict>>

AFail(t) ==
    /\ ast[t] = "pending" /\ conflict[t]
    /\ ast' = [ast EXCEPT ![t] = "idle"]
    /\ aopi' = [aopi EXCEPT ![t] = @ + 1]
    /\ UNCHANGED <<amem, conflict>>

\* A crash abandons the operations in flight; an idle thread may have
\* prepared its operation, which is abandoned as well.
ACrash ==
    \E skip \in SUBSET {t \in Threads : ast[t] = "idle" /\ aopi[t] <= Len(Ops[t])} :
        /\ aopi' = [t \in Threads |->
                     IF ast[t] # "idle" \/ t \in skip THEN aopi[t] + 1 ELSE aopi[t]]
        /\ ast' = [t \in Threads |-> "idle"]
        /\ conflict' = [t \in Threads |-> FALSE]
        /\ UNCHANGED amem

ANext ==
    \/ \E t \in Threads : AAbort(t) \/ AInvoke(t) \/ ACommit(t) \/ ASucceed(t) \/ AFail(t)
    \/ ACrash

ASpec == AInit /\ [][ANext]_avars
=============================================================================
