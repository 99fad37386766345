---------------------------- MODULE AbstractRead ----------------------------
(***************************************************************************)
(* What Memory::read and Memory::write promise their callers (src/Memory.h *)
(* declares them; src/Memory.cpp implements them behind the backlog): a    *)
(* read of (pid, address, size) returns the target's bytes as they were at *)
(* one instant between the call and the return, and a write changes the    *)
(* target at one instant.  Several reads may be served at the same         *)
(* instant, as one scatter read serves a whole batch.                      *)
(*                                                                         *)
(* Data is abstracted as in MemoryEngine: mem[p][a] is a version that      *)
(* every write increments.                                                 *)
(***************************************************************************)
EXTENDS Naturals

CONSTANTS Threads, Pids, Addrs, Sizes, NoResult

Keys == [pid : Pids, addr : Addrs, size : Sizes]

Idle == [key |-> NoResult, val |-> NoResult]   \* no call in progress

VARIABLES
    mem,       \* the target's memory: a version per (pid, address)
    rd,        \* per thread: the key of its read and the value served, or Idle
    answers    \* every (key, bytes) pair a read has returned

avars == <<mem, rd, answers>>

AInit ==
    /\ mem = [p \in Pids |-> [a \in Addrs |-> 0]]
    /\ rd = [t \in Threads |-> Idle]
    /\ answers = {}

(* A thread calls Memory::read.                                            *)
Call(t, k) ==
    /\ rd[t] = Idle
    /\ rd' = [rd EXCEPT ![t] = [key |-> k, val |-> NoResult]]
    /\ UNCHANGED <<mem, answers>>

(* The instant a set of pending reads sees the memory.                     *)
Serve(S) ==
    /\ \A t \in S : rd[t] # Idle /\ rd[t].val = NoResult
    /\ rd' = [t \in Threads |->
                IF t \in S THEN [rd[t] EXCEPT !.val = mem[rd[t].key.pid][rd[t].key.addr]]
                ELSE rd[t]]
    /\ UNCHANGED <<mem, answers>>

(* Memory::read returns the bytes served to it.                            *)
Return(t) ==
    /\ rd[t] # Idle /\ rd[t].val # NoResult
    /\ answers' = answers \cup {[key |-> rd[t].key, data |-> rd[t].val]}
    /\ rd' = [rd EXCEPT ![t] = Idle]
    /\ UNCHANGED mem

(* Memory::write takes effect at once (or fails and changes nothing).      *)
Write(p, a) ==
    /\ mem' = [mem EXCEPT ![p][a] = @ + 1]
    /\ UNCHANGED <<rd, answers>>

ANext ==
    \/ \E t \in Threads, k \in Keys : Call(t, k)
    \/ \E S \in SUBSET Threads : Serve(S)
    \/ \E t \in Threads : Return(t)
    \/ \E p \in Pids, a \in Addrs : Write(p, a)

ASpec == AInit /\ [][ANext]_avars

=============================================================================
