------------------------------- MODULE FpmSlots -------------------------------
(***************************************************************************)
(* The shared memory slots of one worker pool: fpm_shm_slots.c over the    *)
(* arrays of fpm_arrays.h and the segments of fpm_shm.c, with the calls    *)
(* fpm_children.c makes of them and the lock the workers take in their     *)
(* slot (fpm_request.c).  Two arrays hold the slots in use and the free    *)
(* ones.  Every child structure remembers the index of its entry in        *)
(* slots_used; an entry is removed by moving the last one into its place,  *)
(* whose child must then be told of its new index.                         *)
(*                                                                         *)
(* A child structure is "none" (not allocated), "prepared" (between        *)
(* fpm_resources_prepare and fork), "running" or "dead" (not yet buried).  *)
(* malloc hands the address of a freed structure out again.                *)
(***************************************************************************)
EXTENDS Naturals, Sequences, FiniteSets

CONSTANTS Addr,         \* addresses malloc returns for child structures
          Null,         \* the null pointer
          MaxChildren,  \* max_children of the pool
          InitialNum,   \* entries the arrays are created with
          MaxFailures   \* bound: allocations that fail in a behaviour

ASSUME SlotsAssumption ==
  /\ IsFiniteSet(Addr) /\ Null \notin Addr
  /\ MaxChildren \in Nat
  /\ InitialNum \in Nat \ {0}
  /\ MaxFailures \in Nat

VARIABLES
  used, free,            \* the entries of wp->slots_used and wp->slots_free
  used_allocated, free_allocated,   \* the room of the two arrays
  chunks,                \* slots cut out of the shared segments so far
  stage,                 \* of each child structure, see above
  shm_slot_i,            \* child->shm_slot_i
  shm_slot,              \* the slot the process of a child works on
  locked,                \* the slots whose lock is 1
  inside,                \* the workers between acquire and release
  failures,              \* allocations that have failed
  leaked,                \* slots a failed push on slots_free has dropped
  torn,                  \* a failed chunk has left its entry behind
  wild                   \* the master has used a bad pointer: it is undone

arrays == <<used, free, used_allocated, free_allocated, chunks>>
procs  == <<stage, shm_slot_i, shm_slot>>
locks  == <<locked, inside>>
ghosts == <<failures, leaked, torn, wild>>
vars   == <<arrays, procs, locks, ghosts>>

NoSlot == 0
Entry  == [shm_slot : Nat, child : Addr \cup {Null}]

(* The master has no child in hand between its preparation and fork. *)
NoneInHand == \A a \in Addr : stage[a] # "prepared"

Allocated == {a \in Addr : stage[a] # "none"}
Linked    == {a \in Addr : stage[a] \in {"running", "dead"}}
Running   == {a \in Addr : stage[a] = "running"}

TypeOK ==
  /\ used \in Seq(Entry)
  /\ free \in Seq([shm_slot : Nat, child : {Null}])
  /\ used_allocated \in Nat \ {0} /\ Len(used) <= used_allocated
  /\ free_allocated \in Nat \ {0} /\ Len(free) <= free_allocated
  /\ chunks \in Nat
  /\ stage \in [Addr -> {"none", "prepared", "running", "dead"}]
  /\ shm_slot_i \in [Addr -> Nat]
  /\ shm_slot \in [Addr -> Nat]
  /\ locked \in SUBSET (1..chunks)
  /\ inside \in SUBSET Running
  /\ failures \in 0..MaxFailures /\ leaked \in 0..failures
  /\ torn \in BOOLEAN /\ wild \in BOOLEAN

Init ==
  /\ used = <<>> /\ free = <<>>
  /\ used_allocated = InitialNum /\ free_allocated = InitialNum
  /\ chunks = 0
  /\ stage = [a \in Addr |-> "none"]
  /\ shm_slot_i = [a \in Addr |-> 0]
  /\ shm_slot = [a \in Addr |-> NoSlot]
  /\ locked = {} /\ inside = {}
  /\ failures = 0 /\ leaked = 0 /\ torn = FALSE /\ wild = FALSE

-----------------------------------------------------------------------------
(* fpm_arrays.h *)

(* The room after a push onto an array of n entries that found room for r. *)
Room(n, r) == IF n = r THEN 2 * r ELSE r

AllButLast(s) == SubSeq(s, 1, Len(s) - 1)

(* fpm_array_item_remove(a, n), with n counted from zero as in the code. *)
ItemRemove(s, n) ==
  AllButLast(IF n < Len(s) - 1 THEN [s EXCEPT ![n + 1] = s[Len(s)]] ELSE s)

(* An allocation fails, at most MaxFailures times. *)
Fails == failures < MaxFailures /\ failures' = failures + 1

-----------------------------------------------------------------------------
(* fpm_shm_slots_prepare_slot, called by fpm_resources_prepare *)

CanPrepare(a) ==
  /\ ~wild /\ stage[a] = "none" /\ NoneInHand
  /\ Cardinality(Linked) < MaxChildren

PushFails(a) ==
  /\ CanPrepare(a) /\ Len(used) = used_allocated /\ Fails
  /\ UNCHANGED <<arrays, procs, locks, leaked, torn, wild>>

(* The entry stays, with the null slot and whatever the array held there,  *)
(* although the caller frees the child.                                    *)
ChunkFails(a) ==
  /\ CanPrepare(a) /\ free = <<>> /\ Fails
  /\ \E old \in Addr \cup {Null} : used' = Append(used, [shm_slot |-> NoSlot, child |-> old])
  /\ used_allocated' = Room(Len(used), used_allocated)
  /\ torn' = TRUE
  /\ UNCHANGED <<free, free_allocated, chunks, procs, locks, leaked, wild>>

(* Mutant: the lock a dead worker held is inherited. *)
NotCleared(s) == locked

(* memset of the slot *)
Cleared(s) == locked \ {s}

(* Mutant: --wp->slots_free.used is forgotten. *)
StillFree == free

WithoutLast == AllButLast(free)

Prepared(a, s) ==
  /\ used' = Append(used, [shm_slot |-> s, child |-> a])
  /\ used_allocated' = Room(Len(used), used_allocated)
  /\ shm_slot_i' = [shm_slot_i EXCEPT ![a] = Len(used)]
  /\ stage' = [stage EXCEPT ![a] = "prepared"]
  /\ locked' = Cleared(s)
  /\ UNCHANGED <<free_allocated, shm_slot, inside, failures, leaked, torn>>

PrepareNew(a) ==
  /\ CanPrepare(a) /\ free = <<>>
  /\ chunks' = chunks + 1
  /\ Prepared(a, chunks + 1)
  /\ UNCHANGED <<free, wild>>

PrepareFree(a) ==
  /\ CanPrepare(a) /\ free # <<>>
  /\ free' = WithoutLast
  /\ Prepared(a, free[Len(free)].shm_slot)
  /\ wild' = (free[Len(free)].shm_slot = NoSlot)
  /\ UNCHANGED chunks

-----------------------------------------------------------------------------
(* fpm_shm_slots_discard_slot *)

(* Mutant: shm_slot_ptr->child is not cleared. *)
FreeEntryKept(e) == e

FreeEntry(e) == [shm_slot |-> e.shm_slot, child |-> Null]

(* Mutant: nothing is pushed on slots_free. *)
NotPushed(e) == UNCHANGED <<free, free_allocated, failures, leaked>>

PushFree(e) ==
  \/ /\ free' = Append(free, FreeEntry(e))
     /\ free_allocated' = Room(Len(free), free_allocated)
     /\ UNCHANGED <<failures, leaked>>
  \/ /\ Len(free) = free_allocated /\ Fails
     /\ leaked' = leaked + 1
     /\ UNCHANGED <<free, free_allocated>>

(* Mutant: the child of the moved entry is not told. *)
MovedUntold(i) == UNCHANGED <<shm_slot_i, wild>>

(* The child of the entry moved to i, if one is, learns its index. *)
Moved(i) ==
  LET last == used[Len(used)] IN
  IF i < Len(used) - 1
  THEN IF last.child \in Allocated
       THEN shm_slot_i' = [shm_slot_i EXCEPT ![last.child] = i] /\ UNCHANGED wild
       ELSE wild' = TRUE /\ UNCHANGED shm_slot_i
  ELSE UNCHANGED <<shm_slot_i, wild>>

DiscardSlot(a) ==
  /\ PushFree(used[shm_slot_i[a] + 1])
  /\ used' = ItemRemove(used, shm_slot_i[a])
  /\ Moved(shm_slot_i[a])
  /\ UNCHANGED <<used_allocated, chunks, torn>>

-----------------------------------------------------------------------------
(* fpm_children.c *)

(* In the child, fpm_shm_slots_child_use_slot. *)
Fork(a) ==
  /\ ~wild /\ stage[a] = "prepared"
  /\ stage' = [stage EXCEPT ![a] = "running"]
  /\ shm_slot' = [shm_slot EXCEPT ![a] = used[shm_slot_i[a] + 1].shm_slot]
  /\ UNCHANGED <<arrays, shm_slot_i, locks, ghosts>>

(* fpm_resources_discard *)
ForkFails(a) ==
  /\ ~wild /\ stage[a] = "prepared"
  /\ DiscardSlot(a)
  /\ stage' = [stage EXCEPT ![a] = "none"]
  /\ UNCHANGED <<shm_slot, locks>>

(* fpm_children_bury: unlink, discard, close. *)
Bury(a) ==
  /\ ~wild /\ stage[a] = "dead" /\ NoneInHand
  /\ DiscardSlot(a)
  /\ stage' = [stage EXCEPT ![a] = "none"]
  /\ UNCHANGED <<shm_slot, locks>>

-----------------------------------------------------------------------------
(* The workers: fpm_request.c takes the lock at every change of stage, and *)
(* a worker may be killed between the two calls.                           *)

Acquire(a) ==
  /\ ~wild /\ stage[a] = "running" /\ a \notin inside /\ shm_slot[a] \notin locked
  /\ locked' = locked \cup {shm_slot[a]} /\ inside' = inside \cup {a}
  /\ UNCHANGED <<arrays, procs, ghosts>>

Release(a) ==
  /\ ~wild /\ a \in inside
  /\ locked' = locked \ {shm_slot[a]} /\ inside' = inside \ {a}
  /\ UNCHANGED <<arrays, procs, ghosts>>

Die(a) ==
  /\ ~wild /\ stage[a] = "running"
  /\ stage' = [stage EXCEPT ![a] = "dead"] /\ inside' = inside \ {a}
  /\ UNCHANGED <<arrays, shm_slot_i, shm_slot, locked, ghosts>>

Next ==
  \E a \in Addr :
    \/ PushFails(a) \/ ChunkFails(a) \/ PrepareNew(a) \/ PrepareFree(a)
    \/ Fork(a) \/ ForkFails(a) \/ Bury(a)
    \/ Acquire(a) \/ Release(a) \/ Die(a)

Spec == Init /\ [][Next]_vars

-----------------------------------------------------------------------------
(* Whatever fails, a slot is used by one process at most, and a slot a     *)
(* worker has not been buried with is never handed out again: no worker    *)
(* writes its request into the slot of another.                            *)
NoSharedSlot ==
  /\ \A a, b \in Linked : shm_slot[a] = shm_slot[b] => a = b
  /\ \A a \in Linked : \A i \in DOMAIN free : free[i].shm_slot # shm_slot[a]

(* As long as no chunk allocation has failed, the index the master keeps   *)
(* for a child leads, after any order of deaths, to the slot its process   *)
(* uses (this is what fpm_shm_slot(child) returns), and the master never   *)
(* writes through the pointer to a child it has freed.                     *)
BackIndexExact ==
  ~torn =>
    /\ ~wild
    /\ \A a \in Linked :
         /\ shm_slot_i[a] < Len(used)
         /\ used[shm_slot_i[a] + 1] = [shm_slot |-> shm_slot[a], child |-> a]

(* A worker is never kept waiting by its lock for ever: the lock of its    *)
(* slot is taken only while it is itself between acquire and release, even *)
(* if the slot comes from a worker that was killed while it held the lock. *)
LockIsMine == \A a \in Running : shm_slot[a] \in locked => a \in inside

(* A worker and its slot, lock included, have nothing to do with any other *)
(* worker, the dead ones included.                                         *)
SlotsArePrivate == NoSharedSlot /\ LockIsMine

(* Shared memory does not grow as workers come and go: apart from what     *)
(* failed allocations lost there are no more slots than workers allowed.   *)
MemoryIsBounded == ~torn => chunks <= MaxChildren + leaked
=============================================================================
