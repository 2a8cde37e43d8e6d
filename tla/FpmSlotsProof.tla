---------------------------- MODULE FpmSlotsProof ----------------------------
(***************************************************************************)
(* Proofs about FpmSlots: for any number of children, any size of the      *)
(* arrays and any number of failed allocations no slot is shared, and      *)
(* until the first torn entry the indices are exact, the master uses no    *)
(* bad pointer and shared memory is bounded.                               *)
(***************************************************************************)
EXTENDS FpmSlots, FiniteSetTheorems, SequenceTheorems, TLAPS

(* A slot other than the null one has one entry in the two arrays. *)
HeldOnce ==
  /\ \A i, j \in DOMAIN used :
       used[i].shm_slot # NoSlot /\ used[i].shm_slot = used[j].shm_slot => i = j
  /\ \A i, j \in DOMAIN free :
       free[i].shm_slot # NoSlot /\ free[i].shm_slot = free[j].shm_slot => i = j
  /\ \A i \in DOMAIN used, j \in DOMAIN free :
       used[i].shm_slot # NoSlot => used[i].shm_slot # free[j].shm_slot

(* No entry has a slot that was not cut yet. *)
WithinChunks ==
  /\ \A i \in DOMAIN used : used[i].shm_slot <= chunks
  /\ \A i \in DOMAIN free : free[i].shm_slot <= chunks

(* The index of a child leads to an entry that names the child. *)
Labelled ==
  \A a \in Allocated : shm_slot_i[a] < Len(used) /\ used[shm_slot_i[a] + 1].child = a

(* The slot of a process stays in slots_used under the name of its child. *)
Own ==
  \A a \in Linked :
    /\ shm_slot[a] # NoSlot
    /\ \E j \in DOMAIN used : used[j] = [shm_slot |-> shm_slot[a], child |-> a]

(* The child in hand is the only one, and its slot is cleared. *)
InHand ==
  /\ \A a, b \in Addr : stage[a] = "prepared" /\ stage[b] = "prepared" => a = b
  /\ \A a \in Addr : stage[a] = "prepared" /\ ~wild =>
       /\ used[shm_slot_i[a] + 1].shm_slot # NoSlot
       /\ used[shm_slot_i[a] + 1].shm_slot \notin locked

(* Until an entry is torn every entry in use is that of an allocated child *)
(* that knows its index, and no entry has the null slot.                   *)
Exact ==
  ~torn =>
    /\ ~wild
    /\ \A i \in DOMAIN used :
         /\ used[i].shm_slot # NoSlot
         /\ used[i].child \in Allocated
         /\ shm_slot_i[used[i].child] = i - 1
    /\ \A i \in DOMAIN free : free[i].shm_slot # NoSlot

(* Until then every slot cut is in one of the arrays or was leaked. *)
Counted ==
  ~torn =>
    /\ Len(used) = Cardinality(Allocated)
    /\ chunks = Len(used) + Len(free) + leaked
    /\ chunks <= MaxChildren + leaked

(* The inductive invariant. *)
IInv ==
  /\ TypeOK /\ HeldOnce /\ WithinChunks /\ Labelled /\ Own /\ InHand /\ Exact
  /\ LockIsMine

-----------------------------------------------------------------------------
(* What fpm_array_item_remove leaves: one entry less, the last in the place *)
(* of the removed one.                                                      *)
LEMMA ItemRemoveLemma ==
  ASSUME NEW S, NEW s \in Seq(S), NEW n \in Nat, n < Len(s)
  PROVE  /\ ItemRemove(s, n) \in Seq(S)
         /\ Len(ItemRemove(s, n)) = Len(s) - 1
         /\ \A i \in 1..Len(s) - 1 :
              ItemRemove(s, n)[i] = IF i = n + 1 THEN s[Len(s)] ELSE s[i]
<1> DEFINE t == IF n < Len(s) - 1 THEN [s EXCEPT ![n + 1] = s[Len(s)]] ELSE s
<1>1. Len(s) \in Nat /\ s[Len(s)] \in S
  OBVIOUS
<1>2. t \in Seq(S) /\ Len(t) = Len(s)
  BY <1>1
<1>3. \A i \in 1..Len(s) - 1 : t[i] = IF i = n + 1 THEN s[Len(s)] ELSE s[i]
  BY <1>1
<1>4. ItemRemove(s, n) = SubSeq(t, 1, Len(t) - 1)
  BY DEF ItemRemove, AllButLast
<1> HIDE DEF t
<1>5. /\ SubSeq(t, 1, Len(t) - 1) \in Seq(S)
      /\ Len(SubSeq(t, 1, Len(t) - 1)) = Len(t) - 1
      /\ \A i \in 1..Len(t) - 1 : SubSeq(t, 1, Len(t) - 1)[i] = t[i]
  BY <1>1, <1>2
<1>6. QED
  BY <1>2, <1>3, <1>4, <1>5

(* What taking the last free entry leaves. *)
LEMMA AllButLastLemma ==
  ASSUME NEW S, NEW s \in Seq(S), s # <<>>
  PROVE  /\ AllButLast(s) \in Seq(S)
         /\ Len(AllButLast(s)) = Len(s) - 1
         /\ \A i \in 1..Len(s) - 1 : AllButLast(s)[i] = s[i]
         /\ Len(s) \in DOMAIN s
<1>1. Len(s) \in Nat /\ Len(s) # 0
  BY EmptySeq
<1>2. Len(s) - 1 \in Nat /\ Len(s) \in 1..Len(s) /\ DOMAIN s = 1..Len(s)
  BY <1>1
<1>3. \A i \in 1..Len(s) - 1 : s[i] \in S
  BY <1>1
<1>4. QED
  BY <1>2, <1>3 DEF AllButLast

(* An entry of a sequence is in its set. *)
LEMMA EntryLemma ==
  ASSUME NEW S, NEW s \in Seq(S), NEW i \in DOMAIN s
  PROVE  s[i] \in S /\ i \in 1..Len(s)
OBVIOUS

(* A push finds room for one more entry or doubles the room. *)
LEMMA RoomLemma ==
  ASSUME NEW n \in Nat, NEW r \in Nat \ {0}, n <= r
  PROVE  Room(n, r) \in Nat \ {0} /\ n + 1 <= Room(n, r)
  BY DEF Room
-----------------------------------------------------------------------------
LEMMA InitIInv == Init => IInv
<1> SUFFICES ASSUME Init PROVE IInv
  OBVIOUS
<1>1. TypeOK
  <2>1. used \in Seq(Entry) /\ free \in Seq([shm_slot : Nat, child : {Null}])
    BY DEF Init
  <2>2. Len(used) = 0 /\ Len(free) = 0
    BY DEF Init
  <2>3. /\ stage \in [Addr -> {"none", "prepared", "running", "dead"}]
        /\ shm_slot_i \in [Addr -> Nat] /\ shm_slot \in [Addr -> Nat]
    BY DEF Init, NoSlot
  <2>4. /\ used_allocated \in Nat \ {0} /\ free_allocated \in Nat \ {0}
        /\ Len(used) <= used_allocated /\ Len(free) <= free_allocated
    BY <2>2, SlotsAssumption DEF Init
  <2>5. chunks \in Nat /\ locked \in SUBSET (1..chunks) /\ inside \in SUBSET Running
    BY DEF Init
  <2>6. failures \in 0..MaxFailures /\ leaked \in 0..failures
    BY SlotsAssumption DEF Init
  <2>7. torn \in BOOLEAN /\ wild \in BOOLEAN
    BY DEF Init
  <2>8. QED
    BY <2>1, <2>3, <2>4, <2>5, <2>6, <2>7 DEF TypeOK
<1>2. Allocated = {} /\ Linked = {} /\ Running = {}
  BY DEF Init, Allocated, Linked, Running
<1>3. HeldOnce /\ WithinChunks /\ Exact
  BY DEF Init, HeldOnce, WithinChunks, Exact
<1>4. Labelled /\ Own /\ LockIsMine
  BY <1>2 DEF Labelled, Own, LockIsMine
<1>5. InHand
  BY DEF Init, InHand
<1>6. QED
  BY <1>1, <1>3, <1>4, <1>5 DEF IInv

(* A prepared child, with a slot s that no entry of the arrays has left. *)
LEMMA PreparedStep ==
  ASSUME IInv, NEW a \in Addr, CanPrepare(a), NEW s \in Nat, Prepared(a, s),
         free' \in Seq([shm_slot : Nat, child : {Null}]), Len(free') <= free_allocated,
         \A i \in DOMAIN free' : i \in DOMAIN free /\ free'[i] = free[i],
         \A i \in DOMAIN free' : s # NoSlot => free'[i].shm_slot # s,
         \A i \in DOMAIN used : s # NoSlot => used[i].shm_slot # s,
         chunks' \in Nat, chunks <= chunks', s <= chunks',
         wild' = (s = NoSlot), ~torn => s # NoSlot
  PROVE  IInv'
<1> USE DEF IInv
<1>1. Len(used) \in Nat /\ used \in Seq(Entry) /\ DOMAIN used = 1..Len(used)
  BY DEF TypeOK
<1>2. /\ used' \in Seq(Entry) /\ Len(used') = Len(used) + 1
      /\ DOMAIN used' = 1..Len(used) + 1
      /\ \A i \in 1..Len(used) : used'[i] = used[i]
      /\ used'[Len(used) + 1] = [shm_slot |-> s, child |-> a]
  BY <1>1 DEF Prepared, Entry
<1>3. /\ Allocated' = Allocated \cup {a} /\ a \notin Allocated
      /\ Linked' = Linked /\ a \notin Linked /\ Running' = Running
      /\ Linked \subseteq Allocated /\ Running \subseteq Linked
  BY DEF Prepared, CanPrepare, TypeOK, Allocated, Linked, Running
<1>4. /\ shm_slot_i' = [shm_slot_i EXCEPT ![a] = Len(used)]
      /\ shm_slot' = shm_slot /\ locked' = locked \ {s} /\ inside' = inside
      /\ torn' = torn /\ ~wild /\ stage[a] = "none"
      /\ shm_slot_i \in [Addr -> Nat]
  BY DEF Prepared, Cleared, CanPrepare, TypeOK
<1>5. TypeOK'
  <2>1. used_allocated' \in Nat \ {0} /\ Len(used') <= used_allocated'
    BY <1>1, <1>2, RoomLemma DEF TypeOK, Prepared
  <2>2. locked' \in SUBSET (1..chunks')
    <3>1. locked' \subseteq locked /\ locked \subseteq 1..chunks
      BY <1>4 DEF TypeOK
    <3>2. 1..chunks \subseteq 1..chunks'
      BY DEF TypeOK
    <3>3. QED
      BY <3>1, <3>2
  <2>3. stage' \in [Addr -> {"none", "prepared", "running", "dead"}]
    BY DEF TypeOK, Prepared
  <2>4. shm_slot_i' \in [Addr -> Nat]
    BY <1>1, <1>4
  <2>5. inside' \in SUBSET Running'
    BY <1>3, <1>4 DEF TypeOK
  <2>6. QED
    BY <1>2, <2>1, <2>2, <2>3, <2>4, <2>5 DEF TypeOK, Prepared
<1>6. HeldOnce'
  <2>1. \A i, j \in DOMAIN used' :
          used'[i].shm_slot # NoSlot /\ used'[i].shm_slot = used'[j].shm_slot => i = j
    <3>1. \A i, j \in 1..Len(used) :
            used[i].shm_slot # NoSlot /\ used[i].shm_slot = used[j].shm_slot => i = j
      BY <1>1 DEF HeldOnce
    <3>2. \A i \in 1..Len(used) : s # NoSlot => used[i].shm_slot # s
      BY <1>1
    <3>3. used'[Len(used) + 1].shm_slot = s
      BY <1>2
    <3>4. \A i \in DOMAIN used' : i = Len(used) + 1 \/ i \in 1..Len(used)
      BY <1>1, <1>2
    <3>5. QED
      BY <3>1, <3>2, <3>3, <3>4, <1>2
  <2>2. \A i, j \in DOMAIN free' :
          free'[i].shm_slot # NoSlot /\ free'[i].shm_slot = free'[j].shm_slot => i = j
    BY DEF HeldOnce
  <2>3. \A i \in DOMAIN used', j \in DOMAIN free' :
          used'[i].shm_slot # NoSlot => used'[i].shm_slot # free'[j].shm_slot
    <3>1. \A i \in DOMAIN used' : i = Len(used) + 1 \/ i \in 1..Len(used)
      BY <1>1, <1>2
    <3>2. \A i \in 1..Len(used), j \in DOMAIN free' :
            used[i].shm_slot # NoSlot => used[i].shm_slot # free'[j].shm_slot
      BY <1>1 DEF HeldOnce
    <3>3. used'[Len(used) + 1].shm_slot = s
      BY <1>2
    <3>4. QED
      BY <3>1, <3>2, <3>3, <1>2
  <2>4. QED
    BY <2>1, <2>2, <2>3 DEF HeldOnce
<1>7. WithinChunks'
  <2>1. \A i \in DOMAIN used' : used'[i].shm_slot <= chunks'
    <3> SUFFICES ASSUME NEW i \in DOMAIN used' PROVE used'[i].shm_slot <= chunks'
      OBVIOUS
    <3>1. CASE i = Len(used) + 1
      BY <3>1, <1>2
    <3>2. CASE i \in 1..Len(used)
      <4>0. used[i] \in Entry
        BY <3>2, <1>1
      <4>1. used[i].shm_slot \in Nat /\ used[i].shm_slot <= chunks /\ chunks \in Nat
        BY <4>0, <3>2, <1>1 DEF WithinChunks, TypeOK, Entry
      <4>2. used'[i] = used[i]
        BY <3>2, <1>2
      <4>3. used[i].shm_slot <= chunks'
        BY <4>1
      <4>4. QED
        BY <4>2, <4>3
    <3>3. QED
      BY <3>1, <3>2, <1>1, <1>2
  <2>2. \A i \in DOMAIN free' : free'[i].shm_slot <= chunks'
    <3> SUFFICES ASSUME NEW i \in DOMAIN free' PROVE free'[i].shm_slot <= chunks'
      OBVIOUS
    <3>0. i \in DOMAIN free /\ free \in Seq([shm_slot : Nat, child : {Null}])
      BY DEF TypeOK
    <3>4. free[i] \in [shm_slot : Nat, child : {Null}]
      BY <3>0, EntryLemma
    <3>1. free[i].shm_slot \in Nat /\ free[i].shm_slot <= chunks /\ chunks \in Nat
      BY <3>0, <3>4 DEF WithinChunks, TypeOK
    <3>2. free'[i] = free[i]
      OBVIOUS
    <3>3. free[i].shm_slot <= chunks'
      BY <3>1
    <3>5. QED
      BY <3>2, <3>3
  <2>3. QED
    BY <2>1, <2>2 DEF WithinChunks
<1>8. Labelled'
  <2> SUFFICES ASSUME NEW b \in Allocated'
      PROVE shm_slot_i'[b] < Len(used') /\ used'[shm_slot_i'[b] + 1].child = b
    BY DEF Labelled
  <2>1. CASE b = a
    BY <2>1, <1>1, <1>2, <1>4
  <2>2. CASE b # a
    <3>1. b \in Allocated /\ b \in Addr
      BY <2>2, <1>3 DEF Allocated
    <3>2. /\ shm_slot_i'[b] = shm_slot_i[b] /\ shm_slot_i[b] \in Nat
          /\ shm_slot_i[b] < Len(used) /\ used[shm_slot_i[b] + 1].child = b
      BY <3>1, <2>2, <1>4 DEF Labelled
    <3>3. QED
      BY <3>2, <1>1, <1>2
  <2>3. QED
    BY <2>1, <2>2
<1>9. Own'
  BY <1>1, <1>2, <1>3, <1>4 DEF Own
<1>10. InHand'
  <2>1. \A b \in Addr : stage'[b] = "prepared" => b = a
    BY DEF Prepared, CanPrepare, NoneInHand, TypeOK
  <2>2. used'[shm_slot_i'[a] + 1].shm_slot = s
    BY <1>1, <1>2, <1>4
  <2>3. QED
    BY <2>1, <2>2, <1>4 DEF InHand
<1>11. Exact'
  <2> SUFFICES ASSUME ~torn PROVE Exact'
    BY <1>4 DEF Exact
  <2>1. ~wild' /\ s # NoSlot
    OBVIOUS
  <2>2. ASSUME NEW i \in DOMAIN used'
        PROVE  /\ used'[i].shm_slot # NoSlot /\ used'[i].child \in Allocated'
               /\ shm_slot_i'[used'[i].child] = i - 1
    <3>1. CASE i = Len(used) + 1
      BY <3>1, <2>1, <1>1, <1>2, <1>3, <1>4
    <3>2. CASE i \in 1..Len(used)
      <4>1. /\ used[i].shm_slot # NoSlot /\ used[i].child \in Allocated
            /\ shm_slot_i[used[i].child] = i - 1
        BY <3>2, <1>1 DEF Exact
      <4>2. used'[i] = used[i] /\ used[i].child # a
        BY <3>2, <4>1, <1>2, <1>3
      <4>3. QED
        BY <4>1, <4>2, <1>3, <1>4
    <3>3. QED
      BY <3>1, <3>2, <1>1, <1>2
  <2>3. \A i \in DOMAIN free' : free'[i].shm_slot # NoSlot
    BY DEF Exact
  <2>4. QED
    BY <2>1, <2>2, <2>3 DEF Exact
<1>12. LockIsMine'
  BY <1>3, <1>4 DEF LockIsMine
<1>13. QED
  BY <1>5, <1>6, <1>7, <1>8, <1>9, <1>10, <1>11, <1>12

(* The child a is taken out of the arrays, and its structure is freed. *)
LEMMA DiscardStep ==
  ASSUME IInv, NEW a \in Addr, stage[a] \in {"prepared", "dead"}, ~wild,
         \A b \in Addr : b # a => stage[b] # "prepared",
         DiscardSlot(a), stage' = [stage EXCEPT ![a] = "none"],
         UNCHANGED <<shm_slot, locks>>
  PROVE  IInv'
<1> USE DEF IInv
<1> DEFINE n == shm_slot_i[a]
           L == Len(used)
<1>1. /\ used \in Seq(Entry) /\ L \in Nat /\ DOMAIN used = 1..L
      /\ n \in Nat /\ n < L /\ used[n + 1].child = a
      /\ shm_slot_i \in [Addr -> Nat]
  BY DEF TypeOK, Labelled, Allocated
<1>2. /\ used' \in Seq(Entry) /\ Len(used') = L - 1 /\ DOMAIN used' = 1..L - 1
      /\ \A i \in 1..L - 1 : used'[i] = IF i = n + 1 THEN used[L] ELSE used[i]
  <2>1. used' = ItemRemove(used, n)
    BY DEF DiscardSlot
  <2>2. used' \in Seq(Entry) /\ Len(used') = L - 1
    BY <1>1, <2>1, ItemRemoveLemma
  <2>3. \A i \in 1..L - 1 : used'[i] = IF i = n + 1 THEN used[L] ELSE used[i]
    BY <1>1, <2>1, ItemRemoveLemma
  <2>4. DOMAIN used' = 1..L - 1
    BY <2>2
  <2>5. QED
    BY <2>2, <2>3, <2>4
<1>3. /\ Allocated' = Allocated \ {a} /\ a \in Allocated
      /\ Linked' = Linked \ {a} /\ Running' = Running /\ a \notin Running
      /\ Linked \subseteq Allocated /\ Running \subseteq Linked
  BY DEF TypeOK, Allocated, Linked, Running
<1>4. /\ shm_slot' = shm_slot /\ locked' = locked /\ inside' = inside
      /\ torn' = torn /\ chunks' = chunks /\ used_allocated' = used_allocated
  BY DEF DiscardSlot, locks
<1>5. \A b \in Allocated' : b \in Addr /\ b # a /\ b \in Allocated
  BY <1>3 DEF Allocated
(* Where the entries have gone. *)
<1>6. \A i \in DOMAIN used' :
        \E j \in DOMAIN used : j # n + 1 /\ used'[i] = used[j]
  <2> SUFFICES ASSUME NEW i \in DOMAIN used'
               PROVE  \E j \in DOMAIN used : j # n + 1 /\ used'[i] = used[j]
    OBVIOUS
  <2>1. CASE i = n + 1
    <3>1. L \in DOMAIN used /\ L # n + 1 /\ used'[i] = used[L]
      BY <2>1, <1>1, <1>2
    <3>2. QED
      BY <3>1
  <2>2. CASE i # n + 1
    <3>1. i \in DOMAIN used /\ used'[i] = used[i]
      BY <2>2, <1>1, <1>2
    <3>2. QED
      BY <3>1, <2>2
  <2>3. QED
    BY <2>1, <2>2
(* What happens to the indices. *)
<1>7. \/ n < L - 1 /\ used[L].child \in Allocated /\ wild' = wild
         /\ shm_slot_i' = [shm_slot_i EXCEPT ![used[L].child] = n]
      \/ n < L - 1 /\ used[L].child \notin Allocated /\ wild' = TRUE
         /\ shm_slot_i' = shm_slot_i
      \/ n = L - 1 /\ wild' = wild /\ shm_slot_i' = shm_slot_i
  BY <1>1 DEF DiscardSlot, Moved
<1>8. /\ \/ /\ free' = Append(free, [shm_slot |-> used[n + 1].shm_slot, child |-> Null])
            /\ free_allocated' = Room(Len(free), free_allocated)
            /\ failures' = failures /\ leaked' = leaked
         \/ /\ free' = free /\ free_allocated' = free_allocated
            /\ failures < MaxFailures /\ failures' = failures + 1 /\ leaked' = leaked + 1
  BY DEF DiscardSlot, PushFree, FreeEntry, Fails
<1>9. /\ free' \in Seq([shm_slot : Nat, child : {Null}]) /\ Len(free) \in Nat
      /\ DOMAIN free' = 1..Len(free') /\ DOMAIN free = 1..Len(free)
      /\ \A i \in DOMAIN free' :
           \/ i \in DOMAIN free /\ free'[i] = free[i]
           \/ i = Len(free) + 1 /\ free'[i].shm_slot = used[n + 1].shm_slot
  <2>1. free \in Seq([shm_slot : Nat, child : {Null}]) /\ Len(free) \in Nat
    BY DEF TypeOK
  <2>2. used[n + 1].shm_slot \in Nat
    <3>1. used[n + 1] \in Entry
      BY <1>1
    <3>2. QED
      BY <3>1 DEF Entry
  <2>3. CASE free' = free
    BY <2>1, <2>3
  <2>4. CASE free' = Append(free, [shm_slot |-> used[n + 1].shm_slot, child |-> Null])
    BY <2>1, <2>2, <2>4
  <2>5. QED
    BY <1>8, <2>3, <2>4
<1> HIDE DEF n, L
<1>10. TypeOK'
  <2>1. /\ free_allocated' \in Nat \ {0} /\ Len(free') <= free_allocated'
        /\ failures' \in 0..MaxFailures /\ leaked' \in 0..failures'
    <3>1. /\ free \in Seq([shm_slot : Nat, child : {Null}]) /\ Len(free) \in Nat
          /\ free_allocated \in Nat \ {0} /\ Len(free) <= free_allocated
          /\ failures \in 0..MaxFailures /\ leaked \in 0..failures
      BY DEF TypeOK
    <3>2. CASE failures' = failures + 1
      BY <3>1, <3>2, <1>8, SlotsAssumption
    <3>3. CASE failures' = failures
      <4>1. free_allocated' \in Nat \ {0} /\ Len(free) + 1 <= free_allocated'
        BY <3>1, <3>3, <1>8, RoomLemma
      <4>2. Len(free') <= Len(free) + 1
        BY <3>1, <3>3, <1>8
      <4>3. Len(free') \in Nat
        BY <1>9
      <4>4. QED
        BY <4>1, <4>2, <4>3, <3>1, <3>3, <1>8
    <3>4. QED
      BY <3>2, <3>3, <1>8
  <2>2. used_allocated' \in Nat \ {0} /\ Len(used') <= used_allocated'
    <3>1. used_allocated \in Nat \ {0} /\ L <= used_allocated
      BY DEF TypeOK, L
    <3>2. QED
      BY <3>1, <1>1, <1>2, <1>4
  <2>3. shm_slot_i' \in [Addr -> Nat]
    BY <1>1, <1>7 DEF Allocated
  <2>4. stage' \in [Addr -> {"none", "prepared", "running", "dead"}]
    BY DEF TypeOK
  <2>5. wild' \in BOOLEAN /\ torn' \in BOOLEAN
    BY <1>4, <1>7 DEF TypeOK
  <2>6. inside' \in SUBSET Running' /\ locked' \in SUBSET (1..chunks') /\ chunks' \in Nat
        /\ shm_slot' \in [Addr -> Nat]
    BY <1>3, <1>4 DEF TypeOK
  <2>7. QED
    BY <1>2, <1>9, <2>1, <2>2, <2>3, <2>4, <2>5, <2>6 DEF TypeOK
<1>11. HeldOnce'
  <2>1. ASSUME NEW i \in DOMAIN used', NEW j \in DOMAIN used',
               used'[i].shm_slot # NoSlot, used'[i].shm_slot = used'[j].shm_slot
        PROVE  i = j
    <3>1. /\ i \in 1..L - 1 /\ j \in 1..L - 1
          /\ used'[i] = IF i = n + 1 THEN used[L] ELSE used[i]
          /\ used'[j] = IF j = n + 1 THEN used[L] ELSE used[j]
      BY <1>2
    <3>2. L \in DOMAIN used /\ i \in DOMAIN used /\ j \in DOMAIN used /\ i # L /\ j # L
      BY <3>1, <1>1
    <3>3. \A k, l \in DOMAIN used :
            used[k].shm_slot # NoSlot /\ used[k].shm_slot = used[l].shm_slot => k = l
      BY DEF HeldOnce
    <3>4. QED
      BY <2>1, <3>1, <3>2, <3>3
  <2>2. \A k, l \in DOMAIN used :
           used[k].shm_slot # NoSlot /\ used[k].shm_slot = used[l].shm_slot => k = l
    BY DEF HeldOnce
  <2>3. n + 1 \in DOMAIN used
    BY <1>1
  <2>4. ASSUME NEW i \in DOMAIN free', NEW j \in DOMAIN free',
               free'[i].shm_slot # NoSlot, free'[i].shm_slot = free'[j].shm_slot
        PROVE  i = j
    <3>1. \A k \in DOMAIN free : used[n + 1].shm_slot # NoSlot => used[n + 1].shm_slot # free[k].shm_slot
      BY <2>3 DEF HeldOnce
    <3>2. \A k, l \in DOMAIN free :
            free[k].shm_slot # NoSlot /\ free[k].shm_slot = free[l].shm_slot => k = l
      BY DEF HeldOnce
    <3>3. QED
      BY <2>4, <3>1, <3>2, <1>9
  <2>5. ASSUME NEW i \in DOMAIN used', NEW j \in DOMAIN free', used'[i].shm_slot # NoSlot
        PROVE  used'[i].shm_slot # free'[j].shm_slot
    <3>1. PICK k \in DOMAIN used : k # n + 1 /\ used'[i] = used[k]
      BY <1>6
    <3>2. used[k].shm_slot # used[n + 1].shm_slot
      BY <2>2, <2>3, <2>5, <3>1
    <3>3. j \in DOMAIN free => used[k].shm_slot # free[j].shm_slot
      BY <2>5, <3>1 DEF HeldOnce
    <3>4. QED
      BY <3>1, <3>2, <3>3, <1>9
  <2>6. QED
    BY <2>1, <2>4, <2>5 DEF HeldOnce
<1>12. WithinChunks'
  <2>1. \A j \in DOMAIN used : used[j].shm_slot <= chunks
    BY DEF WithinChunks
  <2>2. \A j \in DOMAIN free : free[j].shm_slot <= chunks
    BY DEF WithinChunks
  <2>3. \A i \in DOMAIN used' : used'[i].shm_slot <= chunks
    BY <2>1, <1>6
  <2>4. used[n + 1].shm_slot <= chunks
    BY <2>1, <1>1
  <2>5. \A i \in DOMAIN free' : free'[i].shm_slot <= chunks
    BY <2>2, <2>4, <1>9
  <2>6. QED
    BY <2>3, <2>5, <1>4 DEF WithinChunks
<1>13. Labelled'
  <2> SUFFICES ASSUME NEW b \in Allocated'
      PROVE shm_slot_i'[b] < Len(used') /\ used'[shm_slot_i'[b] + 1].child = b
    BY DEF Labelled
  <2>1. b \in Addr /\ b # a /\ b \in Allocated
    BY <1>5
  <2> DEFINE k == shm_slot_i[b]
  <2>2. k \in Nat /\ k < L /\ used[k + 1].child = b
    BY <2>1, <1>1 DEF Labelled, L
  <2>3. k # n
    BY <2>1, <2>2, <1>1
  <2> HIDE DEF k
  <2>4. ASSUME k < L - 1
        PROVE  used'[k + 1] = used[k + 1]
    BY <2>2, <2>3, <2>4, <1>1, <1>2
  <2>5. CASE n < L - 1 /\ used[L].child = b
    <3>1. shm_slot_i'[b] = n
      BY <2>5, <2>1, <1>1, <1>7
    <3>2. used'[n + 1] = used[L]
      BY <2>5, <1>1, <1>2
    <3>3. QED
      BY <3>1, <3>2, <2>5, <1>1, <1>2
  <2>6. CASE ~(n < L - 1 /\ used[L].child = b)
    <3>1. shm_slot_i'[b] = k
      BY <2>6, <2>1, <1>1, <1>7 DEF k
    <3>2. k < L - 1
      <4>1. CASE n = L - 1
        BY <4>1, <2>2, <2>3, <1>1
      <4>2. CASE n < L - 1
        <5>1. k + 1 # L
          BY <4>2, <2>6, <2>2
        <5>2. QED
          BY <5>1, <2>2, <1>1
      <4>3. QED
        BY <4>1, <4>2, <1>1
    <3>3. QED
      BY <3>1, <3>2, <2>2, <2>4, <1>2
  <2>7. QED
    BY <2>5, <2>6
<1>14. Own'
  <2> SUFFICES ASSUME NEW b \in Linked'
      PROVE /\ shm_slot[b] # NoSlot
            /\ \E j \in DOMAIN used' : used'[j] = [shm_slot |-> shm_slot[b], child |-> b]
    BY <1>4 DEF Own
  <2>1. b \in Linked /\ b # a
    BY <1>3
  <2>2. PICK j \in DOMAIN used : used[j] = [shm_slot |-> shm_slot[b], child |-> b]
    BY <2>1 DEF Own
  <2>3. used[j].child = b
    BY <2>2
  <2>4. j \in 1..L /\ j # n + 1
    BY <2>1, <2>3, <1>1
  <2>5. CASE j = L
    <3>1. n + 1 \in DOMAIN used' /\ used'[n + 1] = used[j]
      BY <2>4, <2>5, <1>1, <1>2
    <3>2. QED
      BY <3>1, <2>1, <2>2 DEF Own
  <2>6. CASE j # L
    <3>1. j \in DOMAIN used' /\ used'[j] = used[j]
      BY <2>4, <2>6, <1>1, <1>2
    <3>2. QED
      BY <3>1, <2>1, <2>2 DEF Own
  <2>7. QED
    BY <2>5, <2>6
<1>15. InHand'
  <2>1. \A b \in Addr : stage'[b] # "prepared"
    BY DEF TypeOK
  <2>2. QED
    BY <2>1 DEF InHand
<1>16. Exact'
  <2> SUFFICES ASSUME ~torn PROVE Exact'
    BY <1>4 DEF Exact
  <2>1. \A j \in DOMAIN used :
          /\ used[j].shm_slot # NoSlot /\ used[j].child \in Allocated
          /\ shm_slot_i[used[j].child] = j - 1
    BY DEF Exact
  <2>2. used[L].child \in Allocated /\ shm_slot_i[used[L].child] = L - 1
    BY <2>1, <1>1
  <2>3. ~wild'
    BY <2>2, <1>7
  <2>4. ASSUME NEW i \in DOMAIN used'
        PROVE  /\ used'[i].shm_slot # NoSlot /\ used'[i].child \in Allocated'
               /\ shm_slot_i'[used'[i].child] = i - 1
    <3>1. CASE i = n + 1
      <4>1. used'[i] = used[L] /\ n < L - 1
        BY <3>1, <1>1, <1>2
      <4>2. used[L].child # a /\ used[L].child \in Addr
        BY <4>1, <2>2, <1>1 DEF n, Allocated
      <4>3. shm_slot_i'[used[L].child] = n
        BY <4>1, <4>2, <2>2, <1>1, <1>7
      <4>4. QED
        BY <4>1, <4>2, <4>3, <3>1, <2>1, <2>2, <1>1, <1>3
    <3>2. CASE i # n + 1
      <4>1. used'[i] = used[i] /\ i \in DOMAIN used /\ i # L
        BY <3>2, <1>1, <1>2
      <4>2. /\ used[i].shm_slot # NoSlot /\ used[i].child \in Allocated
            /\ shm_slot_i[used[i].child] = i - 1
        BY <4>1, <2>1
      <4>3. used[i].child # a
        BY <3>2, <4>1, <4>2, <1>1 DEF n
      <4>4. used[i].child # used[L].child
        BY <4>1, <4>2, <2>2, <1>1
      <4>5. shm_slot_i'[used[i].child] = shm_slot_i[used[i].child]
        BY <4>2, <4>4, <1>1, <1>7 DEF Allocated
      <4>6. QED
        BY <4>1, <4>2, <4>3, <4>5, <1>3
    <3>3. QED
      BY <3>1, <3>2
  <2>5. \A i \in DOMAIN free' : free'[i].shm_slot # NoSlot
    <3>1. used[n + 1].shm_slot # NoSlot
      BY <2>1, <1>1
    <3>2. \A i \in DOMAIN free : free[i].shm_slot # NoSlot
      BY DEF Exact
    <3>3. QED
      BY <3>1, <3>2, <1>9
  <2>6. QED
    BY <2>3, <2>4, <2>5 DEF Exact
<1>17. LockIsMine'
  BY <1>3, <1>4 DEF LockIsMine
<1>18. QED
  BY <1>10, <1>11, <1>12, <1>13, <1>14, <1>15, <1>16, <1>17
-----------------------------------------------------------------------------
(* Two linked children have different slots, and none has a free one. *)
LEMMA OwnLemma == IInv => NoSharedSlot
<1> SUFFICES ASSUME IInv PROVE NoSharedSlot
  OBVIOUS
<1> USE DEF IInv
<1>1. ASSUME NEW a \in Linked, NEW b \in Linked, shm_slot[a] = shm_slot[b] PROVE a = b
  <2>1. PICK i \in DOMAIN used : used[i] = [shm_slot |-> shm_slot[a], child |-> a]
    BY DEF Own
  <2>2. PICK j \in DOMAIN used : used[j] = [shm_slot |-> shm_slot[b], child |-> b]
    BY DEF Own
  <2>3. used[i].shm_slot # NoSlot /\ used[i].shm_slot = used[j].shm_slot
    BY <1>1, <2>1, <2>2 DEF Own
  <2>4. i = j
    BY <2>3 DEF HeldOnce
  <2>5. used[i].child = a /\ used[j].child = b
    BY <2>1, <2>2
  <2>6. QED
    BY <2>4, <2>5
<1>2. ASSUME NEW a \in Linked, NEW i \in DOMAIN free PROVE free[i].shm_slot # shm_slot[a]
  <2>1. PICK j \in DOMAIN used : used[j] = [shm_slot |-> shm_slot[a], child |-> a]
    BY DEF Own
  <2>2. used[j].shm_slot = shm_slot[a] /\ shm_slot[a] # NoSlot
    BY <2>1 DEF Own
  <2>3. QED
    BY <2>2 DEF HeldOnce
<1>3. QED
  BY <1>1, <1>2 DEF NoSharedSlot

(* The entry of an allocated child carries its name. *)
LEMMA EntryOfChild ==
  ASSUME TypeOK, Labelled, NEW a \in Allocated
  PROVE  /\ shm_slot_i[a] + 1 \in DOMAIN used
         /\ used[shm_slot_i[a] + 1]
              = [shm_slot |-> used[shm_slot_i[a] + 1].shm_slot, child |-> a]
<1>1. /\ used \in Seq(Entry) /\ Len(used) \in Nat /\ a \in Addr
      /\ shm_slot_i[a] \in Nat /\ shm_slot_i[a] < Len(used)
      /\ used[shm_slot_i[a] + 1].child = a
  BY DEF TypeOK, Labelled, Allocated
<1>2. shm_slot_i[a] + 1 \in DOMAIN used
  BY <1>1
<1>3. used[shm_slot_i[a] + 1] \in Entry
  BY <1>1, <1>2, EntryLemma
<1>4. QED
  BY <1>1, <1>2, <1>3 DEF Entry

(* The steps of fpm_shm_slots_prepare_slot. *)
LEMMA PrepareKeepsIInv ==
  ASSUME IInv, NEW a \in Addr
  PROVE  /\ PushFails(a) => IInv'
         /\ ChunkFails(a) => IInv'
         /\ PrepareNew(a) => IInv'
         /\ PrepareFree(a) => IInv'
<1> USE DEF IInv
<1>0. /\ used \in Seq(Entry) /\ Len(used) \in Nat /\ DOMAIN used = 1..Len(used)
      /\ free \in Seq([shm_slot : Nat, child : {Null}]) /\ Len(free) \in Nat
      /\ DOMAIN free = 1..Len(free) /\ chunks \in Nat
  BY DEF TypeOK
<1>1. ASSUME PushFails(a) PROVE IInv'
  <2>1. /\ UNCHANGED <<used, free, used_allocated, free_allocated, chunks, stage, shm_slot_i>>
        /\ UNCHANGED <<shm_slot, locked, inside, leaked, torn, wild>>
        /\ failures < MaxFailures /\ failures' = failures + 1
    BY <1>1 DEF PushFails, Fails, arrays, procs, locks
  <2>2. failures' \in 0..MaxFailures /\ leaked' \in 0..failures'
    BY <2>1, SlotsAssumption DEF TypeOK
  <2>3. Allocated' = Allocated /\ Linked' = Linked /\ Running' = Running
    BY <2>1 DEF Allocated, Linked, Running
  <2>4. TypeOK'
    BY <2>1, <2>2, <2>3 DEF TypeOK
  <2>5. HeldOnce' /\ WithinChunks'
    BY <2>1 DEF HeldOnce, WithinChunks
  <2>6. Labelled' /\ Own' /\ Exact'
    BY <2>1, <2>3 DEF Labelled, Own, Exact
  <2>7. InHand' /\ LockIsMine'
    BY <2>1, <2>3 DEF InHand, LockIsMine
  <2>8. QED
    BY <2>4, <2>5, <2>6, <2>7
<1>2. ASSUME ChunkFails(a) PROVE IInv'
  <2>1. PICK old \in Addr \cup {Null} : used' = Append(used, [shm_slot |-> NoSlot, child |-> old])
    BY <1>2 DEF ChunkFails
  <2>2. /\ UNCHANGED <<free, free_allocated, chunks, stage, shm_slot_i, shm_slot>>
        /\ UNCHANGED <<locked, inside, leaked, wild>>
        /\ failures < MaxFailures /\ failures' = failures + 1 /\ torn' = TRUE
        /\ used_allocated' = Room(Len(used), used_allocated)
    BY <1>2 DEF ChunkFails, Fails, procs, locks
  <2>3. Allocated' = Allocated /\ Linked' = Linked /\ Running' = Running
    BY <2>2 DEF Allocated, Linked, Running
  <2>4. /\ used' \in Seq(Entry) /\ Len(used') = Len(used) + 1
        /\ DOMAIN used' = 1..Len(used) + 1
        /\ \A i \in 1..Len(used) : used'[i] = used[i]
        /\ used'[Len(used) + 1] = [shm_slot |-> NoSlot, child |-> old]
    BY <1>0, <2>1 DEF Entry, NoSlot
  <2>5. \A i \in DOMAIN used' : i \in DOMAIN used \/ i = Len(used) + 1
    BY <1>0, <2>4
  <2>6. TypeOK'
    <3>1. used_allocated' \in Nat \ {0} /\ Len(used') <= used_allocated'
      BY <1>0, <2>2, <2>4, RoomLemma DEF TypeOK
    <3>2. failures' \in 0..MaxFailures /\ leaked' \in 0..failures'
      BY <2>2, SlotsAssumption DEF TypeOK
    <3>3. QED
      BY <2>2, <2>3, <2>4, <3>1, <3>2 DEF TypeOK
  <2>7. used'[Len(used) + 1].shm_slot = NoSlot
    BY <2>4
  <2>8. HeldOnce'
    BY <1>0, <2>2, <2>4, <2>5, <2>7 DEF HeldOnce
  <2>9. WithinChunks'
    BY <1>0, <2>2, <2>4, <2>5, <2>7 DEF WithinChunks, NoSlot
  <2>10. Labelled'
    <3> SUFFICES ASSUME NEW b \in Allocated
        PROVE shm_slot_i[b] < Len(used') /\ used'[shm_slot_i[b] + 1].child = b
      BY <2>2, <2>3 DEF Labelled
    <3>1. shm_slot_i[b] \in Nat /\ shm_slot_i[b] < Len(used) /\ used[shm_slot_i[b] + 1].child = b
      BY DEF Labelled, TypeOK, Allocated
    <3>2. QED
      BY <3>1, <1>0, <2>4
  <2>11. Own'
    BY <1>0, <2>2, <2>3, <2>4 DEF Own
  <2>12. InHand'
    BY <1>2, <2>2 DEF InHand, ChunkFails, CanPrepare, NoneInHand
  <2>13. Exact' /\ LockIsMine'
    BY <2>2, <2>3 DEF Exact, LockIsMine
  <2>14. QED
    BY <2>6, <2>8, <2>9, <2>10, <2>11, <2>12, <2>13
<1>3. ASSUME PrepareNew(a) PROVE IInv'
  <2>1. /\ CanPrepare(a) /\ free = <<>> /\ chunks' = chunks + 1
        /\ Prepared(a, chunks + 1) /\ free' = free /\ wild' = wild /\ ~wild
    BY <1>3 DEF PrepareNew, CanPrepare
  <2>2. chunks + 1 \in Nat /\ chunks + 1 # NoSlot
    BY <1>0 DEF NoSlot
  <2>3. \A i \in DOMAIN used : used[i].shm_slot # chunks + 1
    <3> SUFFICES ASSUME NEW i \in DOMAIN used PROVE used[i].shm_slot # chunks + 1
      OBVIOUS
    <3>1. used[i] \in Entry
      BY <1>0, EntryLemma
    <3>2. used[i].shm_slot \in Nat /\ used[i].shm_slot <= chunks
      BY <3>1 DEF Entry, WithinChunks
    <3>3. QED
      BY <3>2, <1>0
  <2>4. DOMAIN free' = {}
    BY <2>1
  <2>5. Len(free') <= free_allocated /\ free' \in Seq([shm_slot : Nat, child : {Null}])
    BY <2>1 DEF TypeOK
  <2>6. chunks' \in Nat /\ chunks <= chunks' /\ chunks + 1 <= chunks'
    BY <2>1, <1>0
  <2>7. wild' = (chunks + 1 = NoSlot)
    BY <2>1, <2>2 DEF TypeOK
  <2>8. QED
    BY <2>1, <2>2, <2>3, <2>4, <2>5, <2>6, <2>7, PreparedStep
<1>4. ASSUME PrepareFree(a) PROVE IInv'
  <2> DEFINE s == free[Len(free)].shm_slot
  <2>1. /\ CanPrepare(a) /\ free # <<>> /\ chunks' = chunks
        /\ Prepared(a, s) /\ free' = AllButLast(free) /\ wild' = (s = NoSlot)
    BY <1>4 DEF PrepareFree, WithoutLast
  <2>2. /\ free' \in Seq([shm_slot : Nat, child : {Null}]) /\ Len(free') = Len(free) - 1
        /\ \A i \in 1..Len(free) - 1 : free'[i] = free[i]
        /\ Len(free) \in DOMAIN free
    BY <2>1, <1>0, AllButLastLemma
  <2>3. DOMAIN free' = 1..Len(free) - 1
    BY <2>2
  <2>4. \A i \in DOMAIN free' : i \in DOMAIN free /\ free'[i] = free[i] /\ i # Len(free)
    BY <2>2, <2>3, <1>0
  <2>5. s \in Nat /\ s <= chunks
    <3>1. free[Len(free)] \in [shm_slot : Nat, child : {Null}]
      BY <1>0, <2>2, EntryLemma
    <3>2. QED
      BY <3>1, <2>2 DEF WithinChunks
  <2>6. \A i \in DOMAIN free' : s # NoSlot => free'[i].shm_slot # s
    BY <2>2, <2>4 DEF HeldOnce
  <2>7. \A i \in DOMAIN used : s # NoSlot => used[i].shm_slot # s
    BY <2>2 DEF HeldOnce
  <2>8. ~torn => s # NoSlot
    BY <2>2 DEF Exact
  <2>9. Len(free') <= free_allocated
    BY <2>2, <1>0 DEF TypeOK
  <2>10. chunks' \in Nat /\ chunks <= chunks' /\ s <= chunks'
    BY <2>1, <2>5, <1>0
  <2> HIDE DEF s
  <2>11. QED
    BY <2>1, <2>2, <2>4, <2>5, <2>6, <2>7, <2>8, <2>9, <2>10, PreparedStep
<1>5. QED
  BY <1>1, <1>2, <1>3, <1>4

(* The steps of the workers, and fork. *)
LEMMA WorkersKeepIInv ==
  ASSUME IInv, NEW a \in Addr
  PROVE  /\ Fork(a) => IInv'
         /\ Acquire(a) => IInv'
         /\ Release(a) => IInv'
         /\ Die(a) => IInv'
<1> USE DEF IInv
<1>0. NoSharedSlot
  BY OwnLemma
<1>1. ASSUME Fork(a) PROVE IInv'
  <2> DEFINE s == used[shm_slot_i[a] + 1].shm_slot
  <2>1. /\ UNCHANGED <<used, free, used_allocated, free_allocated, chunks, shm_slot_i>>
        /\ UNCHANGED <<locked, inside, failures, leaked, torn, wild>>
        /\ stage' = [stage EXCEPT ![a] = "running"] /\ stage[a] = "prepared" /\ ~wild
        /\ shm_slot' = [shm_slot EXCEPT ![a] = s]
    BY <1>1 DEF Fork, arrays, locks, ghosts
  <2>2. /\ Allocated' = Allocated /\ a \in Allocated
        /\ Linked' = Linked \cup {a} /\ a \notin Linked /\ Linked \subseteq Addr
        /\ Running' = Running \cup {a} /\ Running \subseteq Linked
    BY <2>1 DEF Allocated, Linked, Running, TypeOK
  <2>3. /\ shm_slot_i[a] + 1 \in DOMAIN used
        /\ used[shm_slot_i[a] + 1] = [shm_slot |-> s, child |-> a]
    BY <2>2, EntryOfChild
  <2>4. s # NoSlot /\ s \notin locked
    BY <2>1 DEF InHand
  <2>5. s \in Nat
    <3>1. used[shm_slot_i[a] + 1] \in Entry
      BY <2>3, EntryLemma DEF TypeOK
    <3>2. QED
      BY <3>1 DEF Entry
  <2> HIDE DEF s
  <2>6. TypeOK'
    <3>1. shm_slot' \in [Addr -> Nat] /\ stage' \in [Addr -> {"none", "prepared", "running", "dead"}]
      BY <2>1, <2>5 DEF TypeOK
    <3>2. inside' \in SUBSET Running'
      BY <2>1, <2>2 DEF TypeOK
    <3>3. QED
      BY <2>1, <3>1, <3>2 DEF TypeOK
  <2>7. \A b \in Linked : shm_slot'[b] = shm_slot[b]
    BY <2>1, <2>2 DEF TypeOK
  <2>8. shm_slot'[a] = s
    BY <2>1 DEF TypeOK
  <2>9. HeldOnce' /\ WithinChunks'
    BY <2>1 DEF HeldOnce, WithinChunks
  <2>10. Labelled' /\ Exact'
    BY <2>1, <2>2 DEF Labelled, Exact
  <2>11. Own'
    <3> SUFFICES ASSUME NEW b \in Linked'
        PROVE /\ shm_slot'[b] # NoSlot
              /\ \E j \in DOMAIN used : used[j] = [shm_slot |-> shm_slot'[b], child |-> b]
      BY <2>1 DEF Own
    <3>1. CASE b = a
      BY <3>1, <2>3, <2>4, <2>8
    <3>2. CASE b # a
      BY <3>2, <2>2, <2>7 DEF Own
    <3>3. QED
      BY <3>1, <3>2
  <2>12. InHand'
    BY <2>1 DEF InHand, TypeOK
  <2>13. LockIsMine'
    BY <2>1, <2>2, <2>4, <2>7, <2>8 DEF LockIsMine
  <2>14. QED
    BY <2>6, <2>9, <2>10, <2>11, <2>12, <2>13
<1>2. ASSUME Acquire(a) PROVE IInv'
  <2>1. /\ UNCHANGED <<used, free, used_allocated, free_allocated, chunks, shm_slot_i>>
        /\ UNCHANGED <<stage, shm_slot, failures, leaked, torn, wild>>
        /\ stage[a] = "running" /\ locked' = locked \cup {shm_slot[a]}
        /\ inside' = inside \cup {a}
    BY <1>2 DEF Acquire, arrays, procs, ghosts
  <2>2. /\ Allocated' = Allocated /\ Linked' = Linked /\ Running' = Running
        /\ a \in Running /\ a \in Linked /\ Running \subseteq Linked
    BY <2>1 DEF Allocated, Linked, Running
  <2>3. PICK j \in DOMAIN used : used[j] = [shm_slot |-> shm_slot[a], child |-> a]
    BY <2>2 DEF Own
  <2>4. used[j].shm_slot = shm_slot[a] /\ used[j].child = a /\ shm_slot[a] # NoSlot
    BY <2>2, <2>3 DEF Own
  <2>5. TypeOK'
    <3>1. shm_slot[a] \in Nat /\ shm_slot[a] <= chunks /\ shm_slot[a] # 0 /\ chunks \in Nat
      <4>1. used[j].shm_slot <= chunks
        BY DEF WithinChunks
      <4>2. shm_slot[a] \in Nat /\ chunks \in Nat
        BY DEF TypeOK
      <4>3. shm_slot[a] <= chunks
        BY <4>1, <2>4
      <4>4. shm_slot[a] # 0
        BY <2>4 DEF NoSlot
      <4>5. QED
        BY <4>2, <4>3, <4>4
    <3>2. locked' \in SUBSET (1..chunks)
      <4>1. shm_slot[a] \in 1..chunks
        BY <3>1
      <4>2. QED
        BY <4>1, <2>1 DEF TypeOK
    <3>3. inside' \in SUBSET Running'
      BY <2>1, <2>2 DEF TypeOK
    <3>4. QED
      BY <2>1, <3>2, <3>3 DEF TypeOK
  <2>6. HeldOnce' /\ WithinChunks'
    BY <2>1 DEF HeldOnce, WithinChunks
  <2>7. Labelled' /\ Own' /\ Exact'
    BY <2>1, <2>2 DEF Labelled, Own, Exact
  <2>8. InHand'
    <3>1. ASSUME NEW b \in Addr, stage[b] = "prepared", ~wild
          PROVE  used[shm_slot_i[b] + 1].shm_slot # shm_slot[a]
      <4>1. b \in Allocated /\ b # a
        BY <3>1, <2>1 DEF Allocated
      <4>2. shm_slot_i[b] + 1 \in DOMAIN used /\ used[shm_slot_i[b] + 1].child = b
        BY <4>1, EntryOfChild DEF Labelled
      <4>3. QED
        BY <4>1, <4>2, <2>4 DEF HeldOnce
    <3>2. QED
      BY <2>1, <3>1 DEF InHand
  <2>9. LockIsMine'
    BY <1>0, <2>1, <2>2 DEF LockIsMine, NoSharedSlot
  <2>10. QED
    BY <2>5, <2>6, <2>7, <2>8, <2>9
<1>3. ASSUME Release(a) PROVE IInv'
  <2>1. /\ UNCHANGED <<used, free, used_allocated, free_allocated, chunks, shm_slot_i>>
        /\ UNCHANGED <<stage, shm_slot, failures, leaked, torn, wild>>
        /\ locked' = locked \ {shm_slot[a]} /\ inside' = inside \ {a}
    BY <1>3 DEF Release, arrays, procs, ghosts
  <2>2. Allocated' = Allocated /\ Linked' = Linked /\ Running' = Running
    BY <2>1 DEF Allocated, Linked, Running
  <2>3. TypeOK'
    <3>1. locked' \in SUBSET (1..chunks)
      BY <2>1 DEF TypeOK
    <3>2. inside' \in SUBSET Running'
      BY <2>1, <2>2 DEF TypeOK
    <3>3. QED
      BY <2>1, <3>1, <3>2 DEF TypeOK
  <2>4. HeldOnce' /\ WithinChunks'
    BY <2>1 DEF HeldOnce, WithinChunks
  <2>5. Labelled' /\ Own' /\ Exact'
    BY <2>1, <2>2 DEF Labelled, Own, Exact
  <2>6. InHand' /\ LockIsMine'
    BY <2>1, <2>2 DEF InHand, LockIsMine
  <2>7. QED
    BY <2>3, <2>4, <2>5, <2>6
<1>4. ASSUME Die(a) PROVE IInv'
  <2>1. /\ UNCHANGED <<used, free, used_allocated, free_allocated, chunks, shm_slot_i>>
        /\ UNCHANGED <<shm_slot, locked, failures, leaked, torn, wild>>
        /\ stage[a] = "running" /\ stage' = [stage EXCEPT ![a] = "dead"]
        /\ inside' = inside \ {a}
    BY <1>4 DEF Die, arrays, ghosts
  <2>2. Allocated' = Allocated /\ Linked' = Linked /\ Running' = Running \ {a}
    BY <2>1 DEF Allocated, Linked, Running, TypeOK
  <2>3. TypeOK'
    <3>1. stage' \in [Addr -> {"none", "prepared", "running", "dead"}]
      BY <2>1 DEF TypeOK
    <3>2. inside' \in SUBSET Running'
      BY <2>1, <2>2 DEF TypeOK
    <3>3. QED
      BY <2>1, <3>1, <3>2 DEF TypeOK
  <2>4. HeldOnce' /\ WithinChunks'
    BY <2>1 DEF HeldOnce, WithinChunks
  <2>5. Labelled' /\ Own' /\ Exact'
    BY <2>1, <2>2 DEF Labelled, Own, Exact
  <2>6. InHand' /\ LockIsMine'
    BY <2>1, <2>2 DEF InHand, LockIsMine, TypeOK
  <2>7. QED
    BY <2>3, <2>4, <2>5, <2>6
<1>5. QED
  BY <1>1, <1>2, <1>3, <1>4

(* Every step keeps the invariant. *)
LEMMA NextIInv == IInv /\ [Next]_vars => IInv'
<1> SUFFICES ASSUME IInv, [Next]_vars PROVE IInv'
  OBVIOUS
<1>1. ASSUME NEW a \in Addr, ForkFails(a) PROVE IInv'
  <2>1. \A b \in Addr : b # a => stage[b] # "prepared"
    BY <1>1 DEF ForkFails, IInv, InHand
  <2>2. QED
    BY <1>1, <2>1, DiscardStep DEF ForkFails
<1>2. ASSUME NEW a \in Addr, Bury(a) PROVE IInv'
  <2>1. \A b \in Addr : b # a => stage[b] # "prepared"
    BY <1>2 DEF Bury, NoneInHand
  <2>2. QED
    BY <1>2, <2>1, DiscardStep DEF Bury
<1>3. CASE UNCHANGED vars
  <2>1. /\ UNCHANGED <<used, free, used_allocated, free_allocated, chunks, shm_slot_i>>
        /\ UNCHANGED <<stage, shm_slot, locked, inside, failures, leaked, torn, wild>>
    BY <1>3 DEF vars, arrays, procs, locks, ghosts
  <2>2. Allocated' = Allocated /\ Linked' = Linked /\ Running' = Running
    BY <2>1 DEF Allocated, Linked, Running
  <2>6. TypeOK'
    BY <2>1, <2>2 DEF IInv, TypeOK
  <2>3. HeldOnce' /\ WithinChunks'
    BY <2>1 DEF IInv, HeldOnce, WithinChunks
  <2>4. Labelled' /\ Own' /\ Exact' /\ InHand' /\ LockIsMine'
    BY <2>1, <2>2 DEF IInv, Labelled, Own, Exact, InHand, LockIsMine
  <2>5. QED
    BY <2>3, <2>4, <2>6 DEF IInv
<1>4. CASE Next
  <2>1. PICK a \in Addr : \/ PushFails(a) \/ ChunkFails(a) \/ PrepareNew(a) \/ PrepareFree(a)
                          \/ Fork(a) \/ ForkFails(a) \/ Bury(a)
                          \/ Acquire(a) \/ Release(a) \/ Die(a)
    BY <1>4 DEF Next
  <2>2. QED
    BY <2>1, <1>1, <1>2, PrepareKeepsIInv, WorkersKeepIInv
<1>5. QED
  BY <1>3, <1>4

(* The invariant of the slots, from which the theorems below follow. *)
THEOREM SlotsInvariant == Spec => []IInv
BY InitIInv, NextIInv, PTL DEF Spec

(* Type correctness: in particular no index leaves its array. *)
THEOREM SlotsTypeCorrect == Spec => []TypeOK
<1>1. IInv => TypeOK
  BY DEF IInv
<1>2. QED
  BY <1>1, SlotsInvariant, PTL

(* No two workers share a slot, whatever allocations fail, and none is locked *)
(* out of its slot by a dead one.                                             *)
THEOREM SlotsAreNotShared == Spec => []SlotsArePrivate
<1>1. IInv => SlotsArePrivate
  BY OwnLemma DEF IInv, SlotsArePrivate
<1>2. QED
  BY <1>1, SlotsInvariant, PTL

(* Until an entry is torn the index of a child leads to its slot, and the *)
(* master uses no bad pointer.                                            *)
THEOREM SlotsBackIndexExact == Spec => []BackIndexExact
<1>1. IInv => BackIndexExact
  <2> SUFFICES ASSUME IInv, ~torn, NEW a \in Linked
      PROVE /\ shm_slot_i[a] < Len(used)
            /\ used[shm_slot_i[a] + 1] = [shm_slot |-> shm_slot[a], child |-> a]
    BY DEF BackIndexExact, IInv, Exact
  <2>1. PICK j \in DOMAIN used : used[j] = [shm_slot |-> shm_slot[a], child |-> a]
    BY DEF IInv, Own
  <2>2. j \in Nat
    BY DEF IInv, TypeOK
  <2>3. shm_slot_i[used[j].child] = j - 1
    BY DEF IInv, Exact
  <2>4. used[j].child = a
    BY <2>1
  <2>5. shm_slot_i[a] + 1 = j
    BY <2>2, <2>3, <2>4
  <2>6. shm_slot_i[a] < Len(used)
    BY DEF IInv, Labelled, Linked, Allocated
  <2>7. QED
    BY <2>1, <2>5, <2>6
<1>2. QED
  BY <1>1, SlotsInvariant, PTL

(* A bound that grows stays a bound. *)
LEMMA BoundLemma ==
  ASSUME NEW c \in Nat, NEW m \in Nat, NEW k \in Nat, NEW l \in Nat,
         c <= m + k, k <= l
  PROVE  c <= m + l
OBVIOUS

(* Every step keeps the count of the slots. *)
LEMMA NextCounted == IInv /\ Counted /\ [Next]_vars => Counted'
<1> SUFFICES ASSUME IInv, Counted, [Next]_vars, ~torn' PROVE
        /\ Len(used') = Cardinality(Allocated')
        /\ chunks' = Len(used') + Len(free') + leaked'
        /\ chunks' <= MaxChildren + leaked'
  BY DEF Counted
<1> DEFINE Goal == /\ Len(used') = Cardinality(Allocated')
                   /\ chunks' = Len(used') + Len(free') + leaked'
                   /\ chunks' <= MaxChildren + leaked'
<1>1. IsFiniteSet(Allocated) /\ Cardinality(Allocated) \in Nat
  <2>1. Allocated \subseteq Addr
    BY DEF Allocated
  <2>2. QED
    BY <2>1, SlotsAssumption, FS_Subset, FS_CardinalityType
<1>2. /\ used \in Seq(Entry) /\ Len(used) \in Nat /\ leaked \in Nat /\ chunks \in Nat
      /\ free \in Seq([shm_slot : Nat, child : {Null}]) /\ Len(free) \in Nat
      /\ MaxChildren \in Nat
  BY SlotsAssumption DEF IInv, TypeOK
<1>3. ASSUME UNCHANGED <<used, free, chunks, leaked>>, Allocated' = Allocated, torn' = torn
      PROVE  Goal
  BY <1>3 DEF Counted
<1>4. ASSUME NEW a \in Addr, NEW s, CanPrepare(a), Prepared(a, s)
      PROVE  /\ ~torn /\ leaked' = leaked /\ Len(used') = Len(used) + 1
             /\ Cardinality(Allocated') = Cardinality(Allocated) + 1
             /\ Cardinality(Allocated) < MaxChildren
  <2>1. Allocated' = Allocated \cup {a} /\ a \notin Allocated /\ Allocated = Linked
    BY <1>4 DEF Prepared, CanPrepare, NoneInHand, IInv, TypeOK, Allocated, Linked
  <2>2. Cardinality(Allocated') = Cardinality(Allocated) + 1
    BY <1>1, <2>1, FS_AddElement
  <2>3. Len(used') = Len(used) + 1
    BY <1>2, <1>4 DEF Prepared
  <2>4. QED
    BY <1>4, <2>1, <2>2, <2>3 DEF Prepared, CanPrepare
<1>5. ASSUME NEW a \in Addr, PrepareNew(a) PROVE Goal
  <2>1. free = <<>> /\ free' = free /\ chunks' = chunks + 1
    BY <1>5 DEF PrepareNew
  <2>2. /\ ~torn /\ leaked' = leaked /\ Len(used') = Len(used) + 1
        /\ Cardinality(Allocated') = Cardinality(Allocated) + 1
        /\ Cardinality(Allocated) < MaxChildren
    BY <1>4, <1>5 DEF PrepareNew
  <2>3. Len(free) = 0 /\ Len(free') = 0
    BY <2>1
  <2>4. QED
    BY <2>1, <2>2, <2>3, <1>1, <1>2 DEF Counted
<1>6. ASSUME NEW a \in Addr, PrepareFree(a) PROVE Goal
  <2>1. free # <<>> /\ free' = AllButLast(free) /\ chunks' = chunks
    BY <1>6 DEF PrepareFree, WithoutLast
  <2>2. /\ ~torn /\ leaked' = leaked /\ Len(used') = Len(used) + 1
        /\ Cardinality(Allocated') = Cardinality(Allocated) + 1
    BY <1>4, <1>6 DEF PrepareFree
  <2>3. Len(free') = Len(free) - 1
    BY <2>1, <1>2, AllButLastLemma
  <2>4. QED
    BY <2>1, <2>2, <2>3, <1>1, <1>2 DEF Counted
<1>7. ASSUME NEW a \in Addr, stage[a] \in {"prepared", "dead"}, DiscardSlot(a),
             stage' = [stage EXCEPT ![a] = "none"]
      PROVE  Goal
  <2>1. Allocated' = Allocated \ {a} /\ a \in Allocated
    BY <1>7 DEF IInv, TypeOK, Allocated
  <2>2. Cardinality(Allocated') = Cardinality(Allocated) - 1
    BY <1>1, <2>1, FS_RemoveElement
  <2>3. Len(used') = Len(used) - 1
    <3>1. shm_slot_i[a] \in Nat /\ shm_slot_i[a] < Len(used)
      BY <2>1 DEF IInv, TypeOK, Labelled
    <3>2. QED
      BY <3>1, <1>2, <1>7, ItemRemoveLemma DEF DiscardSlot
  <2>4. chunks' = chunks /\ torn' = torn
    BY <1>7 DEF DiscardSlot
  <2>5. Len(free') + leaked' = Len(free) + leaked + 1 /\ leaked' \in Nat /\ leaked <= leaked'
    <3>1. CASE leaked' = leaked + 1 /\ free' = free
      BY <3>1, <1>2
    <3>2. CASE leaked' = leaked /\ free' = Append(free, FreeEntry(used[shm_slot_i[a] + 1]))
      <4>1. Len(free') = Len(free) + 1
        BY <3>2, <1>2
      <4>2. QED
        BY <4>1, <3>2, <1>2
    <3>3. QED
      BY <3>1, <3>2, <1>7 DEF DiscardSlot, PushFree
  <2>6. Len(free') \in Nat
    <3>1. CASE free' = free
      BY <3>1, <1>2
    <3>2. CASE free' = Append(free, FreeEntry(used[shm_slot_i[a] + 1]))
      BY <3>2, <1>2
    <3>3. QED
      BY <3>1, <3>2, <1>7 DEF DiscardSlot, PushFree
  <2>7. Len(used') = Cardinality(Allocated')
    BY <2>2, <2>3, <2>4, <1>1, <1>2 DEF Counted
  <2>8. chunks' = Len(used') + Len(free') + leaked'
    <3>1. chunks = Len(used) + Len(free) + leaked
      BY <2>4 DEF Counted
    <3>2. QED
      BY <3>1, <2>3, <2>4, <2>5, <2>6, <1>2, SMTT(30)
  <2>9. chunks' <= MaxChildren + leaked'
    <3>1. chunks <= MaxChildren + leaked
      BY <2>4 DEF Counted
    <3>2. leaked' \in Nat /\ leaked <= leaked'
      BY <2>5
    <3>3. MaxChildren \in Nat /\ leaked \in Nat /\ chunks \in Nat
      BY <1>2
    <3>4. chunks <= MaxChildren + leaked'
      BY <3>1, <3>2, <3>3, BoundLemma
    <3>5. QED
      BY <3>4, <2>4
  <2>10. QED
    BY <2>7, <2>8, <2>9
<1>8. CASE UNCHANGED vars
  BY <1>3, <1>8 DEF vars, arrays, procs, ghosts, Allocated
<1>9. ASSUME NEW a \in Addr, PushFails(a) \/ Acquire(a) \/ Release(a) PROVE Goal
  BY <1>3, <1>9 DEF PushFails, Acquire, Release, arrays, procs, ghosts, Allocated
<1>10. ASSUME NEW a \in Addr, Fork(a) \/ Die(a) PROVE Goal
  <2>1. Allocated' = Allocated
    BY <1>10 DEF Fork, Die, Allocated, IInv, TypeOK
  <2>2. QED
    BY <1>3, <1>10, <2>1 DEF Fork, Die, arrays, ghosts
<1>11. ASSUME NEW a \in Addr, ForkFails(a) PROVE Goal
  BY <1>7, <1>11 DEF ForkFails
<1>12. ASSUME NEW a \in Addr, Bury(a) PROVE Goal
  BY <1>7, <1>12 DEF Bury
<1>13. ASSUME NEW a \in Addr, ChunkFails(a) PROVE FALSE
  BY <1>13 DEF ChunkFails
<1>14. QED
  BY <1>5, <1>6, <1>8, <1>9, <1>10, <1>11, <1>12, <1>13 DEF Next

(* Until an entry is torn, shared memory is bounded by max_children. *)
THEOREM SlotsMemoryIsBounded == Spec => []MemoryIsBounded
<1>1. Init => Counted
  <2> SUFFICES ASSUME Init PROVE Counted
    OBVIOUS
  <2>1. Allocated = {} /\ Len(used) = 0 /\ Len(free) = 0 /\ chunks = 0 /\ leaked = 0
    BY DEF Init, Allocated
  <2>2. Cardinality(Allocated) = 0
    BY <2>1, FS_EmptySet
  <2>3. QED
    BY <2>1, <2>2, SlotsAssumption DEF Counted
<1>2. Counted => MemoryIsBounded
  BY DEF Counted, MemoryIsBounded
<1>3. QED
  BY <1>1, <1>2, NextCounted, SlotsInvariant, PTL DEF Spec
=============================================================================
