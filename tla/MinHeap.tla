------------------------------- MODULE MinHeap --------------------------------
(***************************************************************************)
(* The heap of timers of libevent, min_heap.h.  A heap h is a record: h.p  *)
(* is the array of events in use, and h.idx[e] the place event e remembers *)
(* for itself, its min_heap_idx (0 for the code's -1, because places start *)
(* at 1 here and the parent of place i is i \div 2).  key[e] is ev_timeout *)
(* of e.  The loops that shift are walks of a hole up or down one path of  *)
(* the tree: the operators find the path and move everyone on it.          *)
(***************************************************************************)
EXTENDS Integers, Sequences

NoPlace == 0

Places(h) == DOMAIN h.p

(* min_heap_elem_greater *)
Greater(key, a, b) == key[a] > key[b]

(* Events are put into places: f[i] is the new event of each place i in the
   domain of f, and every event moved remembers its place. *)
Put(h, f) ==
  [p   |-> [i \in Places(h) |-> IF i \in DOMAIN f THEN f[i] ELSE h.p[i]],
   idx |-> [e \in DOMAIN h.idx |->
              IF \E i \in DOMAIN f : f[i] = e
              THEN CHOOSE i \in DOMAIN f : f[i] = e
              ELSE h.idx[e]]]

(* The places a loop visits that goes from a place to the next as long as there is
   one: the least set with the first place that is closed under next. *)
Walk(from, next) ==
  LET places == {from} \cup {next[i] : i \in DOMAIN next}
  IN  {j \in places : \A S \in SUBSET places :
         from \in S /\ (\A i \in S \cap DOMAIN next : next[i] \in S) => j \in S}

(* min_heap_shift_up_: e rises from the hole while its parent is greater *)
ShiftUp(h, key, hole, e) ==
  LET parent == [i \in {i \in 2..Len(h.p) : Greater(key, h.p[i \div 2], e)} |-> i \div 2]
  IN  Put(h, [i \in Walk(hole, parent) |->
                IF i \in DOMAIN parent THEN h.p[parent[i]] ELSE e])

(* The lesser child of place i among the first n places; the right one when
   they are equal. *)
LesserChild(h, key, i, n) ==
  IF 2 * i = n \/ Greater(key, h.p[2 * i + 1], h.p[2 * i]) THEN 2 * i ELSE 2 * i + 1

(* min_heap_shift_down_: e sinks from the hole while its lesser child among the
   first n is smaller, and may rise from there *)
ShiftDown(h, key, hole, e, n) ==
  LET child == [i \in {i \in 1..n \div 2 : Greater(key, e, h.p[LesserChild(h, key, i, n)])}
                  |-> LesserChild(h, key, i, n)]
      way   == Walk(hole, child)
      end   == CHOOSE i \in way : i \notin DOMAIN child
  IN  ShiftUp(Put(h, [i \in way \ {end} |-> h.p[child[i]]]), key, end, e)

-----------------------------------------------------------------------------
EmptyHeap(Events) == [p |-> <<>>, idx |-> [e \in Events |-> NoPlace]]

(* min_heap_push *)
Push(h, key, e) ==
  ShiftUp([h EXCEPT !.p = Append(h.p, e)], key, Len(h.p) + 1, e)

(* Mutant: the count of the array stays. *)
EraseUncounted(h, key, e) ==
  LET shifted == ShiftDown(h, key, h.idx[e], h.p[Len(h.p)], Len(h.p) - 1)
  IN  [shifted EXCEPT !.idx[e] = NoPlace]

(* min_heap_erase: the last event takes the place of e *)
Erase(h, key, e) ==
  LET n       == Len(h.p) - 1
      shifted == ShiftDown(h, key, h.idx[e], h.p[Len(h.p)], n)
  IN  [p   |-> SubSeq(shifted.p, 1, n),
       idx |-> [shifted.idx EXCEPT ![e] = NoPlace]]

-----------------------------------------------------------------------------
(* What the callers rely on, of a heap that should hold the events S. *)

(* No event is due before the one above it. *)
Ordered(h, key) ==
  \A i \in Places(h) : i > 1 => ~ Greater(key, h.p[i \div 2], h.p[i])

(* The array has each event of S once, and every event knows its place. *)
Holds(h, S) ==
  /\ {h.p[i] : i \in Places(h)} = S
  /\ \A i \in Places(h) : h.idx[h.p[i]] = i
  /\ \A e \in DOMAIN h.idx \ S : h.idx[e] = NoPlace
=============================================================================
