------------------------------ MODULE EvLoopProof ------------------------------
(***************************************************************************)
(* Theorems about the event loop and its heap of timers, for any number of *)
(* events, any clock and any calls of the program.  The heap comes first:  *)
(* the ways of min_heap_shift_up_ and _down_ are least sets, so facts about*)
(* their loops need no induction but a set that is closed under the step.  *)
(***************************************************************************)
EXTENDS EvLoop, SequenceTheorems, FiniteSetTheorems, WellFoundedInduction, TLAPS

(* Every set of naturals that is not empty has a least element. *)
LEMMA LeastLemma ==
  ASSUME NEW T, T \subseteq Nat, T # {}
  PROVE  \E x \in T : \A y \in T : x <= y
<1> DEFINE R == {ss \in Nat \X Nat : ss[1] < ss[2]}
<1>1. IsWellFoundedOn(R, Nat)
  BY NatLessThanWellFounded DEF OpToRel
<1>2. \A y \in Nat, z \in Nat : <<y, z>> \in R <=> y < z
  OBVIOUS
<1> HIDE DEF R
<1>3. PICK x \in T : \A y \in T : ~ (<<y, x>> \in R)
  BY <1>1, WFMin
<1>4. ASSUME NEW y \in T PROVE x <= y
  <2>1. x \in Nat /\ y \in Nat /\ ~ (y < x)
    BY <1>2, <1>3
  <2> QED BY <2>1
<1> QED BY <1>4

(* What a walk visits is closed under next, and contained in whatever is. *)
LEMMA WalkLemma ==
  ASSUME NEW from, NEW next
  PROVE  /\ from \in Walk(from, next)
         /\ \A i \in Walk(from, next) \cap DOMAIN next : next[i] \in Walk(from, next)
         /\ \A S : /\ from \in S
                   /\ \A i \in S \cap Walk(from, next) \cap DOMAIN next : next[i] \in S
                   => Walk(from, next) \subseteq S
<1> DEFINE places == {from} \cup {next[i] : i \in DOMAIN next}
           W == Walk(from, next)
           Closed(S) == from \in S /\ (\A i \in S \cap DOMAIN next : next[i] \in S)
<1>1. W = {j \in places : \A S \in SUBSET places : Closed(S) => j \in S}
  BY DEF Walk
<1>2. from \in places /\ \A i \in DOMAIN next : next[i] \in places
  OBVIOUS
<1> HIDE DEF W, places
<1>3. from \in W
  BY <1>1, <1>2
<1>4. ASSUME NEW i \in W \cap DOMAIN next PROVE next[i] \in W
  BY <1>1, <1>2
<1>5. ASSUME NEW S, from \in S, \A i \in S \cap W \cap DOMAIN next : next[i] \in S
      PROVE  W \subseteq S
  <2> DEFINE V == S \cap W
  <2>1. V \in SUBSET places
    BY <1>1
  <2>2. from \in V
    BY <1>3, <1>5
  <2>3. \A i \in V \cap DOMAIN next : next[i] \in V
    BY <1>4, <1>5
  <2>4. \A j \in W : j \in V
    <3> HIDE DEF V
    <3> QED BY <1>1, <2>1, <2>2, <2>3
  <2> QED BY <2>4
<1>6. QED
  BY <1>3, <1>4, <1>5 DEF W

(* A walk from one place is that place and the walk from the next. *)
LEMMA WalkOnLemma ==
  ASSUME NEW from, NEW next
  PROVE  /\ from \in DOMAIN next =>
              Walk(from, next) \subseteq {from} \cup Walk(next[from], next)
         /\ from \notin DOMAIN next => Walk(from, next) = {from}
<1>1. ASSUME from \in DOMAIN next
      PROVE  Walk(from, next) \subseteq {from} \cup Walk(next[from], next)
  <2> DEFINE S == {from} \cup Walk(next[from], next)
  <2>1. from \in S
    OBVIOUS
  <2>2. \A i \in S \cap DOMAIN next : next[i] \in S
    BY WalkLemma
  <2> HIDE DEF S
  <2>3. Walk(from, next) \subseteq S
    BY <2>1, <2>2, WalkLemma
  <2> QED BY <2>3 DEF S
<1>2. ASSUME from \notin DOMAIN next
      PROVE  Walk(from, next) = {from}
  <2> DEFINE S == {from}
  <2>1. Walk(from, next) \subseteq {from}
    <3>1. from \in S /\ \A i \in S \cap Walk(from, next) \cap DOMAIN next : next[i] \in S
      BY <1>2
    <3> HIDE DEF S
    <3>2. Walk(from, next) \subseteq S
      BY <3>1, WalkLemma
    <3> QED BY <3>2 DEF S
  <2>2. from \in Walk(from, next)
    BY WalkLemma
  <2> QED BY <2>1, <2>2
<1> QED BY <1>1, <1>2

(* Of two places of a walk one is visited from the other; it ends in one place only;
   each place but the first is the next of another. *)
LEMMA WalkOrderLemma ==
  ASSUME NEW from, NEW next
  PROVE  /\ \A i, j \in Walk(from, next) : i \in Walk(j, next) \/ j \in Walk(i, next)
         /\ \A i, j \in Walk(from, next) :
              i \notin DOMAIN next /\ j \notin DOMAIN next => i = j
         /\ \A j \in Walk(from, next) : j # from =>
              \E i \in Walk(from, next) \cap DOMAIN next : next[i] = j
<1> DEFINE W == Walk(from, next)
<1>1. ASSUME NEW i \in W PROVE \A j \in W : i \in Walk(j, next) \/ j \in Walk(i, next)
  <2> DEFINE S == {j \in W : i \in Walk(j, next) \/ j \in Walk(i, next)}
  <2>1. from \in S
    BY WalkLemma
  <2>2. ASSUME NEW j \in S \cap DOMAIN next PROVE next[j] \in S
    <3>1. next[j] \in W
      BY <2>2, WalkLemma
    <3>2. CASE j \in Walk(i, next)
      <4>1. next[j] \in Walk(i, next)
        BY <3>2, <2>2, WalkLemma
      <4> QED BY <3>1, <4>1
    <3>3. CASE j \notin Walk(i, next)
      <4>1. i \in Walk(j, next) /\ i # j
        BY <3>3, <2>2, WalkLemma
      <4>2. i \in Walk(next[j], next)
        BY <4>1, <2>2, WalkOnLemma
      <4> QED BY <3>1, <4>2
    <3> QED BY <3>2, <3>3
  <2> HIDE DEF S
  <2>3. W \subseteq S
    BY <2>1, <2>2, WalkLemma
  <2> QED BY <2>3 DEF S
<1>2. ASSUME NEW i \in W, NEW j \in W, i \notin DOMAIN next, j \notin DOMAIN next
      PROVE  i = j
  <2>1. Walk(i, next) = {i} /\ Walk(j, next) = {j}
    BY <1>2, WalkOnLemma
  <2> QED BY <1>1, <2>1
<1>3. ASSUME NEW j \in W, j # from, \A i \in W \cap DOMAIN next : next[i] # j
      PROVE  FALSE
  <2> DEFINE S == W \ {j}
  <2>1. from \in S
    BY <1>3, WalkLemma
  <2>2. \A i \in S \cap DOMAIN next : next[i] \in S
    BY <1>3, WalkLemma
  <2> HIDE DEF S
  <2>3. W \subseteq S
    BY <2>1, <2>2, WalkLemma
  <2> QED BY <2>3, <1>3 DEF S
<1> QED BY <1>1, <1>2, <1>3

(* A walk of the hole up, through the places D to their parents. *)
IsWayUp(W, D, hole) ==
  /\ hole \in W /\ W \subseteq 1..hole
  /\ \A i \in W \cap D : i \div 2 \in W
  /\ \E end \in W : end \notin D
  /\ \A i, j \in W : i \notin D /\ j \notin D => i = j
  /\ \A i, j \in W \cap D : i \div 2 = j \div 2 => i = j
  /\ \A j \in W : j # hole => \E i \in W \cap D : i \div 2 = j

(* A walk of the hole down, from places to one of their children. *)
IsWayDown(W, child, hole, n) ==
  /\ hole \in W /\ W \subseteq hole..n
  /\ \A i \in W \cap DOMAIN child : child[i] \in W /\ child[i] > i
  /\ \E end \in W : end \notin DOMAIN child
  /\ \A i, j \in W : i \notin DOMAIN child /\ j \notin DOMAIN child => i = j
  /\ \A j \in W : j # hole => \E i \in W \cap DOMAIN child : child[i] = j

(* The walk of a hole up: it ends, at one place, and comes through each place from
   one place below. *)
LEMMA UpLemma ==
  ASSUME NEW hole \in Nat \ {0}, NEW D, D \subseteq Nat \ {0, 1},
         NEW W, W = Walk(hole, [i \in D |-> i \div 2])
  PROVE  IsWayUp(W, D, hole)
<1> DEFINE next == [i \in D |-> i \div 2]
<1>0. W = Walk(hole, next)
  OBVIOUS
<1>1. DOMAIN next = D /\ \A i \in D : next[i] = i \div 2
  OBVIOUS
<1> HIDE DEF next
<1>2. \A i \in D : i \in Nat /\ i > 1 /\ i \div 2 \in 1..i - 1
  OBVIOUS
<1>3. ASSUME NEW k \in Nat \ {0} PROVE Walk(k, next) \subseteq 1..k
  <2>1. k \in 1..k
    OBVIOUS
  <2>2. \A i \in 1..k : i \in D => next[i] \in 1..k
    BY <1>1, <1>2
  <2> DEFINE S == 1..k
  <2>3. k \in S /\ \A i \in S \cap Walk(k, next) \cap DOMAIN next : next[i] \in S
    BY <2>1, <2>2, <1>1
  <2> HIDE DEF S
  <2>4. Walk(k, next) \subseteq S
    BY <2>3, WalkLemma
  <2> QED BY <2>4 DEF S
<1>4. hole \in W /\ W \subseteq 1..hole /\ W \subseteq Nat
  <2>1. hole \in W
    BY <1>0, WalkLemma
  <2>2. W \subseteq 1..hole
    BY <1>0, <1>3
  <2> QED BY <2>1, <2>2
<1>5. \A i \in W \cap D : i \div 2 \in W
  BY <1>0, <1>1, WalkLemma
<1>6. \E end \in W : end \notin D
  <2>1. PICK end \in W : \A y \in W : end <= y
    BY <1>4, LeastLemma
  <2>2. end \notin D
    <3> SUFFICES ASSUME end \in D PROVE FALSE
      OBVIOUS
    <3>1. end \div 2 \in W
      BY <1>5
    <3>2. end <= end \div 2
      BY <2>1, <3>1
    <3> QED BY <3>2, <1>2
  <2> QED BY <2>2
<1>7. \A i, j \in W : i \notin D /\ j \notin D => i = j
  BY <1>0, <1>1, WalkOrderLemma
<1>8. ASSUME NEW i \in W \cap D, NEW j \in W \cap D, i \div 2 = j \div 2, i # j,
             j \in Walk(i, next)
      PROVE  FALSE
  <2>0. i \in DOMAIN next
    BY <1>8, <1>1
  <2>1. j \in Walk(next[i], next)
    <3>1. Walk(i, next) \subseteq {i} \cup Walk(next[i], next)
      BY <2>0, WalkOnLemma
    <3> QED BY <3>1, <1>8
  <2>2. next[i] = j \div 2 /\ next[i] \in Nat \ {0}
    <3>1. i \in D /\ i \div 2 = j \div 2
      BY <1>8
    <3>2. next[i] = i \div 2 /\ i \div 2 \in 1..i - 1 /\ i \in Nat
      BY <3>1, <1>1, <1>2
    <3> QED BY <3>1, <3>2
  <2>3. j \in 1..next[i]
    BY <2>1, <2>2, <1>3
  <2> QED BY <2>2, <2>3, <1>2
<1>9. \A i, j \in W \cap D : i \div 2 = j \div 2 => i = j
  BY <1>0, <1>8, WalkOrderLemma
<1>10. \A j \in W : j # hole => \E i \in W \cap D : i \div 2 = j
  <2>1. \A j \in W : j # hole => \E i \in W \cap DOMAIN next : next[i] = j
    BY <1>0, WalkOrderLemma
  <2> QED BY <2>1, <1>1, ZenonT(30)
<1> QED BY <1>4, <1>5, <1>6, <1>7, <1>9, <1>10 DEF IsWayUp

(* The walk of a hole down, from a place to one of its children. *)
LEMMA DownLemma ==
  ASSUME NEW n \in Nat, NEW hole \in 1..n, NEW next,
         DOMAIN next \subseteq 1..n,
         \A i \in DOMAIN next : next[i] \in 1..n /\ next[i] \div 2 = i
  PROVE  IsWayDown(Walk(hole, next), next, hole, n)
<1> DEFINE W == Walk(hole, next)
<1>1. \A i \in DOMAIN next : i \in 1..n /\ next[i] > i
  OBVIOUS
<1>2. W \subseteq hole..n
  <2> DEFINE S == hole..n
  <2>1. hole \in S /\ \A i \in S \cap W \cap DOMAIN next : next[i] \in S
    BY <1>1
  <2> HIDE DEF S
  <2>2. W \subseteq S
    BY <2>1, WalkLemma
  <2> QED BY <2>2 DEF S
<1>3. hole \in W /\ \A i \in W \cap DOMAIN next : next[i] \in W
  BY WalkLemma
<1>4. \E end \in W : end \notin DOMAIN next
  <2> DEFINE T == {n - i : i \in W}
  <2>1. T \subseteq Nat /\ T # {}
    BY <1>2, <1>3
  <2>2. PICK m \in T : \A y \in T : m <= y
    <3> HIDE DEF T
    <3> QED BY <2>1, LeastLemma
  <2>3. PICK end \in W : m = n - end
    OBVIOUS
  <2>4. end \notin DOMAIN next
    <3> SUFFICES ASSUME end \in DOMAIN next PROVE FALSE
      OBVIOUS
    <3>1. next[end] \in W /\ next[end] > end
      BY <1>1, <1>3, <2>3
    <3>2. n - end <= n - next[end]
      BY <2>2, <2>3, <3>1
    <3>3. end \in Nat /\ next[end] \in Nat /\ n \in Nat
      BY <1>2, <3>1
    <3> QED BY <3>1, <3>2, <3>3
  <2> QED BY <2>4
<1>5. \A i, j \in W : i \notin DOMAIN next /\ j \notin DOMAIN next => i = j
  BY WalkOrderLemma
<1>6. \A j \in W : j # hole => \E i \in W \cap DOMAIN next : next[i] = j
  BY WalkOrderLemma
<1> QED BY <1>1, <1>2, <1>3, <1>4, <1>5, <1>6 DEF IsWayDown

-----------------------------------------------------------------------------
HeapOf(E) == [p : Seq(E), idx : [E -> Nat]]

(* The first n places have the events S, once each, and these know their places. *)
Has(h, S, n) ==
  /\ {h.p[i] : i \in 1..n} = S
  /\ \A i \in 1..n : h.idx[h.p[i]] = i

(* The same but for one place: what is there does not count. *)
HasBut(h, S, n, hole) ==
  /\ {h.p[i] : i \in (1..n) \ {hole}} = S
  /\ \A i \in (1..n) \ {hole} : h.idx[h.p[i]] = i

OrderedTo(h, key, n) == \A i \in 2..n : key[h.p[i \div 2]] <= key[h.p[i]]

(* In order but for one place, below which everything is due after e and after what
   is above the place. *)
OrderedBut(h, key, n, hole, e) ==
  /\ \A i \in 2..n : i # hole /\ i \div 2 # hole => key[h.p[i \div 2]] <= key[h.p[i]]
  /\ \A i \in 2..n : i \div 2 = hole =>
       /\ key[e] <= key[h.p[i]]
       /\ hole > 1 => key[h.p[hole \div 2]] <= key[h.p[i]]

(* Events that are put into places remember them. *)
LEMMA PutLemma ==
  ASSUME NEW E, NEW h \in HeapOf(E), NEW f,
         DOMAIN f \subseteq 1..Len(h.p), \A i \in DOMAIN f : f[i] \in E
  PROVE  /\ Put(h, f) \in HeapOf(E) /\ Len(Put(h, f).p) = Len(h.p)
         /\ \A i \in 1..Len(h.p) :
              Put(h, f).p[i] = IF i \in DOMAIN f THEN f[i] ELSE h.p[i]
         /\ (\A i, j \in DOMAIN f : f[i] = f[j] => i = j) =>
              \A i \in DOMAIN f : Put(h, f).idx[f[i]] = i
         /\ \A x \in E : (\A i \in DOMAIN f : f[i] # x) => Put(h, f).idx[x] = h.idx[x]
<1> DEFINE q == [i \in Places(h) |-> IF i \in DOMAIN f THEN f[i] ELSE h.p[i]]
           x == [e \in DOMAIN h.idx |-> IF \E i \in DOMAIN f : f[i] = e
                                        THEN CHOOSE i \in DOMAIN f : f[i] = e
                                        ELSE h.idx[e]]
<1>1. h.p \in Seq(E) /\ h.idx \in [E -> Nat]
  BY DEF HeapOf
<1>2. Len(h.p) \in Nat /\ DOMAIN h.p = 1..Len(h.p) /\ \A i \in 1..Len(h.p) : h.p[i] \in E
  BY <1>1
<1>3. Put(h, f) = [p |-> q, idx |-> x]
  BY DEF Put
<1>4. q = [i \in 1..Len(h.p) |-> IF i \in DOMAIN f THEN f[i] ELSE h.p[i]]
  BY <1>2 DEF Places
<1>5. q \in Seq(E) /\ Len(q) = Len(h.p)
  <2>1. \A i \in 1..Len(h.p) : (IF i \in DOMAIN f THEN f[i] ELSE h.p[i]) \in E
    BY <1>2
  <2> QED BY <2>1, <1>2, <1>4
<1>6. x \in [E -> Nat]
  <2>1. ASSUME NEW e \in E
        PROVE  (IF \E i \in DOMAIN f : f[i] = e THEN CHOOSE i \in DOMAIN f : f[i] = e
                                               ELSE h.idx[e]) \in Nat
    <3>1. CASE \E i \in DOMAIN f : f[i] = e
      <4>1. (CHOOSE i \in DOMAIN f : f[i] = e) \in DOMAIN f
        BY <3>1
      <4> QED BY <3>1, <4>1, <1>2
    <3>2. CASE ~ \E i \in DOMAIN f : f[i] = e
      BY <3>2, <1>1
    <3> QED BY <3>1, <3>2
  <2> QED BY <2>1, <1>1
<1>7. ASSUME \A i, j \in DOMAIN f : f[i] = f[j] => i = j, NEW i \in DOMAIN f
      PROVE  x[f[i]] = i
  <2>1. f[i] \in DOMAIN h.idx
    BY <1>1
  <2>2. x[f[i]] = CHOOSE j \in DOMAIN f : f[j] = f[i]
    BY <2>1
  <2> QED BY <2>2, <1>7
<1>8. ASSUME NEW e \in E, \A i \in DOMAIN f : f[i] # e
      PROVE  x[e] = h.idx[e]
  BY <1>1, <1>8
<1>9. \A i \in 1..Len(h.p) : q[i] = IF i \in DOMAIN f THEN f[i] ELSE h.p[i]
  BY <1>4
<1> HIDE DEF q, x
<1>10. Put(h, f).p = q /\ Put(h, f).idx = x
  BY <1>3
<1>11. Put(h, f) \in HeapOf(E)
  BY <1>3, <1>5, <1>6 DEF HeapOf
<1> QED BY <1>5, <1>7, <1>8, <1>9, <1>10, <1>11

(* The events S are in the first n places of r now and nobody else of h moved. *)
Filled(r, h, E, S, n) ==
  /\ r \in HeapOf(E) /\ Len(r.p) = Len(h.p)
  /\ Has(r, S, n)
  /\ \A x \in E \ S : r.idx[x] = h.idx[x]
  /\ \A i \in 1..Len(h.p) : i > n => r.p[i] = h.p[i]

(* min_heap_shift_up_ fills the hole with e and loses nobody. *)
LEMMA ShiftUpHas ==
  ASSUME NEW E, NEW h \in HeapOf(E), NEW key \in [E -> Int], NEW S, NEW e \in E, e \notin S,
         NEW n \in 1..Len(h.p), NEW hole \in 1..n, HasBut(h, S, n, hole)
  PROVE  Filled(ShiftUp(h, key, hole, e), h, E, S \cup {e}, n)
<1> DEFINE D == {i \in 2..Len(h.p) : Greater(key, h.p[i \div 2], e)}
           parent == [i \in D |-> i \div 2]
           W == Walk(hole, parent)
           f == [i \in W |-> IF i \in DOMAIN parent THEN h.p[parent[i]] ELSE e]
           r == Put(h, f)
<1>1. ShiftUp(h, key, hole, e) = r
  BY DEF ShiftUp
<1>2. /\ h.p \in Seq(E) /\ h.idx \in [E -> Nat]
      /\ Len(h.p) \in Nat /\ n \in Nat /\ n <= Len(h.p) /\ hole \in Nat \ {0} /\ hole <= n
      /\ \A i \in 1..Len(h.p) : h.p[i] \in E
  BY DEF HeapOf
<1>n. \A i \in 1..n : i \in 1..Len(h.p)
  OBVIOUS
<1>3. D \subseteq Nat \ {0, 1} /\ DOMAIN parent = D /\ \A i \in D : parent[i] = i \div 2
  OBVIOUS
<1>4. IsWayUp(W, D, hole)
  <2> HIDE DEF D
  <2>1. /\ W = Walk(hole, [i \in D |-> i \div 2])
        /\ hole \in Nat \ {0} /\ D \subseteq Nat \ {0, 1}
    BY <1>2, <1>3
  <2> HIDE DEF W
  <2> QED BY <2>1, UpLemma
<1>5. /\ DOMAIN f = W
      /\ \A i \in W : f[i] = IF i \in D THEN h.p[i \div 2] ELSE e
  BY <1>3
<1>6. \A i \in W : i \in 1..n /\ (i \in D => i \div 2 \in (1..n) \ {hole})
  <2> TAKE i \in W
  <2>1. i \in 1..hole
    BY <1>4 DEF IsWayUp
  <2>2. hole \in Nat /\ n \in Nat /\ hole <= n
    BY <1>2
  <2>3. i \in D => i > 1
    BY <1>3, <2>1
  <2> HIDE DEF D
  <2> QED BY <2>1, <2>2, <2>3
<1> HIDE DEF D, parent, W, f
<1>7. \A i \in (1..n) \ {hole} : h.p[i] \in S /\ h.idx[h.p[i]] = i /\ h.p[i] \in E
  <2> TAKE i \in (1..n) \ {hole}
  <2>1. i \in 1..Len(h.p)
    BY <1>2
  <2>2. h.p[i] \in E
    BY <1>2, <2>1
  <2>3. h.p[i] \in S /\ h.idx[h.p[i]] = i
    BY DEF HasBut
  <2> QED BY <2>2, <2>3
<1>8. DOMAIN f \subseteq 1..Len(h.p) /\ \A i \in DOMAIN f : f[i] \in E
  BY <1>n, <1>5, <1>6, <1>7
<1>9. ASSUME NEW i \in W, NEW j \in W, f[i] = f[j] PROVE i = j
  <2>1. CASE i \in D /\ j \in D
    <3>1. h.p[i \div 2] = h.p[j \div 2]
      BY <2>1, <1>5, <1>9
    <3>2. i \div 2 = j \div 2
      BY <2>1, <3>1, <1>6, <1>7
    <3> QED BY <2>1, <3>2, <1>4 DEF IsWayUp
  <2>2. CASE i \notin D /\ j \notin D
    BY <2>2, <1>4 DEF IsWayUp
  <2>3. CASE i \in D /\ j \notin D
    BY <2>3, <1>5, <1>6, <1>7, <1>9
  <2>4. CASE i \notin D /\ j \in D
    BY <2>4, <1>5, <1>6, <1>7, <1>9
  <2> QED BY <2>1, <2>2, <2>3, <2>4
<1>10. /\ r \in HeapOf(E) /\ Len(r.p) = Len(h.p)
       /\ \A i \in 1..Len(h.p) : r.p[i] = IF i \in W THEN f[i] ELSE h.p[i]
       /\ \A i \in W : r.idx[f[i]] = i
       /\ \A x \in E : (\A i \in W : f[i] # x) => r.idx[x] = h.idx[x]
  <2>1. \A i, j \in DOMAIN f : f[i] = f[j] => i = j
    BY <1>5, <1>9
  <2>2. /\ r \in HeapOf(E) /\ Len(r.p) = Len(h.p)
        /\ \A i \in 1..Len(h.p) : r.p[i] = IF i \in DOMAIN f THEN f[i] ELSE h.p[i]
        /\ \A i \in DOMAIN f : r.idx[f[i]] = i
        /\ \A x \in E : (\A i \in DOMAIN f : f[i] # x) => r.idx[x] = h.idx[x]
    BY <1>8, <2>1, PutLemma
  <2> HIDE DEF r
  <2>3. DOMAIN f = W
    BY <1>5
  <2> QED BY <2>2, <2>3
<1> HIDE DEF r
<1>11. \A i \in 1..n : i \in 1..Len(h.p) /\ r.p[i] = IF i \in W THEN f[i] ELSE h.p[i]
  BY <1>n, <1>10
<1>12. \A i \in W : f[i] \in S \cup {e}
  BY <1>5, <1>6, <1>7
<1>13. ASSUME NEW i \in 1..n PROVE r.idx[r.p[i]] = i
  <2>1. CASE i \in W
    BY <2>1, <1>10, <1>11
  <2>2. CASE i \notin W
    <3>1. i \in (1..n) \ {hole} /\ r.p[i] = h.p[i]
      BY <2>2, <1>4, <1>11 DEF IsWayUp
    <3>2. ASSUME NEW j \in W PROVE f[j] # h.p[i]
      <4>1. CASE j \in D
        <5>1. j \div 2 \in W /\ j \div 2 \in (1..n) \ {hole} /\ f[j] = h.p[j \div 2]
          BY <4>1, <1>4, <1>5, <1>6 DEF IsWayUp
        <5> QED BY <5>1, <3>1, <2>2, <1>7
      <4>2. CASE j \notin D
        BY <4>2, <3>1, <1>5, <1>7
      <4> QED BY <4>1, <4>2
    <3> QED BY <3>1, <3>2, <1>7, <1>10
  <2> QED BY <2>1, <2>2
<1>14. {r.p[i] : i \in 1..n} = S \cup {e}
  <2>1. ASSUME NEW i \in 1..n PROVE r.p[i] \in S \cup {e}
    BY <1>4, <1>7, <1>11, <1>12 DEF IsWayUp
  <2>2. \E i \in 1..n : r.p[i] = e
    BY <1>4, <1>5, <1>6, <1>11 DEF IsWayUp
  <2>3. ASSUME NEW s \in S PROVE \E i \in 1..n : r.p[i] = s
    <3>1. PICK k \in (1..n) \ {hole} : h.p[k] = s
      BY DEF HasBut
    <3>2. CASE k \notin W
      BY <3>1, <3>2, <1>11
    <3>3. CASE k \in W
      <4>1. PICK i \in W \cap D : i \div 2 = k
        BY <3>1, <3>3, <1>4 DEF IsWayUp
      <4>2. i \in 1..n /\ r.p[i] = h.p[k]
        BY <4>1, <1>5, <1>6, <1>11
      <4> QED BY <4>2, <3>1
    <3> QED BY <3>2, <3>3
  <2> QED BY <2>1, <2>2, <2>3
<1>15. \A x \in E \ (S \cup {e}) : r.idx[x] = h.idx[x]
  BY <1>10, <1>12
<1>16. \A i \in 1..Len(h.p) : i > n => r.p[i] = h.p[i]
  BY <1>2, <1>6, <1>10
<1>17. Has(r, S \cup {e}, n)
  BY <1>13, <1>14 DEF Has
<1> QED BY <1>1, <1>10, <1>15, <1>16, <1>17 DEF Filled

(* min_heap_shift_up_ puts the first n places in order. *)
LEMMA ShiftUpOrdered ==
  ASSUME NEW E, NEW h \in HeapOf(E), NEW key \in [E -> Int], NEW e \in E,
         NEW n \in 1..Len(h.p), NEW hole \in 1..n, OrderedBut(h, key, n, hole, e)
  PROVE  OrderedTo(ShiftUp(h, key, hole, e), key, n)
<1> DEFINE D == {i \in 2..Len(h.p) : Greater(key, h.p[i \div 2], e)}
           parent == [i \in D |-> i \div 2]
           W == Walk(hole, parent)
           f == [i \in W |-> IF i \in DOMAIN parent THEN h.p[parent[i]] ELSE e]
           r == Put(h, f)
<1>1. ShiftUp(h, key, hole, e) = r
  BY DEF ShiftUp
<1>2. /\ h.p \in Seq(E) /\ Len(h.p) \in Nat /\ n \in Nat /\ n <= Len(h.p)
      /\ hole \in Nat \ {0} /\ hole <= n /\ \A i \in 1..Len(h.p) : h.p[i] \in E
  BY DEF HeapOf
<1>n. \A i \in 1..n : i \in 1..Len(h.p) /\ h.p[i] \in E /\ i \in Nat
  BY <1>2
<1>3. D \subseteq Nat \ {0, 1} /\ DOMAIN parent = D /\ \A i \in D : parent[i] = i \div 2
  OBVIOUS
<1>4. IsWayUp(W, D, hole)
  <2> HIDE DEF D
  <2>1. /\ W = Walk(hole, [i \in D |-> i \div 2])
        /\ hole \in Nat \ {0} /\ D \subseteq Nat \ {0, 1}
    BY <1>2, <1>3
  <2> HIDE DEF W
  <2> QED BY <2>1, UpLemma
<1>5. /\ DOMAIN f = W
      /\ \A i \in W : f[i] = IF i \in D THEN h.p[i \div 2] ELSE e
  BY <1>3
<1>d. \A i \in 2..n : /\ i \div 2 \in 1..n /\ i \div 2 < i /\ i \in 1..n
                      /\ i \in D <=> key[h.p[i \div 2]] > key[e]
  <2> TAKE i \in 2..n
  <2>1. i \div 2 \in 1..n /\ i \div 2 < i /\ i \in 1..n
    BY <1>2
  <2>2. i \in 2..Len(h.p)
    BY <1>2
  <2> QED BY <2>1, <2>2 DEF Greater
<1>e. D \subseteq 2..Len(h.p)
  OBVIOUS
<1> HIDE DEF D, parent, W, f
<1>6. \A i \in W : i \in 1..n /\ i <= hole /\ i \in 1..Len(h.p)
  <2> TAKE i \in W
  <2>1. i \in 1..hole
    BY <1>4 DEF IsWayUp
  <2> QED BY <2>1, <1>2
<1>7. DOMAIN f \subseteq 1..Len(h.p) /\ \A i \in DOMAIN f : f[i] \in E
  <2>1. ASSUME NEW i \in W PROVE f[i] \in E
    <3>1. CASE i \in D
      <4>1. i \div 2 \in W
        BY <3>1, <1>4 DEF IsWayUp
      <4> QED BY <4>1, <3>1, <1>5, <1>6, <1>2
    <3>2. CASE i \notin D
      BY <3>2, <1>5
    <3> QED BY <3>1, <3>2
  <2> QED BY <2>1, <1>5, <1>6
<1>8. \A i \in 1..n : r.p[i] = IF i \in W THEN IF i \in D THEN h.p[i \div 2] ELSE e
                                          ELSE h.p[i]
  <2>1. \A i \in 1..Len(h.p) : r.p[i] = IF i \in DOMAIN f THEN f[i] ELSE h.p[i]
    BY <1>7, PutLemma
  <2> HIDE DEF r
  <2> QED BY <2>1, <1>5, <1>n
<1> HIDE DEF r
<1>9. key[e] \in Int /\ \A i \in 1..n : key[h.p[i]] \in Int
  BY <1>n
<1>o. \A i \in 2..n : i # hole /\ i \div 2 # hole => key[h.p[i \div 2]] <= key[h.p[i]]
  BY DEF OrderedBut
<1>10. ASSUME NEW i \in 2..n PROVE key[r.p[i \div 2]] <= key[r.p[i]]
  <2> DEFINE j == i \div 2
  <2>1. j \in 1..n /\ j < i /\ i \in 1..n /\ j \in Nat /\ i \in Nat /\ (i \in D <=> key[h.p[j]] > key[e])
    BY <1>d
  <2>2. j \in D \/ j > 1 => j \in 2..n
    <3>1. j \in D => j \in 2..Len(h.p)
      BY <1>e
    <3> HIDE DEF j
    <3> QED BY <3>1, <2>1
  <2>3. ASSUME j \in W, j # hole PROVE key[h.p[j]] > key[e]
    <3>1. PICK k \in W \cap D : k \div 2 = j
      BY <2>3, <1>4 DEF IsWayUp
    <3>2. k \in 2..n
      <4>1. k \in 2..Len(h.p) /\ k \in 1..n
        BY <1>e, <1>6
      <4> QED BY <4>1
    <3> QED BY <3>1, <3>2, <1>d
  <2>4. ASSUME j \in D, j < hole PROVE key[h.p[j \div 2]] <= key[h.p[j]]
    <3>1. j \in 2..n /\ j # hole
      BY <2>2, <2>4, <2>1, <1>2
    <3>2. j \div 2 # hole /\ j \div 2 \in 1..n
      <4>1. j \div 2 < j /\ j \div 2 \in 1..n
        BY <3>1, <1>d
      <4> HIDE DEF j
      <4> QED BY <4>1, <2>4, <2>1, <1>2
    <3> HIDE DEF j
    <3> QED BY <3>1, <3>2, <1>o
  <2>5. j \in D => key[h.p[j \div 2]] \in Int
    <3>1. j \in D => j \div 2 \in 1..n
      BY <2>2, <1>d
    <3> QED BY <3>1, <1>9
  <2>r. /\ r.p[i] = IF i \in W THEN IF i \in D THEN h.p[j] ELSE e ELSE h.p[i]
        /\ r.p[j] = IF j \in W THEN IF j \in D THEN h.p[j \div 2] ELSE e ELSE h.p[j]
        /\ key[e] \in Int /\ key[h.p[i]] \in Int /\ key[h.p[j]] \in Int
    BY <2>1, <1>8, <1>9
  <2>s. i \in W /\ i \in D => j \in W
    BY <1>4 DEF IsWayUp
  <2>o. i # hole /\ j # hole => key[h.p[j]] <= key[h.p[i]]
    BY <1>o
  <2>h. j = hole => key[e] <= key[h.p[i]] /\ (hole > 1 => key[h.p[hole \div 2]] <= key[h.p[i]])
    BY DEF OrderedBut
  <2>w. hole \in W /\ hole \in Nat
    BY <1>2, <1>4 DEF IsWayUp
  <2>v. (i \in W => i <= hole) /\ (j \in W => j <= hole)
    BY <1>6
  <2>u. j \in D => j > 1
    BY <2>2, <2>1
  <2> SUFFICES key[r.p[j]] <= key[r.p[i]]
    OBVIOUS
  <2> HIDE DEF j
  <2>6. CASE i \in W /\ i \in D
    BY <2>6, <2>r, <2>s, <2>1, <2>4, <2>5, <2>v, <2>w
  <2>7. CASE i \in W /\ i \notin D
    BY <2>7, <2>r, <2>1, <2>3, <2>v, <2>w
  <2>8. CASE i \notin W /\ j \in W /\ j = hole
    BY <2>8, <2>r, <2>h, <2>u, <2>1
  <2>9. CASE i \notin W /\ j \in W /\ j # hole
    BY <2>9, <2>r, <2>o, <2>w, <2>3, <2>4, <2>5, <2>v, <2>1
  <2>10. CASE i \notin W /\ j \notin W
    BY <2>10, <2>r, <2>o, <2>w
  <2> QED BY <2>6, <2>7, <2>8, <2>9, <2>10
<1> QED BY <1>1, <1>10 DEF OrderedTo

(* The lesser child is one, and not greater than the other. *)
LEMMA LesserChildLemma ==
  ASSUME NEW E, NEW h \in HeapOf(E), NEW key \in [E -> Int],
         NEW n \in 1..Len(h.p), NEW i \in 1..n \div 2
  PROVE  LET c == LesserChild(h, key, i, n)
         IN  /\ c \in 2..n /\ c \div 2 = i
             /\ \A k \in 2..n : k \div 2 = i => key[h.p[c]] <= key[h.p[k]]
<1> DEFINE c == LesserChild(h, key, i, n)
<1>1. n \in Nat /\ n <= Len(h.p) /\ Len(h.p) \in Nat /\ i \in Nat /\ i >= 1 /\ 2 * i <= n
  BY DEF HeapOf
<1>2. \A k \in 1..n : key[h.p[k]] \in Int
  <2>1. \A k \in 1..n : k \in 1..Len(h.p)
    BY <1>1
  <2>2. \A k \in 1..Len(h.p) : h.p[k] \in E
    BY DEF HeapOf
  <2> QED BY <2>1, <2>2
<1>3. c = IF 2 * i = n \/ key[h.p[2 * i + 1]] > key[h.p[2 * i]] THEN 2 * i ELSE 2 * i + 1
  BY DEF LesserChild, Greater
<1> HIDE DEF c
<1>4. c \in 2..n /\ c \div 2 = i
  <2>1. c = 2 * i \/ (c = 2 * i + 1 /\ 2 * i # n)
    BY <1>3
  <2>2. (2 * i) \div 2 = i /\ (2 * i + 1) \div 2 = i
    BY <1>1
  <2>3. 2 * i \in 2..n /\ (2 * i # n => 2 * i + 1 \in 2..n)
    BY <1>1
  <2> QED BY <2>1, <2>2, <2>3
<1>5. ASSUME NEW k \in 2..n, k \div 2 = i PROVE key[h.p[c]] <= key[h.p[k]]
  <2>1. k = 2 * i \/ k = 2 * i + 1
    BY <1>1, <1>5
  <2>2. k \in 1..n /\ c \in 1..n
    BY <1>4
  <2>3. key[h.p[k]] \in Int /\ key[h.p[c]] \in Int
    BY <2>2, <1>2
  <2>4. CASE 2 * i = n
    <3>1. k = 2 * i /\ c = 2 * i
      BY <1>1, <1>3, <2>1, <2>4
    <3> QED BY <3>1, <2>3
  <2>5. CASE 2 * i # n
    <3>1. 2 * i \in 1..n /\ 2 * i + 1 \in 1..n
      BY <1>1, <2>5
    <3>2. key[h.p[2 * i]] \in Int /\ key[h.p[2 * i + 1]] \in Int
      BY <3>1, <1>2
    <3> QED BY <3>2, <2>1, <2>5, <1>3
  <2> QED BY <2>4, <2>5
<1> QED BY <1>4, <1>5 DEF c

(* The child to which an event sinks from each place. *)
Sinks(h, key, e, n) ==
  [i \in {i \in 1..n \div 2 : Greater(key, e, h.p[LesserChild(h, key, i, n)])}
     |-> LesserChild(h, key, i, n)]

(* The heap when everyone on the way has moved up by one place. *)
MovedUp(h, W, end, child) == Put(h, [i \in W \ {end} |-> h.p[child[i]]])

(* The hole of h is at place end of r now, from where e can rise. *)
Carried(r, h, E, S, key, n, end, e) ==
  /\ r \in HeapOf(E) /\ Len(r.p) = Len(h.p) /\ end \in 1..n
  /\ HasBut(r, S, n, end)
  /\ OrderedBut(r, key, n, end, e)
  /\ \A x \in E \ S : r.idx[x] = h.idx[x]

(* The hole of an ordered heap is carried down a way of lesser children and leaves
   a heap without e that is in order but for the last place of the way. *)
LEMMA CarryLemma ==
  ASSUME NEW E, NEW h \in HeapOf(E), NEW key \in [E -> Int], NEW S, S \subseteq E,
         NEW e \in E, NEW n \in 1..Len(h.p), NEW hole \in 1..n,
         HasBut(h, S, n, hole), OrderedTo(h, key, n),
         NEW child, child = Sinks(h, key, e, n),
         NEW W, W = Walk(hole, child),
         NEW end \in W, end \notin DOMAIN child
  PROVE  Carried(MovedUp(h, W, end, child), h, E, S, key, n, end, e)
<1> DEFINE D == DOMAIN child
           f == [i \in W \ {end} |-> h.p[child[i]]]
           r == Put(h, f)
<1>1. /\ h.p \in Seq(E) /\ h.idx \in [E -> Nat]
      /\ Len(h.p) \in Nat /\ n \in Nat /\ n <= Len(h.p) /\ hole \in Nat \ {0} /\ hole <= n
      /\ \A i \in 1..Len(h.p) : h.p[i] \in E
  BY DEF HeapOf
<1>n. \A i \in 1..n : i \in 1..Len(h.p) /\ h.p[i] \in E /\ i \in Nat
  BY <1>1, SMTT(30)
<1>d. \A i \in 2..n : i \div 2 \in 1..n /\ i \div 2 \in 1..n \div 2 /\ i \div 2 < i /\ i \in 1..n
  BY <1>1
<1>2. /\ D = {i \in 1..n \div 2 : key[e] > key[h.p[LesserChild(h, key, i, n)]]}
      /\ \A i \in D : child[i] = LesserChild(h, key, i, n)
  BY DEF Sinks, Greater
<1>3. \A i \in D : /\ i \in 1..n /\ child[i] \in 2..n /\ child[i] \div 2 = i
                   /\ \A k \in 2..n : k \div 2 = i => key[h.p[child[i]]] <= key[h.p[k]]
  <2> TAKE i \in D
  <2>1. i \in 1..n \div 2 /\ child[i] = LesserChild(h, key, i, n)
    BY <1>2
  <2>2. i \in 1..n
    BY <2>1, <1>1
  <2>3. /\ LesserChild(h, key, i, n) \in 2..n /\ LesserChild(h, key, i, n) \div 2 = i
        /\ \A k \in 2..n : k \div 2 = i =>
             key[h.p[LesserChild(h, key, i, n)]] <= key[h.p[k]]
    BY <2>1, LesserChildLemma
  <2> HIDE DEF D
  <2> QED BY <2>1, <2>2, <2>3
<1>c. \A i \in D : child[i] \in 1..n
  BY <1>3, <1>d
<1>4. IsWayDown(W, child, hole, n)
  BY <1>1, <1>3, <1>c, DownLemma
<1>5. \A i \in W : i \in D <=> i # end
  BY <1>4 DEF IsWayDown
<1>6. \A i \in W : i \in 1..n /\ i >= hole
  <2> TAKE i \in W
  <2>1. i \in hole..n
    BY <1>4 DEF IsWayDown
  <2> QED BY <2>1, <1>1
<1>7. DOMAIN f = W \ {end} /\ \A i \in W \cap D : f[i] = h.p[child[i]] /\ i \in DOMAIN f
  BY <1>5
<1>w. \A i \in W \cap D : child[i] \in W /\ child[i] > i
  BY <1>4 DEF IsWayDown
<1>p. \A j \in W : j # hole => \E i \in W \cap D : child[i] = j
  BY <1>4 DEF IsWayDown
<1>h. hole \in W
  BY <1>4 DEF IsWayDown
<1>o. \A i \in 2..n : key[h.p[i \div 2]] <= key[h.p[i]]
  BY DEF OrderedTo
<1>k. \A i \in 1..n : key[h.p[i]] \in Int
  BY <1>n
<1>e. \A i \in 2..n : i \div 2 = end => key[e] <= key[h.p[i]]
  <2> TAKE i \in 2..n
  <2> HAVE i \div 2 = end
  <2>1. end \in 1..n \div 2
    BY <1>d
  <2>2. ~ key[e] > key[h.p[LesserChild(h, key, end, n)]]
    BY <2>1, <1>2
  <2>3. LesserChild(h, key, end, n) \in 2..n
        /\ key[h.p[LesserChild(h, key, end, n)]] <= key[h.p[i]]
    BY <2>1, LesserChildLemma
  <2>4. LesserChild(h, key, end, n) \in 1..n
    BY <2>3, <1>d
  <2>5. /\ key[h.p[LesserChild(h, key, end, n)]] \in Int
        /\ key[h.p[i]] \in Int /\ key[e] \in Int
    BY <2>4, <1>k, <1>d
  <2> QED BY <2>2, <2>3, <2>5
<1> HIDE DEF D, f
<1>8. \A i \in (1..n) \ {hole} : h.p[i] \in S /\ h.idx[h.p[i]] = i
  BY DEF HasBut
<1>9. DOMAIN f \subseteq 1..Len(h.p) /\ \A i \in DOMAIN f : f[i] \in E
  BY <1>5, <1>6, <1>7, <1>c, <1>n
<1>10. \A i \in W \cap D : child[i] \in (1..n) \ {hole} /\ f[i] \in S
  <2> TAKE i \in W \cap D
  <2>1. child[i] \in 1..n /\ child[i] > i /\ i >= hole /\ i \in Nat
    BY <1>c, <1>w, <1>6, <1>n
  <2>2. child[i] # hole
    BY <2>1, <1>1
  <2> QED BY <2>1, <2>2, <1>7, <1>8
<1>11. ASSUME NEW i \in W \cap D, NEW j \in W \cap D, f[i] = f[j] PROVE i = j
  <2>1. h.p[child[i]] = h.p[child[j]]
    BY <1>7, <1>11
  <2>2. child[i] = child[j]
    BY <2>1, <1>8, <1>10
  <2> QED BY <2>2, <1>3
<1>12. /\ r \in HeapOf(E) /\ Len(r.p) = Len(h.p)
       /\ \A i \in 1..Len(h.p) : r.p[i] = IF i \in W \cap D THEN h.p[child[i]] ELSE h.p[i]
       /\ \A i \in W \cap D : r.idx[f[i]] = i
       /\ \A x \in E : (\A i \in W \cap D : f[i] # x) => r.idx[x] = h.idx[x]
  <2>1. DOMAIN f = W \cap D
    BY <1>5, <1>7
  <2>2. \A i, j \in DOMAIN f : f[i] = f[j] => i = j
    BY <2>1, <1>11
  <2>3. /\ r \in HeapOf(E) /\ Len(r.p) = Len(h.p)
        /\ \A i \in 1..Len(h.p) : r.p[i] = IF i \in DOMAIN f THEN f[i] ELSE h.p[i]
        /\ \A i \in DOMAIN f : r.idx[f[i]] = i
        /\ \A x \in E : (\A i \in DOMAIN f : f[i] # x) => r.idx[x] = h.idx[x]
    BY <1>9, <2>2, PutLemma
  <2> HIDE DEF r
  <2> QED BY <2>1, <2>3, <1>7
<1> HIDE DEF r
<1>13. \A i \in 1..n : r.p[i] = IF i \in W \cap D THEN h.p[child[i]] ELSE h.p[i]
  BY <1>n, <1>12
<1>14. end \in 1..n
  BY <1>6
<1>15. \A i \in (1..n) \ {end} : i \notin W \cap D => i \notin W /\ i # hole
  BY <1>5, <1>h
<1>16. HasBut(r, S, n, end)
  <2>1. ASSUME NEW i \in (1..n) \ {end} PROVE r.p[i] \in S /\ r.idx[r.p[i]] = i
    <3>1. CASE i \in W \cap D
      BY <3>1, <1>7, <1>10, <1>12, <1>13
    <3>2. CASE i \notin W \cap D
      <4>1. i \in (1..n) \ {hole} /\ i \notin W /\ r.p[i] = h.p[i]
        BY <3>2, <1>13, <1>15
      <4>2. ASSUME NEW j \in W \cap D PROVE f[j] # h.p[i]
        <5>1. child[j] \in W /\ child[j] \in (1..n) \ {hole} /\ f[j] = h.p[child[j]]
          BY <1>7, <1>10, <1>w
        <5> QED BY <5>1, <4>1, <1>8
      <4> QED BY <4>1, <4>2, <1>8, <1>12
    <3> QED BY <3>1, <3>2
  <2>2. ASSUME NEW s \in S PROVE \E i \in (1..n) \ {end} : r.p[i] = s
    <3>1. PICK k \in (1..n) \ {hole} : h.p[k] = s
      BY DEF HasBut
    <3>2. CASE k \in W
      <4>1. PICK i \in W \cap D : child[i] = k
        BY <3>1, <3>2, <1>p
      <4>2. i \in (1..n) \ {end} /\ r.p[i] = s
        BY <4>1, <3>1, <1>5, <1>6, <1>13
      <4> QED BY <4>2
    <3>3. CASE k \notin W
      BY <3>1, <3>3, <1>13
    <3> QED BY <3>2, <3>3
  <2> QED BY <2>1, <2>2 DEF HasBut
<1>17. ASSUME NEW i \in 2..n PROVE
         /\ i # end /\ i \div 2 # end => key[r.p[i \div 2]] <= key[r.p[i]]
         /\ i \div 2 = end => /\ key[e] <= key[r.p[i]]
                              /\ end > 1 => key[r.p[end \div 2]] <= key[r.p[i]]
  <2> DEFINE j == i \div 2
  <2>1. /\ j \in 1..n /\ j < i /\ i \in 1..n /\ j \in Nat /\ i \in Nat
        /\ key[h.p[j]] <= key[h.p[i]] /\ key[h.p[j]] \in Int /\ key[h.p[i]] \in Int
    BY <1>d, <1>o, <1>k, <1>n
  <2>2. /\ r.p[i] = IF i \in W \cap D THEN h.p[child[i]] ELSE h.p[i]
        /\ r.p[j] = IF j \in W \cap D THEN h.p[child[j]] ELSE h.p[j]
    BY <2>1, <1>13
  <2>3. i \in D => key[h.p[i]] <= key[h.p[child[i]]] /\ key[h.p[child[i]]] \in Int
    <3> SUFFICES ASSUME i \in D PROVE key[h.p[i]] <= key[h.p[child[i]]] /\ key[h.p[child[i]]] \in Int
      OBVIOUS
    <3>1. child[i] \in 2..n /\ child[i] \div 2 = i /\ child[i] \in 1..n
      BY <1>3, <1>c
    <3> QED BY <3>1, <1>o, <1>k
  <2>4. j \in D => key[h.p[child[j]]] <= key[h.p[i]] /\ key[h.p[child[j]]] \in Int
    BY <1>3, <1>c, <1>k
  <2>5. key[r.p[j]] <= key[r.p[i]]
    BY <2>1, <2>2, <2>3, <2>4, SMTT(30)
  <2>6. ASSUME j = end PROVE i \notin W
    <3> SUFFICES ASSUME i \in W PROVE FALSE
      OBVIOUS
    <3>1. CASE i = hole
      BY <3>1, <2>6, <2>1, <1>6, <1>1
    <3>2. CASE i # hole
      <4>1. PICK k \in W \cap D : child[k] = i
        BY <3>2, <1>p
      <4>2. k = end
        BY <4>1, <2>6, <1>3
      <4> QED BY <4>1, <4>2, <1>5
    <3> QED BY <3>1, <3>2
  <2>7. ASSUME j = end PROVE key[e] <= key[r.p[i]]
    BY <2>6, <2>7, <2>2, <1>e
  <2>8. ASSUME j = end, end > 1 PROVE key[r.p[end \div 2]] <= key[r.p[i]]
    <3> DEFINE k == end \div 2
    <3>1. end \in 2..n /\ end \in Nat
      BY <2>8, <2>1
    <3>2. k \in 1..n /\ key[h.p[k]] <= key[h.p[end]] /\ key[h.p[k]] \in Int /\ key[h.p[end]] \in Int
      BY <3>1, <1>d, <1>o, <1>k, <1>14
    <3>3. r.p[k] = IF k \in W \cap D THEN h.p[child[k]] ELSE h.p[k]
      BY <3>2, <1>13
    <3>4. k \in D => key[h.p[child[k]]] <= key[h.p[end]] /\ key[h.p[child[k]]] \in Int
      BY <3>1, <1>3, <1>c, <1>k
    <3>5. r.p[i] = h.p[i] /\ key[h.p[end]] <= key[h.p[i]]
      BY <2>6, <2>8, <2>1, <2>2
    <3> SUFFICES key[r.p[k]] <= key[r.p[i]]
      OBVIOUS
    <3> HIDE DEF k
    <3> QED BY <3>2, <3>3, <3>4, <3>5, <2>1, SMTT(30)
  <2> QED BY <2>5, <2>7, <2>8
<1>18. OrderedBut(r, key, n, end, e)
  BY <1>17 DEF OrderedBut
<1>19. \A x \in E \ S : r.idx[x] = h.idx[x]
  BY <1>10, <1>12
<1>20. Carried(r, h, E, S, key, n, end, e)
  BY <1>12, <1>14, <1>16, <1>18, <1>19 DEF Carried
<1> QED BY <1>20 DEF MovedUp, r, f

(* min_heap_shift_down_ fills the hole with e, loses nobody and leaves a heap. *)
LEMMA ShiftDownLemma ==
  ASSUME NEW E, NEW h \in HeapOf(E), NEW key \in [E -> Int], NEW S, S \subseteq E,
         NEW e \in E, e \notin S, NEW n \in 1..Len(h.p), NEW hole \in 1..n,
         HasBut(h, S, n, hole), OrderedTo(h, key, n)
  PROVE  /\ Filled(ShiftDown(h, key, hole, e, n), h, E, S \cup {e}, n)
         /\ OrderedTo(ShiftDown(h, key, hole, e, n), key, n)
<1> DEFINE child == Sinks(h, key, e, n)
           way == Walk(hole, child)
           end == CHOOSE i \in way : i \notin DOMAIN child
           carried == MovedUp(h, way, end, child)
           r == ShiftDown(h, key, hole, e, n)
<1>1. r = ShiftUp(carried, key, end, e)
  BY DEF ShiftDown, Sinks, MovedUp
<1>2. n \in Nat /\ n <= Len(h.p) /\ Len(h.p) \in Nat
  BY DEF HeapOf
<1>3. /\ DOMAIN child \subseteq 1..n
      /\ \A i \in DOMAIN child : child[i] \in 1..n /\ child[i] \div 2 = i
  <2>1. ASSUME NEW i \in DOMAIN child
        PROVE  i \in 1..n \div 2 /\ child[i] = LesserChild(h, key, i, n)
    BY DEF Sinks
  <2> HIDE DEF child
  <2>2. ASSUME NEW i \in DOMAIN child
        PROVE  i \in 1..n /\ child[i] \in 1..n /\ child[i] \div 2 = i
    <3>1. child[i] \in 2..n /\ child[i] \div 2 = i
      BY <2>1, LesserChildLemma
    <3>2. i \in 1..n
      BY <2>1, <1>2
    <3>3. child[i] \in 1..n
      BY <3>1, <1>2
    <3> QED BY <3>1, <3>2, <3>3
  <2> QED BY <2>2
<1> HIDE DEF child
<1>4. IsWayDown(way, child, hole, n)
  BY <1>2, <1>3, DownLemma
<1>5. end \in way /\ end \notin DOMAIN child
  BY <1>4 DEF IsWayDown
<1>6. child = Sinks(h, key, e, n) /\ way = Walk(hole, child)
  BY DEF child
<1> HIDE DEF way, end
<1>8. Carried(carried, h, E, S, key, n, end, e)
  BY <1>5, <1>6, CarryLemma
<1> HIDE DEF r
<1>9. /\ carried \in HeapOf(E) /\ Len(carried.p) = Len(h.p) /\ end \in 1..n
      /\ HasBut(carried, S, n, end) /\ OrderedBut(carried, key, n, end, e)
      /\ n \in 1..Len(carried.p) /\ \A x \in E \ S : carried.idx[x] = h.idx[x]
  BY <1>8 DEF Carried
<1>10. Filled(r, carried, E, S \cup {e}, n)
  <2> HIDE DEF carried
  <2> QED BY <1>1, <1>9, ShiftUpHas
<1>11. OrderedTo(r, key, n)
  <2> HIDE DEF carried
  <2> QED BY <1>1, <1>9, ShiftUpOrdered
<1>12. \A i \in 1..Len(h.p) : i > n => carried.p[i] = h.p[i]
  <2> DEFINE f == [i \in way \ {end} |-> h.p[child[i]]]
  <2>1. \A i \in 1..Len(h.p) : carried.p[i] = IF i \in DOMAIN f THEN f[i] ELSE h.p[i]
    BY DEF MovedUp, Put, Places, HeapOf
  <2>2. way \subseteq 1..n
    BY <1>2, <1>4 DEF IsWayDown
  <2>3. ASSUME NEW i \in 1..Len(h.p), i > n PROVE i \notin DOMAIN f
    BY <2>2, <2>3, <1>2
  <2> HIDE DEF f, carried
  <2> QED BY <2>1, <2>3
<1> HIDE DEF carried
<1>13. Filled(r, h, E, S \cup {e}, n)
  BY <1>9, <1>10, <1>12 DEF Filled
<1> QED BY <1>11, <1>13 DEF r

-----------------------------------------------------------------------------
(* A heap that has the events S in its array and nothing else, in order. *)
IsHeap(h, key, E, S) ==
  /\ h \in HeapOf(E) /\ S \subseteq E
  /\ Has(h, S, Len(h.p)) /\ OrderedTo(h, key, Len(h.p))
  /\ \A x \in E \ S : h.idx[x] = NoPlace

LEMMA IsHeapLemma ==
  ASSUME NEW E, NEW h \in HeapOf(E), NEW key \in [E -> Int], NEW S
  PROVE  IsHeap(h, key, E, S) <=> S \subseteq E /\ Holds(h, S) /\ Ordered(h, key)
<1>1. /\ Len(h.p) \in Nat /\ DOMAIN h.p = 1..Len(h.p) /\ DOMAIN h.idx = E
      /\ \A i \in 1..Len(h.p) : key[h.p[i]] \in Int
  BY DEF HeapOf
<1>2. Holds(h, S) <=> Has(h, S, Len(h.p)) /\ \A x \in E \ S : h.idx[x] = NoPlace
  BY <1>1 DEF Holds, Has, Places
<1>3. \A i \in 2..Len(h.p) : i \in 1..Len(h.p) /\ i > 1 /\ i \div 2 \in 1..Len(h.p)
  BY <1>1
<1>4. \A i \in 1..Len(h.p) : i > 1 => i \in 2..Len(h.p)
  BY <1>1
<1>5. \A i \in 2..Len(h.p) :
        key[h.p[i \div 2]] <= key[h.p[i]] <=> ~ (key[h.p[i \div 2]] > key[h.p[i]])
  <2> TAKE i \in 2..Len(h.p)
  <2>1. key[h.p[i \div 2]] \in Int /\ key[h.p[i]] \in Int
    BY <1>1, <1>3
  <2> QED BY <2>1
<1>6. Ordered(h, key) <=> OrderedTo(h, key, Len(h.p))
  BY <1>1, <1>3, <1>4, <1>5 DEF Ordered, OrderedTo, Places, Greater
<1> QED BY <1>2, <1>6 DEF IsHeap

LEMMA EmptyHeapLemma ==
  ASSUME NEW E, NEW key
  PROVE  IsHeap(EmptyHeap(E), key, E, {}) /\ Len(EmptyHeap(E).p) = 0
BY DEF EmptyHeap, IsHeap, HeapOf, Has, OrderedTo, NoPlace

(* Heap r has d events more than h. *)
Grown(r, h, d) == Len(r.p) = Len(h.p) + d

(* min_heap_push *)
LEMMA PushLemma ==
  ASSUME NEW E, NEW key \in [E -> Int], NEW S, NEW h, IsHeap(h, key, E, S),
         NEW e \in E, e \notin S
  PROVE  /\ IsHeap(Push(h, key, e), key, E, S \cup {e})
         /\ Grown(Push(h, key, e), h, 1)
<1> DEFINE n == Len(h.p) + 1
           q == Append(h.p, e)
           g == [h EXCEPT !.p = q]
           r == Push(h, key, e)
<1>1. /\ h.p \in Seq(E) /\ h.idx \in [E -> Nat] /\ h = [p |-> h.p, idx |-> h.idx]
      /\ Len(h.p) \in Nat /\ S \subseteq E
  BY DEF IsHeap, HeapOf
<1>2. /\ q \in Seq(E) /\ Len(q) = n /\ \A i \in 1..Len(h.p) : q[i] = h.p[i]
  BY <1>1, AppendProperties
<1>3. r = ShiftUp(g, key, n, e)
  BY DEF Push
<1> HIDE DEF q
<1>4. g \in HeapOf(E) /\ g.p = q /\ g.idx = h.idx
  BY <1>1, <1>2 DEF HeapOf
<1> HIDE DEF g, r
<1>5. n \in 1..Len(g.p) /\ n \in 1..n /\ Len(g.p) = n
  BY <1>1, <1>2, <1>4
<1>6. (1..n) \ {n} = 1..Len(h.p)
  BY <1>1
<1>7. HasBut(g, S, n, n)
  <2>1. Has(h, S, Len(h.p))
    BY DEF IsHeap
  <2>2. \A i \in 1..Len(h.p) : g.p[i] = h.p[i]
    BY <1>2, <1>4
  <2>3. HasBut(g, S, n, n) <=> /\ {g.p[i] : i \in 1..Len(h.p)} = S
                               /\ \A i \in 1..Len(h.p) : g.idx[g.p[i]] = i
    BY <1>6 DEF HasBut
  <2> HIDE DEF n
  <2> QED BY <2>1, <2>2, <2>3, <1>4 DEF Has
<1>8. OrderedBut(g, key, n, n, e)
  <2>1. \A i \in 2..n : i \div 2 # n /\ (i # n => i \in 2..Len(h.p) /\ i \in 1..Len(h.p) /\ i \div 2 \in 1..Len(h.p))
    BY <1>1
  <2>2. \A i \in 2..Len(h.p) : key[h.p[i \div 2]] <= key[h.p[i]]
    BY DEF IsHeap, OrderedTo
  <2> QED BY <2>1, <2>2, <1>2, <1>4 DEF OrderedBut
<1> HIDE DEF n
<1>9. Filled(r, g, E, S \cup {e}, n)
  BY <1>3, <1>4, <1>5, <1>7, ShiftUpHas
<1>10. OrderedTo(r, key, n)
  BY <1>3, <1>4, <1>5, <1>8, ShiftUpOrdered
<1>11. /\ r \in HeapOf(E) /\ Len(r.p) = n /\ Has(r, S \cup {e}, n)
       /\ \A x \in E \ (S \cup {e}) : r.idx[x] = NoPlace
  BY <1>4, <1>5, <1>9 DEF Filled, IsHeap
<1> QED BY <1>1, <1>10, <1>11 DEF IsHeap, Grown, n, r

(* min_heap_erase when the event is the last of the array: nobody moves. *)
LEMMA EraseLastLemma ==
  ASSUME NEW E, NEW key \in [E -> Int], NEW S, NEW h, IsHeap(h, key, E, S),
         NEW e \in S, h.idx[e] = Len(h.p)
  PROVE  LET r == ShiftDown(h, key, h.idx[e], h.p[Len(h.p)], Len(h.p) - 1)
         IN  /\ r \in HeapOf(E) /\ Len(r.p) = Len(h.p)
             /\ \A i \in 1..Len(h.p) : r.p[i] = h.p[i]
             /\ \A x \in E \ {e} : r.idx[x] = h.idx[x]
<1> DEFINE m == Len(h.p)
           child == Sinks(h, key, e, m - 1)
           way == Walk(m, child)
           end == CHOOSE i \in way : i \notin DOMAIN child
           D == {i \in 2..m : Greater(key, h.p[i \div 2], e)}
           parent == [i \in D |-> i \div 2]
           r == ShiftDown(h, key, m, e, m - 1)
<1>1. /\ h \in HeapOf(E) /\ h.p \in Seq(E) /\ h.idx \in [E -> Nat] /\ m \in Nat /\ S \subseteq E
      /\ h = [p |-> h.p, idx |-> h.idx]
  BY DEF IsHeap, HeapOf
<1>0. h \in HeapOf(E)
  BY <1>1
<1>2. m \in 1..m /\ h.p[m] = e
  <2>1. PICK i \in 1..m : h.p[i] = e /\ h.idx[e] = i
    BY DEF IsHeap, Has
  <2> QED BY <2>1
<1>3. m \notin DOMAIN child
  <2>1. DOMAIN child \subseteq 1..(m - 1) \div 2
    BY DEF Sinks
  <2>2. m \notin 1..(m - 1) \div 2
    BY <1>1
  <2> QED BY <2>1, <2>2
<1>4. way = {m} /\ end = m
  <2>1. way = {m}
    <3> HIDE DEF child, m
    <3> QED BY <1>3, WalkOnLemma
  <2> HIDE DEF way
  <2> QED BY <2>1, <1>3
<1>5. r = ShiftUp(Put(h, [i \in way \ {end} |-> h.p[child[i]]]), key, end, e)
  BY DEF ShiftDown, Sinks
<1> DEFINE c == Put(h, [i \in {} |-> h.p[child[i]]])
<1>6. r = ShiftUp(c, key, m, e)
  <2> HIDE DEF r, way, end, child, m
  <2> QED BY <1>4, <1>5
<1>7. /\ c \in HeapOf(E) /\ Len(c.p) = m /\ \A i \in 1..m : c.p[i] = h.p[i]
      /\ \A x \in E : c.idx[x] = h.idx[x]
  <2> DEFINE f == [i \in {} |-> h.p[child[i]]]
  <2>1. DOMAIN f = {}
    OBVIOUS
  <2> HIDE DEF f
  <2>0. DOMAIN f \subseteq 1..Len(h.p) /\ \A i \in DOMAIN f : f[i] \in E
    BY <2>1
  <2>2. /\ Put(h, f) \in HeapOf(E) /\ Len(Put(h, f).p) = Len(h.p)
        /\ \A i \in 1..Len(h.p) : Put(h, f).p[i] = IF i \in DOMAIN f THEN f[i] ELSE h.p[i]
        /\ \A x \in E : (\A i \in DOMAIN f : f[i] # x) => Put(h, f).idx[x] = h.idx[x]
    BY <1>0, <2>0, PutLemma
  <2>3. c = Put(h, f)
    BY DEF f
  <2> HIDE DEF c
  <2> QED BY <2>1, <2>2, <2>3
<1> HIDE DEF c, r, child, way, end
<1>8. \A i \in 2..m : i \div 2 \in 1..m
  BY <1>1
<1> DEFINE Dc == {i \in 2..Len(c.p) : Greater(key, c.p[i \div 2], e)}
           up == [i \in Dc |-> i \div 2]
<1>9. m \notin Dc
  <2> SUFFICES ASSUME m \in 2..m, key[c.p[m \div 2]] > key[e] PROVE FALSE
    BY <1>7 DEF Greater
  <2>1. key[h.p[m \div 2]] <= key[h.p[m]]
    BY DEF IsHeap, OrderedTo
  <2>2. h.p[m \div 2] \in E /\ c.p[m \div 2] = h.p[m \div 2]
    <3>1. m \div 2 \in 1..m
      BY <1>8
    <3>2. \A i \in 1..m : h.p[i] \in E
      BY <1>1
    <3> QED BY <3>1, <3>2, <1>7
  <2>3. key[h.p[m \div 2]] \in Int /\ key[e] \in Int
    BY <2>2, <1>1
  <2> QED BY <2>1, <2>2, <2>3, <1>2
<1>10. Walk(m, up) = {m}
  <2>1. m \notin DOMAIN up
    BY <1>9
  <2> HIDE DEF up, m
  <2> QED BY <2>1, WalkOnLemma
<1> DEFINE f == [i \in Walk(m, up) |-> IF i \in DOMAIN up THEN c.p[up[i]] ELSE e]
<1>11. r = Put(c, f)
  BY <1>6 DEF ShiftUp
<1>12. DOMAIN f = {m} /\ f[m] = e
  BY <1>9, <1>10
<1> HIDE DEF f, up, Dc
<1>13. /\ r \in HeapOf(E) /\ Len(r.p) = m
       /\ \A i \in 1..m : r.p[i] = IF i \in DOMAIN f THEN f[i] ELSE c.p[i]
       /\ \A x \in E : (\A i \in DOMAIN f : f[i] # x) => r.idx[x] = c.idx[x]
  <2>1. DOMAIN f \subseteq 1..Len(c.p) /\ \A i \in DOMAIN f : f[i] \in E
    BY <1>1, <1>2, <1>7, <1>12
  <2>2. /\ Put(c, f) \in HeapOf(E) /\ Len(Put(c, f).p) = Len(c.p)
        /\ \A i \in 1..Len(c.p) : Put(c, f).p[i] = IF i \in DOMAIN f THEN f[i] ELSE c.p[i]
        /\ \A x \in E : (\A i \in DOMAIN f : f[i] # x) => Put(c, f).idx[x] = c.idx[x]
    BY <2>1, <1>7, PutLemma, SMTT(30)
  <2> HIDE DEF m
  <2> QED BY <2>2, <1>7, <1>11
<1>14. \A i \in 1..m : r.p[i] = h.p[i]
  BY <1>2, <1>7, <1>12, <1>13
<1>15. \A x \in E \ {e} : r.idx[x] = h.idx[x]
  BY <1>7, <1>12, <1>13
<1>16. r = ShiftDown(h, key, h.idx[e], h.p[Len(h.p)], Len(h.p) - 1)
  BY <1>2 DEF r
<1> HIDE DEF m
<1>17. m = Len(h.p)
  BY DEF m
<1> QED BY <1>13, <1>14, <1>15, <1>16, <1>17

(* min_heap_erase *)
LEMMA EraseLemma ==
  ASSUME NEW E, NEW key \in [E -> Int], NEW S, NEW h, IsHeap(h, key, E, S), NEW e \in S
  PROVE  /\ IsHeap(Erase(h, key, e), key, E, S \ {e})
         /\ Len(Erase(h, key, e).p) = Len(h.p) - 1
<1> DEFINE n == Len(h.p) - 1
           last == h.p[Len(h.p)]
           x == h.idx[e]
           s == ShiftDown(h, key, x, last, n)
           r == Erase(h, key, e)
<1>1. /\ h \in HeapOf(E) /\ h.p \in Seq(E) /\ h.idx \in [E -> Nat] /\ Len(h.p) \in Nat
      /\ S \subseteq E /\ Has(h, S, Len(h.p)) /\ OrderedTo(h, key, Len(h.p))
      /\ \A y \in E \ S : h.idx[y] = NoPlace
  BY DEF IsHeap, HeapOf
<1>2. x \in 1..Len(h.p) /\ h.p[x] = e
  <2>1. PICK i \in 1..Len(h.p) : h.p[i] = e /\ h.idx[e] = i
    BY <1>1 DEF Has
  <2> QED BY <2>1
<1>3. n \in Nat /\ n + 1 = Len(h.p) /\ Len(h.p) \in 1..Len(h.p) /\ last \in S /\ h.idx[last] = n + 1
  <2>1. n \in Nat /\ n + 1 = Len(h.p) /\ Len(h.p) \in 1..Len(h.p)
    BY <1>1, <1>2
  <2>2. h.p[Len(h.p)] \in S /\ h.idx[h.p[Len(h.p)]] = Len(h.p)
    BY <2>1, <1>1 DEF Has
  <2> QED BY <2>1, <2>2
<1>4. r = [p |-> SubSeq(s.p, 1, n), idx |-> [s.idx EXCEPT ![e] = NoPlace]]
  BY DEF Erase
<1>5. /\ s \in HeapOf(E) /\ Len(s.p) = n + 1
      /\ Has(s, S \ {e}, n) /\ OrderedTo(s, key, n)
      /\ \A y \in E \ S : s.idx[y] = NoPlace
  <2>1. CASE x = Len(h.p)
    <3>1. /\ s \in HeapOf(E) /\ Len(s.p) = Len(h.p)
          /\ \A i \in 1..Len(h.p) : s.p[i] = h.p[i]
          /\ \A y \in E \ {e} : s.idx[y] = h.idx[y]
      BY <2>1, EraseLastLemma
    <3> HIDE DEF s
    <3>2. last = e
      BY <2>1, <1>2
    <3>3. \A i \in 1..n : i \in 1..Len(h.p) /\ i # x
      BY <1>1, <2>1
    <3>4. \A i \in 1..n : s.p[i] = h.p[i] /\ h.p[i] \in S \ {e} /\ h.idx[h.p[i]] = i /\ s.idx[s.p[i]] = i
      <4> TAKE i \in 1..n
      <4>1. s.p[i] = h.p[i] /\ h.p[i] \in S /\ h.idx[h.p[i]] = i
        BY <3>1, <3>3, <1>1 DEF Has
      <4>2. h.p[i] # e
        BY <4>1, <3>3
      <4> QED BY <4>1, <4>2, <3>1, <1>1
    <3>5. \A y \in S \ {e} : \E i \in 1..n : s.p[i] = y
      <4> TAKE y \in S \ {e}
      <4>1. PICK i \in 1..Len(h.p) : h.p[i] = y
        BY <1>1 DEF Has
      <4>2. i \in 1..n
        BY <4>1, <2>1, <1>2, <1>1
      <4> QED BY <4>1, <4>2, <3>4
    <3>6. Has(s, S \ {e}, n)
      BY <3>4, <3>5 DEF Has
    <3>7. OrderedTo(s, key, n)
      <4>1. \A i \in 2..n : i \in 1..n /\ i \div 2 \in 1..n /\ i \in 2..Len(h.p)
        BY <1>1, SMTT(30)
      <4> QED BY <4>1, <3>4, <1>1 DEF OrderedTo
    <3> QED BY <3>1, <3>6, <3>7, <1>1, <1>3
  <2>2. CASE x # Len(h.p)
    <3>1. x \in 1..n /\ n \in 1..Len(h.p)
      BY <2>2, <1>1, <1>2, SMTT(30)
    <3>2. last # e
      BY <2>2, <1>3
    <3> DEFINE rest == S \ {e, last}
    <3>3. rest \subseteq E /\ last \in E /\ last \notin rest /\ rest \cup {last} = S \ {e}
      BY <3>2, <1>1, <1>3
    <3>4. HasBut(h, rest, n, x)
      <4>1. \A i \in (1..n) \ {x} : i \in 1..Len(h.p) /\ i # n + 1
        BY <1>1
      <4>2. \A i \in (1..n) \ {x} : h.p[i] \in rest /\ h.idx[h.p[i]] = i
        BY <4>1, <1>1, <1>3 DEF Has
      <4>3. \A y \in rest : \E i \in (1..n) \ {x} : h.p[i] = y
        <5> TAKE y \in rest
        <5>1. PICK i \in 1..Len(h.p) : h.p[i] = y
          BY <1>1 DEF Has
        <5>2. i # x /\ i # Len(h.p)
          BY <5>1, <1>2
        <5>3. i \in 1..n
          BY <5>2, <1>1
        <5> QED BY <5>1, <5>2, <5>3
      <4> QED BY <4>2, <4>3 DEF HasBut
    <3>5. OrderedTo(h, key, n)
      <4>1. \A i \in 2..n : i \in 2..Len(h.p)
        BY <1>1
      <4> QED BY <4>1, <1>1 DEF OrderedTo
    <3>6. Filled(s, h, E, rest \cup {last}, n) /\ OrderedTo(s, key, n)
      <4> HIDE DEF n, last, x, rest
      <4> QED BY <3>1, <3>3, <3>4, <3>5, <1>1, ShiftDownLemma DEF s
    <3> HIDE DEF s, rest
    <3>7. Filled(s, h, E, S \ {e}, n)
      BY <3>3, <3>6
    <3> QED BY <3>6, <3>7, <1>1, <1>3 DEF Filled
  <2> QED BY <2>1, <2>2
<1> HIDE DEF s, x
<1> DEFINE q == SubSeq(s.p, 1, n)
<1>6. s.p \in Seq(E) /\ s.idx \in [E -> Nat]
  BY <1>5 DEF HeapOf
<1>7. q \in Seq(E) /\ Len(q) = n /\ \A i \in 1..n : q[i] = s.p[i]
  <2>1. \A i \in 1..n : i \in 1..Len(s.p) /\ s.p[i] \in E
    BY <1>3, <1>5, <1>6
  <2> HIDE DEF n
  <2> QED BY <2>1, <1>3, <1>5, <1>6, SubSeqProperties
<1>8. r.p = q /\ r.idx = [s.idx EXCEPT ![e] = NoPlace]
  BY <1>4
<1>9. r \in HeapOf(E)
  <2>1. [s.idx EXCEPT ![e] = NoPlace] \in [E -> Nat]
    BY <1>6 DEF NoPlace
  <2> HIDE DEF q
  <2> QED BY <2>1, <1>4, <1>7 DEF HeapOf, q
<1>a. \A y \in E : r.idx[y] = IF y = e THEN NoPlace ELSE s.idx[y]
  BY <1>1, <1>6, <1>8
<1> HIDE DEF q, r, n
<1>10. Has(r, S \ {e}, n)
  <2>1. {s.p[i] : i \in 1..n} = S \ {e} /\ \A i \in 1..n : s.idx[s.p[i]] = i
    BY <1>5 DEF Has
  <2>2. \A i \in 1..n : r.p[i] = s.p[i] /\ s.p[i] \in S \ {e}
    BY <2>1, <1>7, <1>8
  <2>3. \A i \in 1..n : r.idx[r.p[i]] = i
    BY <2>1, <2>2, <1>1, <1>a
  <2>4. {r.p[i] : i \in 1..n} = S \ {e}
    BY <2>1, <2>2
  <2> QED BY <2>3, <2>4 DEF Has
<1>11. OrderedTo(r, key, n)
  <2>1. \A i \in 2..n : i \in 1..n /\ i \div 2 \in 1..n
    BY <1>3
  <2> QED BY <2>1, <1>5, <1>7, <1>8 DEF OrderedTo
<1>12. \A y \in E \ (S \ {e}) : r.idx[y] = NoPlace
  BY <1>5, <1>a
<1> QED BY <1>1, <1>7, <1>8, <1>9, <1>10, <1>11, <1>12 DEF IsHeap, r, n

(* min_heap_top: nothing in a heap is due before its first event. *)
LEMMA TopLemma ==
  ASSUME NEW E, NEW key \in [E -> Int], NEW S, NEW h, IsHeap(h, key, E, S), NEW e \in S
  PROVE  h.p # <<>> /\ h.p[1] \in S /\ key[h.p[1]] <= key[e]
<1> DEFINE m == Len(h.p)
           Late == {i \in 1..m : key[h.p[i]] < key[h.p[1]]}
<1>1. /\ h.p \in Seq(E) /\ m \in Nat /\ \A i \in 1..m : h.p[i] \in E /\ key[h.p[i]] \in Int
      /\ Has(h, S, m) /\ \A i \in 2..m : key[h.p[i \div 2]] <= key[h.p[i]]
  BY DEF IsHeap, HeapOf, OrderedTo
<1>2. PICK k \in 1..m : h.p[k] = e
  BY <1>1 DEF Has
<1>3. 1 \in 1..m
  BY <1>1, <1>2
<1>4. h.p # <<>> /\ h.p[1] \in S
  BY <1>1, <1>3 DEF Has
<1>5. Late = {}
  <2> SUFFICES ASSUME Late # {} PROVE FALSE
    OBVIOUS
  <2>1. Late \subseteq Nat
    OBVIOUS
  <2>2. PICK i \in Late : \A j \in Late : i <= j
    <3> HIDE DEF Late
    <3> QED BY <2>1, LeastLemma
  <2>3. i \in 1..m /\ key[h.p[i]] < key[h.p[1]] /\ key[h.p[1]] \in Int /\ key[h.p[i]] \in Int
    BY <1>1, <1>3
  <2>4. i # 1
    BY <2>3
  <2>5. i \in 2..m /\ i \div 2 \in 1..m /\ i \div 2 < i
    BY <2>3, <2>4, <1>1
  <2>6. key[h.p[i \div 2]] <= key[h.p[i]] /\ key[h.p[i \div 2]] \in Int
    BY <2>5, <1>1
  <2>7. i \div 2 \in Late
    BY <2>3, <2>5, <2>6
  <2>8. i <= i \div 2
    BY <2>2, <2>7
  <2> QED BY <2>5, <2>8
<1>6. ~ (key[h.p[k]] < key[h.p[1]])
  BY <1>2, <1>5
<1>7. key[h.p[1]] <= key[h.p[k]]
  BY <1>1, <1>2, <1>3, <1>6
<1> QED BY <1>2, <1>4, <1>7

(* min_heap_size: the array is as long as there are events in it. *)
LEMMA SizeLemma ==
  ASSUME NEW E, NEW key, NEW S, NEW h, IsHeap(h, key, E, S)
  PROVE  IsFiniteSet(S) /\ Cardinality(S) = Len(h.p) /\ h.p \in Seq(E)
<1> DEFINE m == Len(h.p)
           f == [i \in 1..m |-> h.p[i]]
<1>1. m \in Nat /\ Has(h, S, m) /\ h.p \in Seq(E)
  BY DEF IsHeap, HeapOf
<1>2. f \in Bijection(1..m, S)
  <2>1. \A i \in 1..m : f[i] \in S /\ h.idx[f[i]] = i
    BY <1>1 DEF Has
  <2>2. \A i, j \in 1..m : f[i] = f[j] => i = j
    BY <2>1
  <2>3. \A s \in S : \E i \in 1..m : f[i] = s
    BY <1>1 DEF Has
  <2>4. f \in [1..m -> S]
    BY <2>1
  <2> HIDE DEF f
  <2> QED BY <2>2, <2>3, <2>4 DEF Bijection, Injection, Surjection, IsInjective
<1> HIDE DEF f
<1>3. IsFiniteSet(1..m) /\ Cardinality(1..m) = m
  BY <1>1, FS_Interval
<1>4. IsFiniteSet(S) /\ Cardinality(S) = m
  <2>1. ExistsBijection(1..m, S)
    BY <1>2 DEF ExistsBijection
  <2> HIDE DEF m
  <2> QED BY <1>3, <2>1, FS_Bijection
<1> QED BY <1>1, <1>4

-----------------------------------------------------------------------------
(* The loop is asked to end inside of a callback only, and goes to its top at once. *)
AskedInCallback ==
  /\ gotterm \in BOOLEAN
  /\ gotterm => pc \in {"callback", "top"}

(* Only Process begins a callback, and it never runs with event_gotterm. *)
LEMMA AskedStep == AskedInCallback /\ [Next]_vars => AskedInCallback'
<1> SUFFICES ASSUME AskedInCallback, [Next]_vars PROVE AskedInCallback'
  OBVIOUS
<1> USE DEF AskedInCallback
<1>1. CASE UNCHANGED vars
  BY <1>1 DEF vars, loop
<1>2. CASE Tick \/ SetClock
  BY <1>2 DEF Tick, SetClock, loop
<1>3. ASSUME NEW e \in Timer, AddTimerFails(e) \/ \E d \in Delays : AddTimer(e, d)
      PROVE  AskedInCallback'
  BY <1>3 DEF AddTimerFails, AddTimer, Calling
<1>4. ASSUME NEW e \in Io, NEW fd \in Fd, AddIo(e, fd)
      PROVE  AskedInCallback'
  BY <1>4 DEF AddIo, Calling
<1>5. ASSUME NEW e \in Event, Del(e)
      PROVE  AskedInCallback'
  BY <1>5 DEF Del, Calling
<1>6. CASE LoopExit
  BY <1>6 DEF LoopExit, Calling
<1>7. CASE Enter \/ LoopExits
  BY <1>7 DEF Enter, LoopExits
<1>8. CASE Correct
  BY <1>8 DEF Correct
<1>9. CASE GoToSleep \/ NoEvents
  BY <1>9 DEF GoToSleep, NoEvents
<1>10. CASE Dispatch
  BY <1>10 DEF Dispatch
<1>11. CASE Expire \/ NoneExpires
  BY <1>11 DEF Expire, NoneExpires, loop
<1>12. CASE Process \/ Return \/ Processed
  BY <1>12 DEF Process, Return, Processed
<1>13. QED
  BY <1>1, <1>2, <1>3, <1>4, <1>5, <1>6, <1>7, <1>8, <1>9, <1>10, <1>11, <1>12 DEF Next

(* After event_loopexit no further callback is called: a worker forked inside of
   a callback never serves what it inherited from the master. *)
THEOREM EvLoopExitIsFinal == Spec => ExitIsFinal
<1>1. Init => AskedInCallback
  BY DEF Init, AskedInCallback
<1>2. AskedInCallback /\ [Next]_vars => [gotterm /\ pc' = "callback" => pc = "callback"]_vars
  <2> SUFFICES ASSUME AskedInCallback, Next, gotterm, pc = "top"
               PROVE  pc' # "callback"
    BY DEF AskedInCallback
  <2>1. ASSUME NEW e \in Timer, AddTimerFails(e) \/ \E d \in Delays : AddTimer(e, d)
        PROVE  FALSE
    BY <2>1 DEF AddTimerFails, AddTimer, Calling
  <2>2. ASSUME NEW e \in Io, NEW fd \in Fd, AddIo(e, fd)
        PROVE  FALSE
    BY <2>2 DEF AddIo, Calling
  <2>3. ASSUME NEW e \in Event, Del(e)
        PROVE  FALSE
    BY <2>3 DEF Del, Calling
  <2>4. CASE Tick \/ SetClock
    BY <2>4 DEF Tick, SetClock, loop
  <2>5. CASE LoopExits
    BY <2>5 DEF LoopExits
  <2>6. CASE LoopExit \/ Enter \/ Correct \/ GoToSleep \/ NoEvents
    BY <2>6 DEF LoopExit, Calling, Enter, Correct, GoToSleep, NoEvents
  <2>7. CASE Dispatch
    BY <2>7 DEF Dispatch
  <2>8. CASE Expire \/ NoneExpires \/ Process \/ Return \/ Processed
    BY <2>8 DEF Expire, NoneExpires, Process, Return, Processed
  <2>9. QED
    BY <2>1, <2>2, <2>3, <2>4, <2>5, <2>6, <2>7, <2>8 DEF Next
<1>3. QED
  BY <1>1, <1>2, AskedStep, PTL DEF Spec, ExitIsFinal

-----------------------------------------------------------------------------
(* The active queue has no event twice. *)
Distinct(s) == \A i, j \in DOMAIN s : s[i] = s[j] => i = j

(* While nobody sets the clock it shows the time, so every timer is set to the
   time it is meant for, whatever the heap does with it, and no timer is active
   before its time. *)
ByTheClock ==
  clock_set = "never" =>
    /\ skew = 0 /\ event_tv <= time
    /\ pc = "expire" => now <= time
    /\ \A e \in Timer : ev_timeout[e] = due[e]
    /\ \A e \in Timer \cap ToSet(active) : due[e] <= time

EarlyTypes ==
  /\ time \in Int /\ skew \in Int /\ event_tv \in Int /\ now \in Int
  /\ ev_timeout \in [Timer -> Int] /\ due \in [Timer -> Int]
  /\ active \in Seq(ToSet(active)) /\ Distinct(active)
  /\ evread \in [Fd -> Io \cup {None}] /\ polled \subseteq Fd

EarlyInv == EarlyTypes /\ ByTheClock

(* A sequence without its i-th element. *)
LEMMA CutLemma ==
  ASSUME NEW T, NEW s \in Seq(T), NEW i \in 1..Len(s)
  PROVE  /\ RemoveAt(s, i) \in Seq(T)
         /\ Len(RemoveAt(s, i)) = Len(s) - 1
         /\ \A j \in 1..Len(s) - 1 :
              RemoveAt(s, i)[j] = IF j < i THEN s[j] ELSE s[j + 1]
<1> DEFINE l == SubSeq(s, 1, i - 1)
           r == SubSeq(s, i + 1, Len(s))
<1>1. Len(s) \in Nat /\ i \in Nat /\ i >= 1 /\ i <= Len(s)
  OBVIOUS
<1>2. l \in Seq(T) /\ Len(l) = i - 1 /\ \A j \in 1..i - 1 : l[j] = s[j]
  <2>1. \A j \in 1..i - 1 : s[j] \in T
    BY <1>1
  <2>2. QED
    BY <1>1, <2>1, SubSeqProperties
<1>3. r \in Seq(T) /\ Len(r) = Len(s) - i /\ \A j \in 1..Len(s) - i : r[j] = s[i + j]
  <2>1. \A j \in i + 1..Len(s) : s[j] \in T
    BY <1>1
  <2>2. /\ r \in Seq(T) /\ Len(r) = IF i + 1 <= Len(s) THEN Len(s) - (i + 1) + 1 ELSE 0
        /\ \A j \in 1..Len(s) - (i + 1) + 1 : r[j] = s[i + 1 + j - 1]
    BY <1>1, <2>1, SubSeqProperties
  <2>3. QED
    BY <1>1, <2>2
<1> HIDE DEF l, r
<1>4. /\ l \o r \in Seq(T) /\ Len(l \o r) = Len(s) - 1
      /\ \A j \in 1..Len(s) - 1 : (l \o r)[j] = IF j <= i - 1 THEN l[j] ELSE r[j - (i - 1)]
  <2>1. Len(l) + Len(r) = Len(s) - 1
    BY <1>1, <1>2, <1>3
  <2>2. QED
    <3>1. /\ l \o r \in Seq(T) /\ Len(l \o r) = Len(l) + Len(r)
          /\ \A j \in 1..Len(l) + Len(r) :
               (l \o r)[j] = IF j <= Len(l) THEN l[j] ELSE r[j - Len(l)]
      BY <1>2, <1>3, ConcatProperties
    <3>2. QED
      BY <1>2, <2>1, <3>1
<1>5. ASSUME NEW j \in 1..Len(s) - 1
      PROVE  (l \o r)[j] = IF j < i THEN s[j] ELSE s[j + 1]
  <2>1. CASE j < i
    <3>1. j <= i - 1 /\ j \in 1..i - 1
      BY <1>1, <2>1
    <3>2. QED
      BY <1>2, <1>4, <2>1, <3>1
  <2>2. CASE ~ j < i
    <3>1. ~ j <= i - 1 /\ j - (i - 1) \in 1..Len(s) - i /\ i + (j - (i - 1)) = j + 1
      BY <1>1, <2>2
    <3>2. r[j - (i - 1)] = s[j + 1]
      BY <3>1, <1>3
    <3>3. QED
      BY <1>4, <2>2, <3>1, <3>2
  <2>3. QED
    BY <2>1, <2>2
<1>6. QED
  BY <1>4, <1>5 DEF RemoveAt, l, r

(* TAILQ_REMOVE takes an event out of the active queue, which had it once. *)
LEMMA RemoveFirstLemma ==
  ASSUME NEW s, s \in Seq(ToSet(s)), Distinct(s), NEW e
  PROVE  /\ RemoveFirst(s, e) \in Seq(ToSet(RemoveFirst(s, e)))
         /\ Distinct(RemoveFirst(s, e))
         /\ ToSet(RemoveFirst(s, e)) = ToSet(s) \ {e}
         /\ Len(RemoveFirst(s, e)) = Len(s) - One(e \in ToSet(s))
<1>1. CASE ~ \E i \in 1..Len(s) : s[i] = e
  BY <1>1 DEF RemoveFirst, ToSet, One
<1>2. CASE \E i \in 1..Len(s) : s[i] = e
  <2>1. PICK i \in 1..Len(s) : s[i] = e
    BY <1>2
  <2> DEFINE r == RemoveAt(s, i)
  <2>2. {j \in 1..Len(s) : s[j] = e} = {i}
    BY <2>1 DEF Distinct
  <2>3. Min({i}) = i
    BY <2>1 DEF Min
  <2>4. SelectInSeq(s, LAMBDA v : v = e) = i
    BY <2>2, <2>3 DEF SelectInSeq
  <2>5. RemoveFirst(s, e) = r
    BY <2>1, <2>4 DEF RemoveFirst
  <2>6. /\ Len(s) \in Nat /\ DOMAIN s = 1..Len(s)
        /\ r \in Seq(ToSet(s)) /\ Len(r) = Len(s) - 1
    BY <2>1, CutLemma
  <2>7. \A j \in 1..Len(r) : r[j] = IF j < i THEN s[j] ELSE s[j + 1]
    BY <2>1, <2>6, CutLemma
  <2> HIDE DEF r
  <2>8. DOMAIN r = 1..Len(r)
    BY <2>6
  <2>9. Distinct(r)
    <3> SUFFICES ASSUME NEW j \in 1..Len(r), NEW k \in 1..Len(r), r[j] = r[k]
                 PROVE  j = k
      BY <2>8 DEF Distinct
    <3> DEFINE at(m) == IF m < i THEN m ELSE m + 1
    <3>1. /\ at(j) \in DOMAIN s /\ at(k) \in DOMAIN s
          /\ at(j) = at(k) => j = k
      BY <2>1, <2>6
    <3>2. r[j] = s[at(j)] /\ r[k] = s[at(k)]
      BY <2>7
    <3> HIDE DEF at
    <3>3. at(j) = at(k)
      BY <3>1, <3>2 DEF Distinct
    <3> QED BY <3>1, <3>3
  <2>10. ToSet(r) = ToSet(s) \ {e}
    <3>1. ASSUME NEW j \in DOMAIN r PROVE r[j] \in ToSet(s) \ {e}
      <4>1. PICK k \in DOMAIN s : r[j] = s[k] /\ k # i
        <5>1. CASE j < i
          BY <5>1, <2>1, <2>6, <2>7, <2>8
        <5>2. CASE ~ j < i
          <6>1. r[j] = s[j + 1] /\ j + 1 \in DOMAIN s /\ j + 1 # i
            BY <5>2, <2>1, <2>6, <2>7, <2>8
          <6>2. QED
            BY <6>1
        <5>3. QED
          BY <5>1, <5>2
      <4>2. QED
        BY <4>1, <2>1, <2>6 DEF ToSet, Distinct
    <3>2. ASSUME NEW j \in DOMAIN s, s[j] # e PROVE \E k \in DOMAIN r : r[k] = s[j]
      <4>1. CASE j < i
        BY <4>1, <2>1, <2>6, <2>7, <2>8
      <4>2. CASE j > i
        <5>1. j - 1 \in DOMAIN r /\ r[j - 1] = s[j]
          BY <4>2, <2>1, <2>6, <2>7, <2>8
        <5>2. QED
          BY <5>1
      <4>3. QED
        BY <4>1, <4>2, <3>2, <2>1, <2>6
    <3>3. QED
      BY <3>1, <3>2 DEF ToSet
  <2>11. r \in Seq(ToSet(r))
    <3>1. \A j \in 1..Len(r) : r[j] \in ToSet(r)
      BY <2>8 DEF ToSet
    <3>2. r = [j \in 1..Len(r) |-> r[j]] /\ Len(r) \in Nat
      BY <2>6
    <3>3. QED
      BY <3>1, <3>2
  <2>12. e \in ToSet(s)
    BY <2>1, <2>6 DEF ToSet
  <2>13. QED
    BY <2>5, <2>6, <2>9, <2>10, <2>11, <2>12 DEF r, One
<1>3. QED
  BY <1>1, <1>2

(* event_active puts an event at the end of the queue unless it is there. *)
LEMMA ActivatedLemma ==
  ASSUME NEW s, s \in Seq(ToSet(s)), Distinct(s), NEW e
  PROVE  /\ Activated(s, e) \in Seq(ToSet(Activated(s, e)))
         /\ Distinct(Activated(s, e))
         /\ ToSet(Activated(s, e)) = ToSet(s) \cup {e}
         /\ Len(Activated(s, e)) = Len(s) + One(e \notin ToSet(s))
<1>1. CASE e \in ToSet(s)
  BY <1>1 DEF Activated, One
<1>2. CASE e \notin ToSet(s)
  <2> DEFINE r == Append(s, e)
  <2>1. Len(s) \in Nat /\ DOMAIN s = 1..Len(s)
    OBVIOUS
  <2>2. s \in Seq(ToSet(s) \cup {e})
    <3>1. \A i \in 1..Len(s) : s[i] \in ToSet(s) \cup {e}
      BY <2>1 DEF ToSet
    <3>2. s = [i \in 1..Len(s) |-> s[i]]
      BY <2>1
    <3>3. QED
      BY <2>1, <3>1, <3>2
  <2>3. /\ DOMAIN r = 1..(Len(s) + 1) /\ Len(r) = Len(s) + 1
        /\ r[Len(s) + 1] = e /\ \A i \in 1..Len(s) : r[i] = s[i]
    BY <2>1, <2>2, AppendProperties
  <2> HIDE DEF r
  <2>4. ToSet(r) = ToSet(s) \cup {e}
    BY <2>1, <2>3 DEF ToSet
  <2>5. Distinct(r)
    BY <1>2, <2>1, <2>3 DEF Distinct, ToSet
  <2>6. r \in Seq(ToSet(r))
    BY <2>2, <2>4, AppendProperties DEF r
  <2>7. QED
    BY <1>2, <2>3, <2>4, <2>5, <2>6 DEF Activated, r, One
<1>3. QED
  BY <1>1, <1>2

(* epoll_dispatch puts events that are not active at the end of the queue. *)
LEMMA JoinLemma ==
  ASSUME NEW s, s \in Seq(ToSet(s)), Distinct(s),
         NEW S, S \cap ToSet(s) = {}, NEW t \in Seq(S), Distinct(t)
  PROVE  /\ s \o t \in Seq(ToSet(s \o t))
         /\ Distinct(s \o t)
         /\ ToSet(s \o t) \subseteq ToSet(s) \cup S
         /\ ToSet(s) \subseteq ToSet(s \o t)
         /\ Len(s \o t) = Len(s) + Len(t)
<1> DEFINE U == ToSet(s) \cup S
           r == s \o t
<1>1. s \in Seq(U) /\ t \in Seq(U)
  <2>1. \A i \in 1..Len(s) : s[i] \in U
    BY DEF ToSet
  <2>2. s = [i \in 1..Len(s) |-> s[i]] /\ Len(s) \in Nat
    OBVIOUS
  <2>3. \A i \in 1..Len(t) : t[i] \in U
    OBVIOUS
  <2>4. t = [i \in 1..Len(t) |-> t[i]] /\ Len(t) \in Nat
    OBVIOUS
  <2>5. QED
    BY <2>1, <2>2, <2>3, <2>4
<1>2. /\ r \in Seq(U) /\ Len(r) = Len(s) + Len(t)
      /\ \A i \in 1..Len(s) + Len(t) : r[i] = IF i <= Len(s) THEN s[i] ELSE t[i - Len(s)]
  BY <1>1, ConcatProperties
<1>3. /\ Len(s) \in Nat /\ Len(t) \in Nat /\ DOMAIN s = 1..Len(s) /\ DOMAIN t = 1..Len(t)
      /\ DOMAIN r = 1..Len(r)
  BY <1>1, <1>2
<1> HIDE DEF r
<1>4. ASSUME NEW i \in DOMAIN r, NEW j \in DOMAIN r, r[i] = r[j]
      PROVE  i = j
  <2>1. CASE i <= Len(s) /\ j <= Len(s)
    <3>1. i \in DOMAIN s /\ j \in DOMAIN s /\ s[i] = s[j]
      BY <1>2, <1>3, <1>4, <2>1
    <3>2. QED
      BY <3>1 DEF Distinct
  <2>2. CASE ~ i <= Len(s) /\ ~ j <= Len(s)
    <3>1. /\ i - Len(s) \in DOMAIN t /\ j - Len(s) \in DOMAIN t
          /\ t[i - Len(s)] = t[j - Len(s)]
      BY <1>2, <1>3, <1>4, <2>2
    <3>2. i - Len(s) = j - Len(s)
      BY <3>1 DEF Distinct
    <3>3. QED
      BY <1>2, <1>3, <3>2
  <2>3. CASE i <= Len(s) /\ ~ j <= Len(s)
    <3>1. i \in DOMAIN s /\ j - Len(s) \in 1..Len(t) /\ s[i] = t[j - Len(s)]
      BY <1>2, <1>3, <1>4, <2>3
    <3>2. s[i] \in ToSet(s) /\ t[j - Len(s)] \in S
      BY <3>1 DEF ToSet
    <3>3. QED
      BY <3>1, <3>2
  <2>4. CASE ~ i <= Len(s) /\ j <= Len(s)
    <3>1. j \in DOMAIN s /\ i - Len(s) \in 1..Len(t) /\ s[j] = t[i - Len(s)]
      BY <1>2, <1>3, <1>4, <2>4
    <3>2. s[j] \in ToSet(s) /\ t[i - Len(s)] \in S
      BY <3>1 DEF ToSet
    <3>3. QED
      BY <3>1, <3>2
  <2>5. QED
    BY <2>1, <2>2, <2>3, <2>4
<1>5. \A i \in 1..Len(r) : r[i] \in ToSet(r)
  BY <1>3 DEF ToSet
<1>6. r \in Seq(ToSet(r))
  <2>1. r = [i \in 1..Len(r) |-> r[i]] /\ Len(r) \in Nat
    BY <1>2, <1>3
  <2>2. QED
    BY <2>1, <1>5
<1>7. ToSet(r) \subseteq U
  BY <1>2, <1>3 DEF ToSet
<1>8. ASSUME NEW i \in DOMAIN s PROVE i \in DOMAIN r /\ r[i] = s[i]
  BY <1>2, <1>3
<1>9. ToSet(s) \subseteq ToSet(r)
  BY <1>8 DEF ToSet
<1>10. QED
  BY <1>2, <1>4, <1>6, <1>7, <1>9 DEF Distinct, r

(* The head of the active queue is taken out. *)
LEMMA TailLemma ==
  ASSUME NEW s, s \in Seq(ToSet(s)), Distinct(s), s # <<>>
  PROVE  /\ Tail(s) \in Seq(ToSet(Tail(s)))
         /\ Distinct(Tail(s))
         /\ ToSet(Tail(s)) = ToSet(s) \ {Head(s)} /\ Head(s) \in ToSet(s)
         /\ Len(Tail(s)) = Len(s) - 1
<1> DEFINE t == Tail(s)
<1>1. /\ Len(s) \in Nat /\ DOMAIN s = 1..Len(s) /\ Len(s) > 0
      /\ Len(t) = Len(s) - 1 /\ t \in Seq(ToSet(s))
      /\ \A i \in 1..Len(s) - 1 : t[i] = s[i + 1]
  BY HeadTailProperties
<1> HIDE DEF t
<1>2. DOMAIN t = 1..Len(t) /\ Len(t) \in Nat /\ t = [i \in 1..Len(t) |-> t[i]]
  BY <1>1
<1>3. Distinct(t)
  BY <1>1, <1>2 DEF Distinct
<1>4. ToSet(t) = ToSet(s) \ {Head(s)} /\ Head(s) \in ToSet(s)
  <2>1. Head(s) = s[1] /\ 1 \in DOMAIN s
    BY <1>1
  <2>2. \A i \in DOMAIN t : t[i] = s[i + 1] /\ i + 1 \in DOMAIN s /\ i + 1 # 1
    BY <1>1, <1>2
  <2>3. \A i \in DOMAIN s : i # 1 => i - 1 \in DOMAIN t /\ t[i - 1] = s[i]
    BY <1>1, <1>2
  <2>4. ASSUME NEW i \in DOMAIN t PROVE t[i] \in ToSet(s) \ {Head(s)}
    BY <2>1, <2>2 DEF ToSet, Distinct
  <2>5. ASSUME NEW i \in DOMAIN s, s[i] # Head(s) PROVE \E k \in DOMAIN t : t[k] = s[i]
    BY <2>1, <2>3, <2>5
  <2>6. QED
    BY <2>1, <2>4, <2>5 DEF ToSet
<1>5. t \in Seq(ToSet(t))
  <2>1. \A i \in 1..Len(t) : t[i] \in ToSet(t)
    BY <1>2 DEF ToSet
  <2>2. QED
    BY <2>1, <1>2
<1>6. QED
  BY <1>1, <1>3, <1>4, <1>5 DEF t

(* epoll_dispatch puts events for reading at the end of the queue, once each. *)
LEMMA DispatchLemma ==
  ASSUME EarlyTypes, Dispatch
  PROVE  \E R \in SUBSET {evread[fd] : fd \in polled} : \E order \in Seq(R) :
           /\ active' = active \o order /\ event_count' = event_count + Len(order)
           /\ R \subseteq Io /\ R \cap ToSet(active) = {} /\ Distinct(order)
<1> DEFINE Readable == {evread[fd] : fd \in polled}
<1>0. PICK R \in SUBSET (Readable \ ({None} \cup ToSet(active))) :
        \E order \in SetToSeqs(R) :
          active' = active \o order /\ event_count' = event_count + Len(order)
  BY DEF Dispatch
<1>2. PICK order \in SetToSeqs(R) :
        active' = active \o order /\ event_count' = event_count + Len(order)
  BY <1>0
<1>3. R \subseteq Io /\ R \cap ToSet(active) = {}
  BY DEF EarlyTypes
<1>4. IsFiniteSet(R)
  <2>1. IsFiniteSet(polled)
    BY EvAssumption, FS_Subset DEF EarlyTypes
  <2>2. [fd \in polled |-> evread[fd]] \in Surjection(polled, Readable)
    BY DEF Surjection
  <2> HIDE DEF Readable
  <2>3. IsFiniteSet(Readable)
    BY <2>1, <2>2, FS_Surjection
  <2>4. QED
    BY <2>3, FS_Subset
<1>5. order \in Seq(R) /\ Distinct(order)
  <2>1. Cardinality(R) \in Nat
    BY <1>4, FS_CardinalityType
  <2>2. /\ order \in [1..Cardinality(R) -> R]
        /\ \A i, j \in 1..Cardinality(R) : i # j => order[i] # order[j]
    BY DEF SetToSeqs
  <2>3. DOMAIN order = 1..Cardinality(R)
    BY <2>2
  <2>4. order \in Seq(R)
    <3> DEFINE n == Cardinality(R)
    <3>1. n \in Nat /\ order \in [1..n -> R]
      BY <2>1, <2>2
    <3> HIDE DEF n
    <3>2. order = [i \in 1..n |-> order[i]] /\ \A i \in 1..n : order[i] \in R
      BY <3>1
    <3>3. QED
      BY <3>1, <3>2
  <2>5. Distinct(order)
    BY <2>2, <2>3 DEF Distinct
  <2>6. QED
    BY <2>4, <2>5
<1>6. QED
  BY <1>2, <1>3, <1>5

LEMMA EarlyInit == Init => EarlyInv
BY DEF Init, EarlyInv, EarlyTypes, ByTheClock, Clock, Distinct, ToSet

(* Every step keeps timers set by the clock and inactive before their time. *)
LEMMA EarlyStep == EarlyInv /\ [Next]_vars => EarlyInv'
<1> SUFFICES ASSUME EarlyInv, [Next]_vars PROVE EarlyInv'
  OBVIOUS
<1> USE DEF EarlyInv, EarlyTypes
<1>1. CASE UNCHANGED vars
  BY <1>1 DEF vars, clocks, queues, loop, ByTheClock
<1>2. CASE Tick
  <2>1. UNCHANGED <<skew, clock_set, queues, loop>> /\ time' = time + 1
    BY <1>2 DEF Tick
  <2>2. EarlyTypes'
    BY <2>1 DEF queues, loop
  <2>3. ByTheClock'
    BY <2>1 DEF queues, loop, ByTheClock
  <2>4. QED
    BY <2>2, <2>3
<1>3. CASE SetClock
  <2>1. clock_set' # "never" /\ skew' \in Int /\ UNCHANGED <<time, queues, loop>>
    BY <1>3, EvAssumption DEF SetClock
  <2>2. QED
    BY <2>1 DEF queues, loop, ByTheClock
<1>4. ASSUME NEW e \in Timer, NEW d \in Delays, AddTimer(e, d)
      PROVE  EarlyInv'
  <2>1. /\ UNCHANGED <<clocks, event_tv, pc, now, evread, polled>>
        /\ ev_timeout' = [ev_timeout EXCEPT ![e] = Clock + d]
        /\ due' = [due EXCEPT ![e] = time + d]
        /\ active' = RemoveFirst(active, e)
    BY <1>4 DEF AddTimer, Calling
  <2>2. d \in Int
    BY EvAssumption
  <2>3. /\ active' \in Seq(ToSet(active')) /\ Distinct(active')
        /\ ToSet(active') = ToSet(active) \ {e}
    BY <2>1, RemoveFirstLemma
  <2>4. EarlyTypes'
    BY <2>1, <2>2, <2>3 DEF Clock, clocks
  <2>5. ByTheClock'
    BY <2>1, <2>2, <2>3 DEF ByTheClock, Clock, clocks
  <2>6. QED
    BY <2>4, <2>5
<1>5. ASSUME NEW e \in Timer, AddTimerFails(e)
      PROVE  EarlyInv'
  BY <1>5 DEF AddTimerFails, Calling, clocks, queues, ByTheClock
<1>6. ASSUME NEW e \in Io, NEW fd \in Fd, AddIo(e, fd)
      PROVE  EarlyInv'
  BY <1>6 DEF AddIo, Calling, clocks, ByTheClock
<1>7. ASSUME NEW e \in Event, Del(e)
      PROVE  EarlyInv'
  <2>1. /\ UNCHANGED <<clocks, event_tv, pc, now, ev_timeout, due>>
        /\ active' = RemoveFirst(active, e)
    BY <1>7 DEF Del, Calling
  <2>0. evread' \in [Fd -> Io \cup {None}] /\ polled' \subseteq Fd
    BY <1>7 DEF Del
  <2>2. /\ active' \in Seq(ToSet(active')) /\ Distinct(active')
        /\ ToSet(active') = ToSet(active) \ {e}
    BY <2>1, RemoveFirstLemma
  <2>3. QED
    BY <2>0, <2>1, <2>2 DEF ByTheClock, clocks
<1>8. CASE LoopExit
  BY <1>8 DEF LoopExit, Calling, clocks, queues, ByTheClock
<1>9. CASE Enter \/ LoopExits \/ GoToSleep \/ NoEvents
  BY <1>9 DEF Enter, LoopExits, GoToSleep, NoEvents, clocks, queues, ByTheClock
<1>10. CASE Correct
  <2>1. /\ UNCHANGED <<clocks, active, due, now, evread, polled>> /\ pc' = "next"
        /\ \/ Clock >= event_tv /\ event_tv' = Clock /\ UNCHANGED ev_timeout
           \/ /\ Clock < event_tv /\ UNCHANGED event_tv
              /\ ev_timeout' = [e \in Timer |-> IF InHeap(e)
                                                THEN ev_timeout[e] - (event_tv - Clock)
                                                ELSE ev_timeout[e]]
    BY <1>10 DEF Correct
  <2>2. EarlyTypes'
    BY <2>1 DEF clocks, Clock
  <2>3. ByTheClock'
    BY <2>1 DEF clocks, Clock, ByTheClock
  <2>4. QED
    BY <2>2, <2>3
<1>11. CASE Dispatch
  <2>1. /\ UNCHANGED <<clocks, ev_timeout, due, event_tv>> /\ now' = Clock
        /\ pc' = "expire"
    BY <1>11 DEF Dispatch
  <2>0. PICK R \in SUBSET {evread[fd] : fd \in polled} : \E order \in Seq(R) :
          /\ active' = active \o order /\ event_count' = event_count + Len(order)
          /\ R \subseteq Io /\ R \cap ToSet(active) = {} /\ Distinct(order)
    BY <1>11, DispatchLemma
  <2>2. PICK order \in Seq(R) :
          /\ active' = active \o order /\ event_count' = event_count + Len(order)
          /\ R \subseteq Io /\ R \cap ToSet(active) = {} /\ Distinct(order)
    BY <2>0
  <2>3. R \cap Timer = {}
    BY <2>2, EvAssumption
  <2>6. /\ active' \in Seq(ToSet(active')) /\ Distinct(active')
        /\ ToSet(active') \subseteq ToSet(active) \cup R
    BY <2>2, JoinLemma
  <2>7. EarlyTypes' /\ UNCHANGED <<evread, polled>>
    BY <1>11, <2>1, <2>6 DEF clocks, Clock, Dispatch
  <2>8. ByTheClock'
    BY <2>1, <2>3, <2>6 DEF ByTheClock, clocks, Clock
  <2>9. QED
    BY <2>7, <2>8
<1>12. CASE Expire
  <2> DEFINE e == heap.p[1]
             without == RemoveFirst(active, e)
  <2>1. /\ UNCHANGED <<clocks, ev_timeout, due, loop, evread, polled>>
        /\ ev_timeout[e] <= now /\ pc = "expire"
        /\ active' = Activated(without, e)
    BY <1>12 DEF Expire, TopIsDue
  <2>2. /\ without \in Seq(ToSet(without)) /\ Distinct(without)
        /\ ToSet(without) = ToSet(active) \ {e}
    BY RemoveFirstLemma
  <2> HIDE DEF without
  <2>3. /\ active' \in Seq(ToSet(active')) /\ Distinct(active')
        /\ ToSet(active') = ToSet(without) \cup {e}
    BY <2>1, <2>2, ActivatedLemma
  <2>4. EarlyTypes'
    BY <2>1, <2>3 DEF clocks, loop
  <2>5. ByTheClock'
    BY <2>1, <2>2, <2>3 DEF ByTheClock, clocks, loop
  <2>6. QED
    BY <2>4, <2>5
<1>13. CASE NoneExpires
  BY <1>13 DEF NoneExpires, clocks, queues, ByTheClock
<1>14. CASE Process
  <2>1. /\ UNCHANGED <<clocks, ev_timeout, due, event_tv, now, evread, polled>>
        /\ active # <<>> /\ active' = Tail(active) /\ pc' = "callback"
    BY <1>14 DEF Process
  <2>2. /\ active' \in Seq(ToSet(active')) /\ Distinct(active')
        /\ ToSet(active') \subseteq ToSet(active)
    BY <2>1, TailLemma
  <2>3. QED
    BY <2>1, <2>2 DEF ByTheClock, clocks
<1>15. CASE Return \/ Processed
  BY <1>15 DEF Return, Processed, clocks, queues, ByTheClock
<1>16. QED
  BY <1>1, <1>2, <1>3, <1>4, <1>5, <1>6, <1>7, <1>8, <1>9, <1>10, <1>11, <1>12, <1>13,
     <1>14, <1>15 DEF Next

(* No timer of any number, added, moved and deleted in any order, is called before
   its time while nobody sets the clock. *)
THEOREM EvLoopNotEarly == Spec => []NotEarly
<1>1. EarlyInv => NotEarly
  BY DEF EarlyInv, ByTheClock, NotEarly, ActiveTimers, IsActive
<1>2. QED
  BY <1>1, EarlyInit, EarlyStep, PTL DEF Spec
-----------------------------------------------------------------------------
(* The types of all variables but the heap and the active queue, whose types
   follow from what they hold. *)
LoopTypes ==
  /\ time \in 0..MaxTime /\ skew \in Skews \cup {0}
  /\ clock_set \in {"never", "back", "on"}
  /\ event_tv \in Int /\ now \in Int /\ deadline \in Nat
  /\ reserved \in BOOLEAN
  /\ ev_timeout \in [Timer -> Int] /\ due \in [Timer -> Nat]
  /\ ev_fd \in [Io -> Fd \cup {None}]
  /\ evread \in [Fd -> Io \cup {None}] /\ polled \subseteq Fd
  /\ wanted \subseteq Event /\ old \subseteq Timer
  /\ gotterm \in BOOLEAN
  /\ pc \in {"setup", "top", "next", "wait", "expire", "process", "callback", "left"}
  /\ running \in Event \cup {None}
  /\ calls \in 0..MaxCalls

(* The timers that wait for their time. *)
Waiting == {e \in wanted \cap Timer : ~ IsActive(e)}

(* The queues, with the heap as its lemmas describe it. *)
Exact ==
  /\ IsHeap(heap, ev_timeout, Timer, Waiting)
  /\ inserted = wanted \cap Io /\ IsFiniteSet(inserted)
  /\ ToSet(active) \subseteq wanted /\ Distinct(active) /\ active \in Seq(ToSet(active))
  /\ \A fd \in Fd : evread[fd] # None => evread[fd] \in inserted /\ ev_fd[evread[fd]] = fd
  /\ event_count = Len(heap.p) + Len(active) + Cardinality(inserted)

QueuesInv == LoopTypes /\ Exact

(* The heap does not look at the times of timers it does not hold, and stays one
   when all times are moved by the same amount. *)
LEMMA SameOrderLemma ==
  ASSUME NEW E, NEW key, NEW key2, NEW S, NEW h, IsHeap(h, key, E, S), NEW c \in Int,
         key \in [E -> Int], \A e \in S : key2[e] = key[e] - c
  PROVE  IsHeap(h, key2, E, S)
<1>1. /\ Len(h.p) \in Nat /\ \A i \in 1..Len(h.p) : h.p[i] \in S /\ key[h.p[i]] \in Int
  BY DEF IsHeap, HeapOf, Has
<1>2. ASSUME NEW i \in 2..Len(h.p) PROVE key2[h.p[i \div 2]] <= key2[h.p[i]]
  <2>1. i \in 1..Len(h.p) /\ i \div 2 \in 1..Len(h.p)
    BY <1>1
  <2>2. key[h.p[i \div 2]] <= key[h.p[i]]
    BY DEF IsHeap, OrderedTo
  <2>3. /\ key2[h.p[i]] = key[h.p[i]] - c /\ key2[h.p[i \div 2]] = key[h.p[i \div 2]] - c
        /\ key[h.p[i]] \in Int /\ key[h.p[i \div 2]] \in Int
    BY <2>1, <1>1
  <2> QED BY <2>2, <2>3
<1> QED BY <1>2 DEF IsHeap, OrderedTo

(* A timer is in the heap when it waits for its time, and in no other case. *)
LEMMA InHeapLemma ==
  ASSUME QueuesInv
  PROVE  /\ \A e \in Event : InHeap(e) <=> e \in Waiting
         /\ Len(heap.p) \in Nat /\ Len(active) \in Nat /\ Cardinality(inserted) \in Nat
         /\ Waiting \subseteq Timer
<1>1. /\ heap \in HeapOf(Timer) /\ Has(heap, Waiting, Len(heap.p)) /\ Waiting \subseteq Timer
      /\ \A e \in Timer \ Waiting : heap.idx[e] = NoPlace
  BY DEF QueuesInv, Exact, IsHeap
<1>2. \A e \in Waiting : heap.idx[e] # NoPlace
  <2> TAKE e \in Waiting
  <2>1. PICK i \in 1..Len(heap.p) : heap.p[i] = e /\ heap.idx[e] = i
    BY <1>1 DEF Has
  <2> QED BY <2>1 DEF NoPlace
<1>3. \A e \in Event : InHeap(e) <=> e \in Waiting
  BY <1>1, <1>2 DEF InHeap
<1>4. Len(heap.p) \in Nat
  BY <1>1 DEF HeapOf
<1>5. Cardinality(inserted) \in Nat /\ Len(active) \in Nat
  BY FS_CardinalityType DEF QueuesInv, Exact
<1> QED BY <1>1, <1>3, <1>4, <1>5

(* The heap after event_del of e, if it was there. *)
LEMMA OutsideLemma ==
  ASSUME QueuesInv, NEW e \in Event,
         NEW h, h = IF InHeap(e) THEN Erase(heap, ev_timeout, e) ELSE heap
  PROVE  /\ IsHeap(h, ev_timeout, Timer, Waiting \ {e})
         /\ Len(h.p) = Len(heap.p) - One(InHeap(e))
<1>1. IsHeap(heap, ev_timeout, Timer, Waiting) /\ ev_timeout \in [Timer -> Int]
  BY DEF QueuesInv, Exact, LoopTypes
<1>2. CASE InHeap(e)
  <2>1. e \in Waiting
    BY <1>2, InHeapLemma
  <2>2. /\ IsHeap(Erase(heap, ev_timeout, e), ev_timeout, Timer, Waiting \ {e})
        /\ Len(Erase(heap, ev_timeout, e).p) = Len(heap.p) - 1
    BY <1>1, <2>1, EraseLemma
  <2>3. h = Erase(heap, ev_timeout, e) /\ One(InHeap(e)) = 1
    BY <1>2 DEF One
  <2> QED BY <2>2, <2>3
<1>3. CASE ~ InHeap(e)
  <2>1. Waiting \ {e} = Waiting
    BY <1>3, InHeapLemma
  <2>2. Len(heap.p) \in Nat
    BY InHeapLemma
  <2>3. h = heap /\ One(InHeap(e)) = 0
    BY <1>3 DEF One
  <2>4. Len(heap.p) - 0 = Len(heap.p)
    BY <2>2
  <2> QED BY <1>1, <2>1, <2>3, <2>4
<1> QED BY <1>2, <1>3

(* event_add of a timer *)
LEMMA AddTimerExact ==
  ASSUME QueuesInv, NEW e \in Timer, NEW d \in Delays, AddTimer(e, d)
  PROVE  Exact'
<1> DEFINE outside == IF InHeap(e) THEN Erase(heap, ev_timeout, e) ELSE heap
<1>1. /\ ev_timeout' = [ev_timeout EXCEPT ![e] = Clock + d]
      /\ heap' = Push(outside, ev_timeout', e)
      /\ active' = RemoveFirst(active, e)
      /\ event_count' = event_count - One(InHeap(e)) - One(IsActive(e)) + 1
      /\ wanted' = wanted \cup {e} /\ UNCHANGED <<inserted, evread, ev_fd>>
  BY DEF AddTimer
<1>2. /\ ev_timeout \in [Timer -> Int] /\ e \in Event /\ e \notin Io /\ Clock + d \in Int
  <2>1. d \in Nat /\ time \in Int /\ skew \in Int /\ e \notin Io
    BY EvAssumption DEF QueuesInv, LoopTypes
  <2> QED BY <2>1 DEF Clock, QueuesInv, LoopTypes, Event
<1>3. /\ IsHeap(outside, ev_timeout, Timer, Waiting \ {e})
      /\ Len(outside.p) = Len(heap.p) - One(InHeap(e))
  BY <1>2, OutsideLemma
<1> HIDE DEF outside
<1>4. ev_timeout' \in [Timer -> Int] /\ \A x \in Waiting \ {e} : ev_timeout'[x] = ev_timeout[x] - 0
  <2>1. \A x \in Waiting : x \in Timer
    BY DEF Waiting
  <2> QED BY <1>1, <1>2, <2>1
<1>5. IsHeap(outside, ev_timeout', Timer, Waiting \ {e})
  BY <1>2, <1>3, <1>4, SameOrderLemma, SMTT(30)
<1>6. /\ IsHeap(heap', ev_timeout', Timer, (Waiting \ {e}) \cup {e})
      /\ Len(heap'.p) = Len(outside.p) + 1
  <2> DEFINE S == Waiting \ {e}
  <2>1. /\ IsHeap(outside, ev_timeout', Timer, S) /\ e \notin S
        /\ ev_timeout' \in [Timer -> Int]
    BY <1>4, <1>5
  <2> HIDE DEF S
  <2>2. /\ IsHeap(Push(outside, ev_timeout', e), ev_timeout', Timer, S \cup {e})
        /\ Grown(Push(outside, ev_timeout', e), outside, 1)
    BY <2>1, PushLemma
  <2> QED BY <2>2, <1>1 DEF S, Grown
<1>7. /\ active \in Seq(ToSet(active)) /\ Distinct(active) /\ ToSet(active) \subseteq wanted
      /\ inserted = wanted \cap Io /\ IsFiniteSet(inserted)
      /\ event_count = Len(heap.p) + Len(active) + Cardinality(inserted)
  BY DEF QueuesInv, Exact
<1>8. /\ active' \in Seq(ToSet(active')) /\ Distinct(active')
      /\ ToSet(active') = ToSet(active) \ {e}
      /\ Len(active') = Len(active) - One(IsActive(e))
  BY <1>1, <1>7, RemoveFirstLemma DEF IsActive
<1>9. Waiting' = (Waiting \ {e}) \cup {e}
  BY <1>1, <1>8 DEF Waiting, IsActive
<1>10. event_count' = Len(heap'.p) + Len(active') + Cardinality(inserted')
  <2>1. /\ Len(heap.p) \in Nat /\ Len(active) \in Nat /\ Cardinality(inserted) \in Nat
        /\ One(InHeap(e)) \in Nat /\ One(IsActive(e)) \in Nat
    BY InHeapLemma DEF One
  <2> DEFINE h == Len(heap.p)
             a == Len(active)
             i == Cardinality(inserted)
             x == One(InHeap(e))
             y == One(IsActive(e))
             hh == Len(heap'.p)
             aa == Len(active')
             ii == Cardinality(inserted')
  <2>2. /\ h \in Nat /\ a \in Nat /\ i \in Nat /\ x \in Nat /\ y \in Nat
        /\ event_count = h + a + i
        /\ event_count' = event_count - x - y + 1
        /\ aa = a - y /\ ii = i
    BY <2>1, <1>1, <1>7, <1>8
  <2>3. hh = h - x + 1
    BY <1>3, <1>6
  <2>4. event_count' = hh + aa + ii
    <3> HIDE DEF h, a, i, x, y, hh, aa, ii
    <3> QED BY ONLY <2>2, <2>3
  <2> QED BY <2>4
<1>11. IsHeap(heap', ev_timeout', Timer, Waiting')
  BY <1>6, <1>9
<1>12. \A fd \in Fd : evread'[fd] # None =>
          evread'[fd] \in inserted' /\ ev_fd'[evread'[fd]] = fd
  BY <1>1 DEF QueuesInv, Exact
<1> QED BY <1>1, <1>2, <1>7, <1>8, <1>10, <1>11, <1>12 DEF Exact

(* event_add of an event for reading *)
LEMMA AddIoExact ==
  ASSUME QueuesInv, NEW e \in Io, NEW fd \in Fd, AddIo(e, fd)
  PROVE  Exact'
<1>1. /\ e \notin inserted /\ ~ IsActive(e) /\ \A f \in inserted : ev_fd[f] # fd
      /\ inserted' = inserted \cup {e} /\ ev_fd' = [ev_fd EXCEPT ![e] = fd]
      /\ event_count' = event_count + 1
      /\ evread' = [evread EXCEPT ![fd] = e] \/ evread' = evread
      /\ wanted' = wanted \cup {e}
      /\ UNCHANGED <<heap, ev_timeout, active>>
  BY DEF AddIo
<1>2. e \notin Timer /\ ev_fd \in [Io -> Fd \cup {None}] /\ evread \in [Fd -> Io \cup {None}]
  BY EvAssumption DEF QueuesInv, LoopTypes
<1>3. /\ active \in Seq(ToSet(active)) /\ Distinct(active) /\ ToSet(active) \subseteq wanted
      /\ inserted = wanted \cap Io /\ IsFiniteSet(inserted)
      /\ event_count = Len(heap.p) + Len(active) + Cardinality(inserted)
      /\ \A g \in Fd : evread[g] # None => evread[g] \in inserted /\ ev_fd[evread[g]] = g
      /\ IsHeap(heap, ev_timeout, Timer, Waiting)
  BY DEF QueuesInv, Exact
<1>4. Waiting' = Waiting
  BY <1>1, <1>2 DEF Waiting, IsActive
<1>5. IsHeap(heap', ev_timeout', Timer, Waiting')
  BY <1>1, <1>3, <1>4
<1>6. IsFiniteSet(inserted') /\ Cardinality(inserted') = Cardinality(inserted) + 1
  BY <1>1, <1>3, FS_AddElement
<1>7. event_count' = Len(heap'.p) + Len(active') + Cardinality(inserted')
  <2>1. Len(heap.p) \in Nat /\ Len(active) \in Nat /\ Cardinality(inserted) \in Nat
    BY InHeapLemma
  <2> QED BY <2>1, <1>1, <1>3, <1>6
<1>8. ASSUME NEW g \in Fd, evread'[g] # None
      PROVE  evread'[g] \in inserted' /\ ev_fd'[evread'[g]] = g
  <2>1. CASE evread'[g] = evread[g]
    <3>1. evread[g] \in inserted /\ ev_fd[evread[g]] = g /\ evread[g] # e
      BY <2>1, <1>1, <1>3, <1>8
    <3> QED BY <2>1, <3>1, <1>1, <1>2
  <2>2. CASE evread'[g] # evread[g]
    BY <2>2, <1>1, <1>2
  <2> QED BY <2>1, <2>2
<1>9. ToSet(active') \subseteq wanted' /\ inserted' = wanted' \cap Io
  BY <1>1, <1>3
<1> QED BY <1>1, <1>3, <1>5, <1>6, <1>7, <1>8, <1>9 DEF Exact

(* event_del *)
LEMMA DelExact ==
  ASSUME QueuesInv, NEW e \in Event, Del(e)
  PROVE  Exact'
<1>1. /\ heap' = IF InHeap(e) THEN Erase(heap, ev_timeout, e) ELSE heap
      /\ active' = RemoveFirst(active, e)
      /\ inserted' = inserted \ {e}
      /\ event_count' = event_count - One(InHeap(e)) - One(IsActive(e)) - One(e \in inserted)
      /\ \/ e \in inserted /\ evread' = [evread EXCEPT ![ev_fd[e]] = None]
         \/ e \notin inserted /\ evread' = evread
      /\ wanted' = wanted \ {e} /\ UNCHANGED <<ev_timeout, ev_fd>>
  BY DEF Del
<1>2. evread \in [Fd -> Io \cup {None}] /\ ev_fd \in [Io -> Fd \cup {None}]
  BY DEF QueuesInv, LoopTypes
<1>3. /\ active \in Seq(ToSet(active)) /\ Distinct(active) /\ ToSet(active) \subseteq wanted
      /\ inserted = wanted \cap Io /\ IsFiniteSet(inserted)
      /\ event_count = Len(heap.p) + Len(active) + Cardinality(inserted)
      /\ \A g \in Fd : evread[g] # None => evread[g] \in inserted /\ ev_fd[evread[g]] = g
  BY DEF QueuesInv, Exact
<1>4. /\ IsHeap(heap', ev_timeout, Timer, Waiting \ {e})
      /\ Len(heap'.p) = Len(heap.p) - One(InHeap(e))
  BY <1>1, OutsideLemma
<1>5. /\ active' \in Seq(ToSet(active')) /\ Distinct(active')
      /\ ToSet(active') = ToSet(active) \ {e}
      /\ Len(active') = Len(active) - One(IsActive(e))
  BY <1>1, <1>3, RemoveFirstLemma DEF IsActive
<1>6. Waiting' = Waiting \ {e}
  BY <1>1, <1>5 DEF Waiting, IsActive
<1>7. IsHeap(heap', ev_timeout', Timer, Waiting')
  BY <1>1, <1>4, <1>6
<1>8. /\ IsFiniteSet(inserted') /\ Cardinality(inserted') = Cardinality(inserted) - One(e \in inserted)
  <2>1. CASE e \in inserted
    BY <2>1, <1>1, <1>3, FS_RemoveElement DEF One
  <2>2. CASE e \notin inserted
    <3>1. inserted' = inserted
      BY <2>2, <1>1
    <3>2. Cardinality(inserted) \in Nat
      BY InHeapLemma
    <3> QED BY <2>2, <3>1, <3>2, <1>3 DEF One
  <2> QED BY <2>1, <2>2
<1>9. event_count' = Len(heap'.p) + Len(active') + Cardinality(inserted')
  <2>1. /\ Len(heap.p) \in Nat /\ Len(active) \in Nat /\ Cardinality(inserted) \in Nat
        /\ One(InHeap(e)) \in Nat /\ One(IsActive(e)) \in Nat /\ One(e \in inserted) \in Nat
    BY InHeapLemma DEF One
  <2> QED BY <2>1, <1>1, <1>3, <1>4, <1>5, <1>8, SMTT(30)
<1>10. ASSUME NEW g \in Fd, evread'[g] # None
       PROVE  evread'[g] \in inserted' /\ ev_fd'[evread'[g]] = g
  <2>1. evread'[g] = evread[g] /\ evread[g] # e
    BY <1>1, <1>2, <1>3, <1>10
  <2> QED BY <2>1, <1>1, <1>3, <1>10
<1>11. ToSet(active') \subseteq wanted' /\ inserted' = wanted' \cap Io
  BY <1>1, <1>3, <1>5
<1> QED BY <1>5, <1>7, <1>8, <1>9, <1>10, <1>11 DEF Exact

(* timeout_correct *)
LEMMA CorrectExact ==
  ASSUME QueuesInv, Correct
  PROVE  Exact' /\ ev_timeout' \in [Timer -> Int]
<1>1. /\ UNCHANGED <<heap, inserted, ev_fd, evread, active, event_count, wanted>>
      /\ \/ UNCHANGED ev_timeout
         \/ ev_timeout' = [e \in Timer |-> IF InHeap(e) THEN ev_timeout[e] - (event_tv - Clock)
                                           ELSE ev_timeout[e]]
  BY DEF Correct
<1>2. /\ ev_timeout \in [Timer -> Int] /\ event_tv - Clock \in Int
  <2>1. event_tv \in Int /\ time \in Int /\ skew \in Int
    BY EvAssumption DEF QueuesInv, LoopTypes
  <2> QED BY <2>1 DEF QueuesInv, LoopTypes, Clock
<1>3. IsHeap(heap, ev_timeout, Timer, Waiting) /\ Waiting' = Waiting
  BY <1>1 DEF QueuesInv, Exact, Waiting, IsActive
<1>4. IsHeap(heap, ev_timeout', Timer, Waiting)
  <2>1. CASE UNCHANGED ev_timeout
    BY <2>1, <1>3
  <2>2. CASE ~ UNCHANGED ev_timeout
    <3>1. \A e \in Waiting : ev_timeout'[e] = ev_timeout[e] - (event_tv - Clock)
      <4>1. \A e \in Waiting : e \in Timer /\ InHeap(e)
        BY InHeapLemma DEF Waiting, Event
      <4> QED BY <4>1, <2>2, <1>1
    <3> QED BY <3>1, <1>2, <1>3, SameOrderLemma
  <2> QED BY <2>1, <2>2
<1>5. IsHeap(heap', ev_timeout', Timer, Waiting')
  BY <1>1, <1>3, <1>4
<1> QED BY <1>1, <1>2, <1>5 DEF QueuesInv, Exact

(* epoll_dispatch *)
LEMMA DispatchExact ==
  ASSUME QueuesInv, EarlyTypes, Dispatch
  PROVE  Exact'
<1>1. UNCHANGED <<heap, ev_timeout, inserted, ev_fd, evread, wanted>>
  BY DEF Dispatch
<1>2. /\ active \in Seq(ToSet(active)) /\ Distinct(active) /\ ToSet(active) \subseteq wanted
      /\ inserted = wanted \cap Io
      /\ \A g \in Fd : evread[g] # None => evread[g] \in inserted
      /\ IsHeap(heap, ev_timeout, Timer, Waiting) /\ polled \subseteq Fd
  BY DEF QueuesInv, Exact, LoopTypes
<1>3. /\ active' \in Seq(ToSet(active')) /\ Distinct(active')
      /\ ToSet(active') \subseteq wanted /\ ToSet(active) \subseteq ToSet(active')
      /\ ToSet(active') \cap Timer = ToSet(active) \cap Timer
      /\ \E n \in Nat : event_count' = event_count + n /\ Len(active') = Len(active) + n
  <2>1. PICK R \in SUBSET {evread[fd] : fd \in polled} : \E order \in Seq(R) :
          /\ active' = active \o order /\ event_count' = event_count + Len(order)
          /\ R \subseteq Io /\ R \cap ToSet(active) = {} /\ Distinct(order)
    BY DispatchLemma
  <2>2. PICK order \in Seq(R) :
          /\ active' = active \o order /\ event_count' = event_count + Len(order)
          /\ R \subseteq Io /\ R \cap ToSet(active) = {} /\ Distinct(order)
    BY <2>1
  <2>3. R \subseteq wanted /\ R \cap Timer = {}
    BY <1>2, <2>2, EvAssumption
  <2>4. /\ active' \in Seq(ToSet(active')) /\ Distinct(active')
        /\ ToSet(active') \subseteq ToSet(active) \cup R
        /\ ToSet(active) \subseteq ToSet(active')
        /\ Len(active') = Len(active) + Len(order)
    BY <1>2, <2>2, JoinLemma
  <2>5. Len(order) \in Nat
    OBVIOUS
  <2> QED BY <1>2, <2>2, <2>3, <2>4, <2>5
<1>4. Waiting' = Waiting
  BY <1>1, <1>3 DEF Waiting, IsActive
<1>5. IsHeap(heap', ev_timeout', Timer, Waiting')
  BY <1>1, <1>2, <1>4
<1>6. event_count' = Len(heap'.p) + Len(active') + Cardinality(inserted')
  <2>1. Len(heap.p) \in Nat /\ Len(active) \in Nat /\ Cardinality(inserted) \in Nat
    BY InHeapLemma
  <2>2. heap' = heap /\ inserted' = inserted
    BY <1>1
  <2>3. PICK n \in Nat : event_count' = event_count + n /\ Len(active') = Len(active) + n
    BY <1>3
  <2>4. event_count = Len(heap.p) + Len(active) + Cardinality(inserted)
    BY DEF QueuesInv, Exact
  <2> DEFINE h == Len(heap.p)
             i == Cardinality(inserted)
             a == Len(active)
             b == Len(active')
  <2>5. /\ h \in Nat /\ i \in Nat /\ a \in Nat /\ event_count' = event_count + n
        /\ b = a + n /\ event_count = h + a + i
    BY <2>1, <2>3, <2>4
  <2> SUFFICES event_count' = h + b + i
    BY <2>2
  <2> HIDE DEF h, i, a, b
  <2> QED BY ONLY <2>5, n \in Nat
<1> QED BY <1>1, <1>3, <1>5, <1>6 DEF QueuesInv, Exact

(* one turn of the loop of timeout_process *)
LEMMA ExpireExact ==
  ASSUME QueuesInv, Expire
  PROVE  Exact'
<1> DEFINE e == heap.p[1]
           without == RemoveFirst(active, e)
<1>1. /\ heap.p # <<>>
      /\ heap' = Erase(heap, ev_timeout, e) /\ active' = Activated(without, e)
      /\ event_count' = event_count - One(IsActive(e))
      /\ UNCHANGED <<ev_timeout, inserted, ev_fd, evread, wanted>>
  BY DEF Expire, TopIsDue
<1>2. /\ IsHeap(heap, ev_timeout, Timer, Waiting) /\ ev_timeout \in [Timer -> Int]
      /\ active \in Seq(ToSet(active)) /\ Distinct(active) /\ ToSet(active) \subseteq wanted
      /\ event_count = Len(heap.p) + Len(active) + Cardinality(inserted)
  BY DEF QueuesInv, Exact, LoopTypes
<1>3. e \in Waiting
  <2>1. heap.p \in Seq(Timer) /\ Has(heap, Waiting, Len(heap.p))
    BY <1>2 DEF IsHeap, HeapOf
  <2>2. 1 \in 1..Len(heap.p)
    BY <2>1, <1>1
  <2> QED BY <2>1, <2>2 DEF Has
<1>4. e \in wanted /\ e \notin ToSet(active) /\ e \in Timer
  BY <1>3 DEF Waiting, IsActive
<1>5. /\ IsHeap(heap', ev_timeout, Timer, Waiting \ {e}) /\ Len(heap'.p) = Len(heap.p) - 1
  <2> HIDE DEF e
  <2>1. /\ IsHeap(Erase(heap, ev_timeout, e), ev_timeout, Timer, Waiting \ {e})
        /\ Len(Erase(heap, ev_timeout, e).p) = Len(heap.p) - 1
    <3>1. IsHeap(heap, ev_timeout, Timer, Waiting) /\ ev_timeout \in [Timer -> Int]
      BY <1>2
    <3> QED BY <3>1, <1>3, EraseLemma
  <2> QED BY <2>1, <1>1
<1>6. /\ without \in Seq(ToSet(without)) /\ Distinct(without)
      /\ ToSet(without) = ToSet(active) \ {e} /\ Len(without) = Len(active) - One(e \in ToSet(active))
  BY <1>2, RemoveFirstLemma
<1> HIDE DEF without
<1>7. /\ active' \in Seq(ToSet(active')) /\ Distinct(active')
      /\ ToSet(active') = ToSet(without) \cup {e}
      /\ Len(active') = Len(without) + One(e \notin ToSet(without))
  BY <1>1, <1>6, ActivatedLemma
<1>8. ToSet(active') = ToSet(active) \cup {e}
  BY <1>4, <1>6, <1>7
<1> HIDE DEF e
<1>9. Waiting' = Waiting \ {e}
  BY <1>1, <1>8 DEF Waiting, IsActive
<1>10. IsHeap(heap', ev_timeout', Timer, Waiting')
  BY <1>1, <1>5, <1>9
<1>11. event_count' = Len(heap'.p) + Len(active') + Cardinality(inserted')
  <2>1. Len(heap.p) \in Nat /\ Len(active) \in Nat /\ Cardinality(inserted) \in Nat
    BY InHeapLemma
  <2>2. One(e \in ToSet(active)) = 0 /\ One(e \notin ToSet(without)) = 1 /\ One(IsActive(e)) = 0
    BY <1>4, <1>6 DEF One, IsActive
  <2> DEFINE h == Len(heap.p)
             i == Cardinality(inserted)
             a == Len(active)
             w == Len(without)
             b == Len(active')
             g == Len(heap'.p)
  <2>3. /\ h \in Nat /\ i \in Nat /\ a \in Nat /\ event_count' = event_count - 0
        /\ w = a - 0 /\ b = w + 1 /\ g = h - 1 /\ event_count = h + a + i
    <3>1. Len(without) = Len(active) - One(e \in ToSet(active))
      BY <1>6
    <3>2. Len(active') = Len(without) + One(e \notin ToSet(without))
      BY <1>7
    <3>3. event_count' = event_count - One(IsActive(e))
      BY <1>1
    <3>4. Len(heap'.p) = Len(heap.p) - 1
      BY <1>5
    <3>5. event_count = Len(heap.p) + Len(active) + Cardinality(inserted)
      BY <1>2
    <3> QED BY <2>1, <2>2, <3>1, <3>2, <3>3, <3>4, <3>5
  <2> SUFFICES event_count' = g + b + i
    BY <1>1
  <2> HIDE DEF h, i, a, w, b, g
  <2> QED BY ONLY <2>3
<1>12. ToSet(active') \subseteq wanted'
  BY <1>1, <1>2, <1>4, <1>8
<1> QED BY <1>1, <1>7, <1>10, <1>11, <1>12 DEF QueuesInv, Exact

(* event_process_active *)
LEMMA ProcessExact ==
  ASSUME QueuesInv, Process
  PROVE  Exact'
<1> DEFINE e == Head(active)
<1>1. /\ active # <<>> /\ active' = Tail(active) /\ event_count' = event_count - 1
      /\ wanted' = wanted \ ({e} \cap Timer)
      /\ UNCHANGED <<heap, ev_timeout, inserted, ev_fd, evread>>
  BY DEF Process
<1>2. /\ IsHeap(heap, ev_timeout, Timer, Waiting) /\ inserted = wanted \cap Io
      /\ active \in Seq(ToSet(active)) /\ Distinct(active) /\ ToSet(active) \subseteq wanted
      /\ event_count = Len(heap.p) + Len(active) + Cardinality(inserted)
  BY DEF QueuesInv, Exact
<1>3. /\ active' \in Seq(ToSet(active')) /\ Distinct(active')
      /\ ToSet(active') = ToSet(active) \ {e} /\ e \in ToSet(active)
      /\ Len(active') = Len(active) - 1
  BY <1>1, <1>2, TailLemma
<1> HIDE DEF e
<1>4. Waiting' = Waiting
  BY <1>1, <1>3 DEF Waiting, IsActive
<1>5. IsHeap(heap', ev_timeout', Timer, Waiting')
  BY <1>1, <1>2, <1>4
<1>6. event_count' = Len(heap'.p) + Len(active') + Cardinality(inserted')
  <2>1. Len(heap.p) \in Nat /\ Len(active) \in Nat /\ Cardinality(inserted) \in Nat
    BY InHeapLemma
  <2> QED BY <2>1, <1>1, <1>2, <1>3
<1>7. ToSet(active') \subseteq wanted' /\ inserted' = wanted' \cap Io
  BY <1>1, <1>2, <1>3, EvAssumption
<1> QED BY <1>1, <1>3, <1>5, <1>6, <1>7 DEF QueuesInv, Exact

(* The actions that leave the queues alone. *)
LEMMA SameExact ==
  ASSUME QueuesInv,
         UNCHANGED <<heap, ev_timeout, inserted, ev_fd, evread, active, event_count, wanted>>
  PROVE  Exact'
BY DEF QueuesInv, Exact, Waiting, IsActive

(* What is not in the queues keeps its type. *)
LEMMA TypesStep == QueuesInv /\ [Next]_vars => LoopTypes'
<1> SUFFICES ASSUME QueuesInv, [Next]_vars PROVE LoopTypes'
  OBVIOUS
<1>0. LoopTypes
  BY DEF QueuesInv
<1> USE <1>0, EvAssumption DEF LoopTypes
<1>1. CASE UNCHANGED vars
  BY <1>1 DEF vars, clocks, queues, loop
<1>2. CASE Tick
  <2>1. time' \in 0..MaxTime /\ UNCHANGED <<skew, clock_set, queues, loop>>
    BY <1>2 DEF Tick
  <2> QED BY <2>1 DEF queues, loop
<1>3. CASE SetClock
  BY <1>3 DEF SetClock, queues, loop
<1>4. ASSUME NEW e \in Timer, NEW d \in Delays, AddTimer(e, d)
      PROVE  LoopTypes'
  <2>1. /\ UNCHANGED <<clocks, event_tv, pc, running, now, deadline, ev_fd, evread, polled,
                       gotterm>>
        /\ ev_timeout' = [ev_timeout EXCEPT ![e] = Clock + d] /\ reserved' = TRUE
        /\ due' = [due EXCEPT ![e] = time + d] /\ wanted' = wanted \cup {e}
        /\ old' \in {old \cup {e}, old \ {e}} /\ calls < MaxCalls /\ calls' = calls + 1
    BY <1>4 DEF AddTimer, Calling
  <2>2. calls' \in 0..MaxCalls
    BY <2>1
  <2>3. Clock + d \in Int /\ time + d \in Nat
    BY DEF Clock
  <2>4. ev_timeout' \in [Timer -> Int] /\ due' \in [Timer -> Nat]
    BY <2>1, <2>3
  <2> QED BY <2>1, <2>2, <2>4 DEF clocks, Event
<1>5. ASSUME NEW e \in Timer, AddTimerFails(e)
      PROVE  LoopTypes'
  BY <1>5 DEF AddTimerFails, Calling, clocks, queues
<1>6. ASSUME NEW e \in Io, NEW fd \in Fd, AddIo(e, fd)
      PROVE  LoopTypes'
  <2>1. /\ UNCHANGED <<clocks, event_tv, pc, running, now, deadline, reserved, ev_timeout,
                       due, old, gotterm>>
        /\ ev_fd' = [ev_fd EXCEPT ![e] = fd] /\ wanted' = wanted \cup {e}
        /\ \/ evread' = [evread EXCEPT ![fd] = e] /\ polled' = polled \cup {fd}
           \/ UNCHANGED <<evread, polled>>
        /\ calls < MaxCalls /\ calls' = calls + 1
    BY <1>6 DEF AddIo, Calling
  <2>2. calls' \in 0..MaxCalls
    BY <2>1
  <2> QED BY <2>1, <2>2 DEF clocks, Event
<1>7. ASSUME NEW e \in Event, Del(e)
      PROVE  LoopTypes'
  <2>1. /\ UNCHANGED <<clocks, event_tv, pc, running, now, deadline, reserved, ev_timeout,
                       ev_fd, due, old, gotterm>>
        /\ wanted' = wanted \ {e}
        /\ \/ evread' = [evread EXCEPT ![ev_fd[e]] = None] /\ polled' = polled \ {ev_fd[e]}
           \/ UNCHANGED <<evread, polled>>
        /\ calls < MaxCalls /\ calls' = calls + 1
    BY <1>7 DEF Del, Calling
  <2>2. calls' \in 0..MaxCalls
    BY <2>1
  <2> QED BY <2>1, <2>2 DEF clocks
<1>8. CASE LoopExit
  BY <1>8 DEF LoopExit, Calling, clocks, queues
<1>9. CASE Enter \/ LoopExits \/ NoEvents
  BY <1>9 DEF Enter, LoopExits, NoEvents, clocks, queues
<1>10. CASE GoToSleep
  <2>1. /\ UNCHANGED <<clocks, queues, event_tv, gotterm, running, now, calls>>
        /\ deadline' = Sleep /\ pc' = "wait"
    BY <1>10 DEF GoToSleep
  <2>2. Sleep \in Nat
    <3>1. time \in Nat /\ skew \in Int /\ MaxTime + 1 \in Nat /\ Clock \in Int
      BY DEF Clock
    <3>2. CASE active # <<>> \/ heap.p = <<>>
      BY <3>1, <3>2 DEF Sleep, Forever
    <3>3. CASE active = <<>> /\ heap.p # <<>>
      <4>1. heap.p[1] \in Timer
        <5>1. heap.p \in Seq(Timer)
          BY DEF QueuesInv, Exact, IsHeap, HeapOf
        <5>2. 1 \in 1..Len(heap.p)
          BY <5>1, <3>3
        <5> QED BY <5>1, <5>2
      <4>2. ev_timeout[heap.p[1]] \in Int
        BY <4>1
      <4> DEFINE t == ev_timeout[heap.p[1]]
      <4>3. Sleep = time + (IF t <= Clock THEN 0 ELSE t - Clock)
        BY <3>3 DEF Sleep
      <4>4. t \in Int
        BY <4>2
      <4> HIDE DEF t
      <4> QED BY <4>3, <4>4, <3>1
    <3> QED BY <3>2, <3>3
  <2> QED BY <2>1, <2>2 DEF clocks, queues
<1>11. CASE Correct
  <2>1. /\ UNCHANGED <<clocks, reserved, ev_fd, evread, polled, wanted, due, old, gotterm,
                       running, now, deadline, calls>>
        /\ event_tv' \in {event_tv, Clock} /\ pc' = "next"
    BY <1>11 DEF Correct
  <2>2. ev_timeout' \in [Timer -> Int] /\ event_tv' \in Int
    BY <1>11, <2>1, CorrectExact DEF Clock
  <2> QED BY <2>1, <2>2 DEF clocks
<1>12. CASE Dispatch
  <2>1. /\ UNCHANGED <<clocks, reserved, ev_timeout, ev_fd, evread, polled, wanted, due, old,
                       event_tv, gotterm, running, calls>>
        /\ now' = Clock /\ deadline' = 0 /\ pc' = "expire"
    BY <1>12 DEF Dispatch
  <2> QED BY <2>1 DEF clocks, Clock
<1>13. CASE Expire \/ NoneExpires
  BY <1>13 DEF Expire, NoneExpires, clocks, queues, loop
<1>14. CASE Process
  <2>1. /\ UNCHANGED <<clocks, reserved, ev_timeout, ev_fd, evread, polled, due, old, event_tv,
                       gotterm, now, deadline, calls>>
        /\ running' = Head(active) /\ wanted' \subseteq wanted /\ pc' = "callback"
        /\ active # <<>>
    BY <1>14 DEF Process
  <2>2. Head(active) \in Event
    <3>1. active \in Seq(ToSet(active)) /\ Distinct(active) /\ ToSet(active) \subseteq wanted
      BY DEF QueuesInv, Exact
    <3> QED BY <2>1, <3>1, TailLemma
  <2> QED BY <2>1, <2>2 DEF clocks
<1>15. CASE Return \/ Processed
  BY <1>15 DEF Return, Processed, clocks, queues
<1>16. QED
  BY <1>1, <1>2, <1>3, <1>4, <1>5, <1>6, <1>7, <1>8, <1>9, <1>10, <1>11, <1>12, <1>13,
     <1>14, <1>15 DEF Next

(* Every step leaves the queues with what the program wants. *)
LEMMA QueuesStep == QueuesInv /\ EarlyInv /\ [Next]_vars => QueuesInv'
<1> SUFFICES ASSUME QueuesInv, EarlyInv, [Next]_vars PROVE Exact'
  BY TypesStep DEF QueuesInv
<1>1. CASE UNCHANGED vars
  BY <1>1, SameExact DEF vars, queues
<1>2. CASE Tick \/ SetClock
  BY <1>2, SameExact DEF Tick, SetClock, queues
<1>3. ASSUME NEW e \in Timer, AddTimerFails(e) \/ \E d \in Delays : AddTimer(e, d)
      PROVE  Exact'
  <2>1. CASE AddTimerFails(e)
    BY <2>1, SameExact DEF AddTimerFails, queues
  <2>2. CASE \E d \in Delays : AddTimer(e, d)
    BY <2>2, AddTimerExact
  <2> QED BY <1>3, <2>1, <2>2
<1>4. ASSUME NEW e \in Io, NEW fd \in Fd, AddIo(e, fd)
      PROVE  Exact'
  BY <1>4, AddIoExact
<1>5. ASSUME NEW e \in Event, Del(e)
      PROVE  Exact'
  BY <1>5, DelExact
<1>6. CASE LoopExit \/ Enter \/ LoopExits \/ GoToSleep \/ NoEvents
  BY <1>6, SameExact DEF LoopExit, Enter, LoopExits, GoToSleep, NoEvents, queues
<1>7. CASE Correct
  BY <1>7, CorrectExact
<1>8. CASE Dispatch
  BY <1>8, DispatchExact DEF EarlyInv
<1>9. CASE Expire
  BY <1>9, ExpireExact
<1>10. CASE NoneExpires \/ Return \/ Processed
  BY <1>10, SameExact DEF NoneExpires, Return, Processed, queues
<1>11. CASE Process
  BY <1>11, ProcessExact
<1>12. QED
  BY <1>1, <1>2, <1>3, <1>4, <1>5, <1>6, <1>7, <1>8, <1>9, <1>10, <1>11 DEF Next

LEMMA QueuesInit == Init => QueuesInv
<1> SUFFICES ASSUME Init PROVE QueuesInv
  OBVIOUS
<1>1. LoopTypes
  <2>1. 0 \in 0..MaxTime /\ 0 \in 0..MaxCalls
    BY EvAssumption
  <2>2. event_tv \in Int /\ deadline \in Nat
    BY DEF Init, Clock
  <2>3. /\ ev_timeout \in [Timer -> Int] /\ due \in [Timer -> Nat]
        /\ ev_fd \in [Io -> Fd \cup {None}] /\ evread \in [Fd -> Io \cup {None}]
    BY DEF Init
  <2>4. time \in 0..MaxTime /\ calls \in 0..MaxCalls /\ skew \in Skews \cup {0} /\ now \in Int
    BY <2>1 DEF Init
  <2>5. /\ reserved \in BOOLEAN /\ gotterm \in BOOLEAN
        /\ clock_set \in {"never", "back", "on"}
        /\ pc \in {"setup", "top", "next", "wait", "expire", "process", "callback", "left"}
    BY DEF Init
  <2>6. /\ polled \subseteq Fd /\ wanted \subseteq Event /\ old \subseteq Timer
        /\ running \in Event \cup {None}
    BY DEF Init
  <2> QED BY <2>2, <2>3, <2>4, <2>5, <2>6 DEF LoopTypes
<1>2. Waiting = {}
  BY DEF Init, Waiting
<1>3. IsHeap(heap, ev_timeout, Timer, Waiting) /\ Len(heap.p) = 0
  BY <1>2, EmptyHeapLemma DEF Init
<1>4. IsFiniteSet(inserted) /\ Cardinality(inserted) = 0
  BY FS_EmptySet DEF Init
<1>5. active = <<>> /\ inserted = {} /\ wanted = {} /\ event_count = 0
      /\ evread = [fd \in Fd |-> None]
  BY DEF Init
<1>6. ToSet(active) = {} /\ Distinct(active) /\ active \in Seq(ToSet(active)) /\ Len(active) = 0
  BY <1>5 DEF ToSet, Distinct
<1>7. event_count = Len(heap.p) + Len(active) + Cardinality(inserted)
  BY <1>3, <1>4, <1>5, <1>6
<1>8. QED
  BY <1>1, <1>3, <1>4, <1>5, <1>6, <1>7 DEF QueuesInv, Exact

(* A sequence without repetitions is as long as there are elements in it. *)
LEMMA DistinctLemma ==
  ASSUME NEW s, s \in Seq(ToSet(s)), Distinct(s)
  PROVE  Cardinality(ToSet(s)) = Len(s)
<1> DEFINE n == Len(s)
<1>1. n \in Nat /\ DOMAIN s = 1..n
  OBVIOUS
<1>2. s \in Bijection(1..n, ToSet(s))
  <2>1. s \in [1..n -> ToSet(s)]
    BY <1>1
  <2>2. \A t \in ToSet(s) : \E i \in 1..n : s[i] = t
    BY <1>1 DEF ToSet
  <2> QED BY <1>1, <2>1, <2>2 DEF Bijection, Injection, Surjection, IsInjective, Distinct
<1>3. ExistsBijection(1..n, ToSet(s))
  BY <1>2 DEF ExistsBijection
<1>4. IsFiniteSet(1..n) /\ Cardinality(1..n) = n
  BY <1>1, FS_Interval
<1> HIDE DEF n
<1>5. Cardinality(1..n) = Cardinality(ToSet(s))
  BY <1>3, <1>4, FS_Bijection
<1> QED BY <1>4, <1>5 DEF n

(* The loop, its clock and its queues keep their types; the index an event of the
   heap remembers is never beyond the number of timers. *)
THEOREM EvLoopTypeCorrect == Spec => []TypeOK
<1>1. QueuesInv => TypeOK
  <2> SUFFICES ASSUME QueuesInv PROVE TypeOK
    OBVIOUS
  <2>1. IsHeap(heap, ev_timeout, Timer, Waiting) /\ Waiting \subseteq Timer
    BY DEF QueuesInv, Exact, IsHeap
  <2>2. heap.p \in Seq(Timer) /\ heap.idx \in [Timer -> 0..Cardinality(Timer)]
    <3>1. /\ heap.p \in Seq(Timer) /\ heap.idx \in [Timer -> Nat]
          /\ Has(heap, Waiting, Len(heap.p)) /\ \A e \in Timer \ Waiting : heap.idx[e] = 0
      BY <2>1 DEF IsHeap, HeapOf, NoPlace
    <3>2. Len(heap.p) = Cardinality(Waiting)
      BY <2>1, SizeLemma
    <3>3. Cardinality(Waiting) <= Cardinality(Timer) /\ Cardinality(Timer) \in Nat
      BY <2>1, EvAssumption, FS_Subset, FS_CardinalityType
    <3>4. ASSUME NEW e \in Timer PROVE heap.idx[e] \in 0..Cardinality(Timer)
      <4>1. CASE e \in Waiting
        <5>1. PICK i \in 1..Len(heap.p) : heap.p[i] = e /\ heap.idx[e] = i
          BY <4>1, <3>1 DEF Has
        <5>2. Len(heap.p) \in Nat
          BY <3>1
        <5> QED BY <5>1, <5>2, <3>2, <3>3
      <4>2. CASE e \notin Waiting
        BY <4>2, <3>1, <3>3
      <4> QED BY <4>1, <4>2
    <3> QED BY <3>1, <3>4
  <2>3. active \in Seq(Event) /\ inserted \subseteq Io /\ event_count \in Int
    <3>1. /\ active \in Seq(ToSet(active)) /\ ToSet(active) \subseteq wanted
          /\ inserted = wanted \cap Io /\ wanted \subseteq Event
          /\ event_count = Len(heap.p) + Len(active) + Cardinality(inserted)
      BY DEF QueuesInv, Exact, LoopTypes
    <3>2. active \in Seq(Event)
      <4>1. /\ Len(active) \in Nat /\ active = [i \in 1..Len(active) |-> active[i]]
            /\ \A i \in 1..Len(active) : active[i] \in ToSet(active)
        BY <3>1 DEF ToSet
      <4> QED BY <4>1, <3>1
    <3>3. Len(heap.p) \in Nat /\ Len(active) \in Nat /\ Cardinality(inserted) \in Nat
      BY InHeapLemma
    <3> QED BY <3>1, <3>2, <3>3
  <2> QED BY <2>2, <2>3 DEF QueuesInv, LoopTypes, TypeOK
<1>2. QED
  BY <1>1, EarlyInit, EarlyStep, QueuesInit, QueuesStep, PTL DEF Spec

(* Over any history of additions, deletions, expirations and callbacks the queues hold
   the events the program wants, once each and no others, event_count is their sum, the
   heap is ordered and every event in it knows its place. *)
THEOREM EvLoopQueuesAreExact == Spec => []QueuesAreExact
<1>1. QueuesInv => QueuesAreExact
  <2> SUFFICES ASSUME QueuesInv PROVE QueuesAreExact
    OBVIOUS
  <2>1. /\ IsHeap(heap, ev_timeout, Timer, Waiting) /\ heap \in HeapOf(Timer)
        /\ ev_timeout \in [Timer -> Int]
    BY DEF QueuesInv, Exact, LoopTypes, IsHeap
  <2>2. Holds(heap, Waiting) /\ Ordered(heap, ev_timeout)
    BY <2>1, IsHeapLemma
  <2>3. Cardinality(ToSet(active)) = Len(active)
    BY DistinctLemma DEF QueuesInv, Exact
  <2> QED BY <2>2, <2>3 DEF QueuesInv, Exact, QueuesAreExact, Waiting
<1>2. QED
  BY <1>1, EarlyInit, EarlyStep, QueuesInit, QueuesStep, PTL DEF Spec

-----------------------------------------------------------------------------
(* While the clock is not set back it shows no less than when it was checked, and no
   timer is due, by the clock, later than it was meant to be. *)
Slept ==
  clock_set # "back" =>
    /\ event_tv <= Clock
    /\ \A e \in Timer : ev_timeout[e] - due[e] <= skew
    /\ pc = "wait" /\ deadline > time =>
         active = <<>> /\ \A e \in Timer : InHeap(e) => deadline <= due[e]

(* timeout_next looks at the top of the heap only: what is below is not due earlier. *)
LEMMA SleepLemma ==
  ASSUME QueuesInv, Slept, clock_set # "back", Sleep > time
  PROVE  active = <<>> /\ \A e \in Timer : InHeap(e) => Sleep <= due[e]
<1>1. /\ time \in Int /\ skew \in Int /\ ev_timeout \in [Timer -> Int] /\ due \in [Timer -> Nat]
  BY EvAssumption DEF QueuesInv, LoopTypes
<1>2. active = <<>>
  <2>1. active # <<>> => Sleep = time
    BY DEF Sleep
  <2> HIDE DEF Sleep
  <2> QED BY <2>1, <1>1
<1>3. ASSUME NEW e \in Timer, InHeap(e) PROVE Sleep <= due[e]
  <2>1. IsHeap(heap, ev_timeout, Timer, Waiting) /\ e \in Waiting /\ Waiting \subseteq Timer
    BY <1>3, InHeapLemma DEF QueuesInv, Exact, Event
  <2>2. heap.p # <<>> /\ heap.p[1] \in Waiting /\ ev_timeout[heap.p[1]] <= ev_timeout[e]
    BY <2>1, <1>1, TopLemma
  <2> DEFINE t == ev_timeout[heap.p[1]]
  <2>3. t \in Int /\ ev_timeout[e] \in Int /\ due[e] \in Int
    BY <2>1, <2>2, <1>1
  <2>4. Sleep = time + (IF t <= Clock THEN 0 ELSE t - Clock)
    BY <2>2, <1>2 DEF Sleep
  <2>5. ev_timeout[e] - due[e] <= skew
    BY DEF Slept
  <2> HIDE DEF t, Sleep
  <2>6. t <= ev_timeout[e]
    BY <2>2 DEF t
  <2> QED BY <2>3, <2>4, <2>5, <2>6, <1>1 DEF Clock
<1>4. QED
  BY <1>2, <1>3

LEMMA SleptStep == QueuesInv /\ Slept /\ [Next]_vars => Slept'
<1> SUFFICES ASSUME QueuesInv, Slept, [Next]_vars, clock_set' # "back" PROVE Slept'
  BY DEF Slept
<1>0. /\ time \in Int /\ skew \in Int /\ event_tv \in Int /\ deadline \in Int
      /\ ev_timeout \in [Timer -> Int] /\ due \in [Timer -> Int]
  BY EvAssumption DEF QueuesInv, LoopTypes
<1>1. CASE UNCHANGED vars
  BY <1>1 DEF vars, clocks, queues, loop, Slept, Clock, InHeap
<1>2. CASE Tick
  <2>1. time' = time + 1 /\ UNCHANGED <<skew, clock_set, queues, loop>>
    BY <1>2 DEF Tick
  <2>2. deadline' > time' => deadline > time
    BY <2>1, <1>0 DEF loop
  <2>3. event_tv <= Clock => event_tv' <= Clock'
    BY <2>1, <1>0 DEF loop, Clock
  <2> QED BY <2>1, <2>2, <2>3 DEF Slept, queues, loop, InHeap
<1>3. CASE SetClock
  <2>1. /\ clock_set = "never" /\ skew' \in Int /\ ~ (skew' < skew)
        /\ UNCHANGED <<time, queues, loop>>
    BY <1>3, EvAssumption DEF SetClock
  <2>2. event_tv <= Clock => event_tv' <= Clock'
    <3>1. event_tv' = event_tv /\ time' = time
      BY <2>1 DEF loop
    <3>2. time \in Int /\ skew \in Int /\ skew' \in Int /\ event_tv \in Int
      BY <2>1, <1>0
    <3>3. ~ (skew' < skew)
      BY <2>1
    <3>4. Clock = time + skew /\ Clock' = time + skew'
      BY <3>1 DEF Clock
    <3> DEFINE s == skew'
               c == Clock
               d == Clock'
               e == event_tv'
    <3>5. s \in Int /\ ~ (s < skew) /\ c = time + skew /\ d = time + s /\ e = event_tv
      BY <3>1, <3>2, <3>3, <3>4
    <3> HIDE DEF s, c, d, e
    <3>6. event_tv <= c => e <= d
      BY ONLY <3>2, <3>5
    <3> QED BY <3>6 DEF c, d, e
  <2>3. \A e \in Timer : ev_timeout[e] - due[e] <= skew => ev_timeout'[e] - due'[e] <= skew'
    <3> TAKE e \in Timer
    <3>1. ev_timeout[e] \in Int /\ due[e] \in Int /\ ev_timeout' = ev_timeout /\ due' = due
      BY <2>1, <1>0 DEF queues
    <3> QED BY <3>1, <2>1, <1>0
  <2> QED BY <2>1, <2>2, <2>3 DEF Slept, queues, loop, InHeap
<1>4. ASSUME NEW e \in Timer, NEW d \in Delays, AddTimer(e, d)
      PROVE  Slept'
  <2>1. /\ UNCHANGED <<clocks, event_tv, pc>> /\ pc \in {"setup", "callback"}
        /\ ev_timeout' = [ev_timeout EXCEPT ![e] = Clock + d]
        /\ due' = [due EXCEPT ![e] = time + d] /\ d \in Nat
    BY <1>4, EvAssumption DEF AddTimer, Calling
  <2>2. ASSUME NEW x \in Timer, ev_timeout[x] - due[x] <= skew
        PROVE  ev_timeout'[x] - due'[x] <= skew
    <3>1. CASE x = e
      <4>1. ev_timeout'[x] = time + skew + d /\ due'[x] = time + d
        BY <3>1, <2>1, <1>0 DEF Clock
      <4> QED BY <4>1, <2>1, <1>0
    <3>2. CASE x # e
      BY <3>2, <2>1, <2>2, <1>0
    <3> QED BY <3>1, <3>2
  <2> QED BY <2>1, <2>2 DEF Slept, clocks, Clock
<1>5. ASSUME NEW e \in Timer, AddTimerFails(e)
      PROVE  Slept'
  BY <1>5 DEF AddTimerFails, Calling, clocks, queues, Slept, Clock
<1>6. ASSUME NEW e \in Io, NEW fd \in Fd, AddIo(e, fd)
      PROVE  Slept'
  BY <1>6 DEF AddIo, Calling, clocks, Slept, Clock
<1>7. ASSUME NEW e \in Event, Del(e)
      PROVE  Slept'
  BY <1>7 DEF Del, Calling, clocks, Slept, Clock
<1>8. CASE LoopExit \/ Enter \/ LoopExits \/ NoEvents
  BY <1>8 DEF LoopExit, Calling, Enter, LoopExits, NoEvents, clocks, queues, Slept, Clock
<1>9. CASE Correct
  <2>1. /\ UNCHANGED <<clocks, due>> /\ pc' = "next"
        /\ \/ event_tv' = Clock /\ UNCHANGED ev_timeout
           \/ Clock < event_tv
    BY <1>9 DEF Correct
  <2>2. event_tv <= Clock /\ Clock \in Int
    BY <2>1, <1>0 DEF Slept, clocks, Clock
  <2>3. event_tv' = Clock /\ UNCHANGED ev_timeout
    BY <2>1, <2>2, <1>0
  <2> QED BY <2>1, <2>2, <2>3 DEF Slept, clocks, Clock
<1>10. CASE GoToSleep
  <2>1. /\ UNCHANGED <<clocks, queues, event_tv>> /\ deadline' = Sleep
    BY <1>10 DEF GoToSleep
  <2>2. Sleep > time => active = <<>> /\ \A e \in Timer : InHeap(e) => Sleep <= due[e]
    BY <2>1, SleepLemma DEF clocks
  <2> HIDE DEF Sleep
  <2> QED BY <2>1, <2>2 DEF Slept, clocks, queues, Clock, InHeap
<1>11. CASE Dispatch
  BY <1>11 DEF Dispatch, clocks, Slept, Clock
<1>12. CASE Expire \/ NoneExpires
  BY <1>12 DEF Expire, NoneExpires, clocks, queues, loop, Slept, Clock
<1>13. CASE Process \/ Return \/ Processed
  BY <1>13 DEF Process, Return, Processed, clocks, queues, Slept, Clock
<1>14. QED
  BY <1>1, <1>2, <1>3, <1>4, <1>5, <1>6, <1>7, <1>8, <1>9, <1>10, <1>11, <1>12, <1>13
     DEF Next

(* However many timers there are, the loop does not sleep with an event to call nor
   beyond the time of any timer while the clock is not set back: that it looks at the
   top of the heap only is enough because the heap is ordered at every moment. *)
THEOREM EvLoopOverdueIsNotSleptOn == Spec => []OverdueIsNotSleptOn
<1>1. Init => Slept
  <2> SUFFICES ASSUME Init PROVE Slept
    OBVIOUS
  <2>1. \A e \in Timer : ev_timeout[e] = 0 /\ due[e] = 0
    BY DEF Init
  <2> QED BY <2>1 DEF Init, Slept, Clock
<1>2. Slept => OverdueIsNotSleptOn
  BY DEF Slept, OverdueIsNotSleptOn
<1>3. QED
  BY <1>1, <1>2, EarlyInit, EarlyStep, QueuesInit, QueuesStep, SleptStep, PTL DEF Spec
=============================================================================
