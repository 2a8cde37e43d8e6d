---------------------------- MODULE EvBackendsProof ----------------------------
(***************************************************************************)
(* Proofs about EvBackends, for every set of events, all descriptors and   *)
(* sizes of the arrays, and every allocation that may fail: each back end  *)
(* stays within its memory, its tables agree at every turn, and it         *)
(* implements EvDemux.                                                     *)
(*                                                                         *)
(* For each of select, epoll and poll: an operator on its structure that   *)
(* was good, for the events added so far, gives one that is good for the   *)
(* events added after it.  What is good is type and agreement, for poll    *)
(* with PollKnown.  The arrays grow by doubling until there is room, which *)
(* the first lemmas show to end.                                           *)
(***************************************************************************)
EXTENDS EvBackends, TLAPS, SequenceTheorems, FiniteSetTheorems, WellFoundedInduction

(* A set of natural numbers has a least one. *)
LEMMA LeastLemma ==
  ASSUME NEW T, T \subseteq Nat, T # {}
  PROVE  \E x \in T : \A y \in T : x <= y
<1> DEFINE R == {ss \in Nat \X Nat : ss[1] < ss[2]}
<1>1. IsWellFoundedOn(R, Nat)
  BY NatLessThanWellFounded DEF OpToRel
<1>2. \A y \in Nat, z \in Nat : <<y, z>> \in R <=> y < z
  OBVIOUS
<1> HIDE DEF R
<1>3. PICK x \in T : \A y \in T : ~ (<<y, x>> \in R)
  BY <1>1, WFMin
<1>4. ASSUME NEW y \in T PROVE x <= y
  <2>1. x \in Nat /\ y \in Nat /\ ~ (y < x)
    BY <1>2, <1>3
  <2> QED BY <2>1
<1> QED BY <1>4

(* f is b, 2b, 4b ... as far as n. *)
Doubles(f, b, n) ==
  /\ f \in [0..n -> Nat]
  /\ f[0] = b
  /\ \A j \in 1..n : f[j] = 2 * f[j - 1]

(* There is such a function for every b and n: at the least n without one  *)
(* there would be one.                                                     *)
LEMMA DoublesExist ==
  ASSUME NEW b \in Nat, NEW n \in Nat
  PROVE  \E f : Doubles(f, b, n)
<1> DEFINE T == {k \in Nat : ~ \E f : Doubles(f, b, k)}
<1> SUFFICES ASSUME T # {} PROVE FALSE
  OBVIOUS
<1>1. PICK x \in T : \A y \in T : x <= y
  BY LeastLemma
<1>2. x \in Nat /\ ~ \E f : Doubles(f, b, x)
  OBVIOUS
<1>3. x # 0
  <2>1. Doubles([j \in 0..0 |-> b], b, 0)
    BY DEF Doubles
  <2> QED BY <1>2, <2>1
<1>4. x - 1 \in Nat /\ x - 1 \notin T
  <2>1. x - 1 \in Nat /\ ~ (x <= x - 1)
    BY <1>2, <1>3
  <2> QED BY <2>1, <1>1
<1>5. PICK f : Doubles(f, b, x - 1)
  BY <1>4
<1> HIDE DEF T
<1> DEFINE g == [j \in 0..x |-> IF j = x THEN 2 * f[x - 1] ELSE f[j]]
<1>6. Doubles(g, b, x)
  <2>1. \A j \in 0..x : j # x => j \in 0..x - 1
    BY <1>2
  <2>2. g \in [0..x -> Nat]
    BY <1>2, <1>4, <1>5, <2>1 DEF Doubles
  <2>3. g[0] = b
    BY <1>2, <1>3, <1>5 DEF Doubles
  <2>4. ASSUME NEW j \in 1..x PROVE g[j] = 2 * g[j - 1]
    <3>1. j - 1 \in 0..x /\ j - 1 # x /\ j \in 0..x
      BY <1>2
    <3>2. g[j - 1] = f[j - 1]
      BY <3>1
    <3>3. CASE j = x
      BY <3>1, <3>2, <3>3
    <3>4. CASE j # x
      <4>1. j \in 1..x - 1
        BY <3>4, <1>2
      <4>2. g[j] = f[j] /\ f[j] = 2 * f[j - 1]
        BY <3>1, <3>4, <4>1, <1>5 DEF Doubles
      <4> QED BY <3>2, <4>2
    <3> QED BY <3>3, <3>4
  <2> HIDE DEF g
  <2> QED BY <2>2, <2>3, <2>4 DEF Doubles
<1> QED BY <1>2, <1>6

(* The recursive function of the model is that. *)
LEMMA DoublingsLemma ==
  ASSUME NEW b \in Nat, NEW n \in Nat
  PROVE  Doubles(Doublings(b, n), b, n)
<1> DEFINE F(f) == [j \in 0..n |-> IF j = 0 THEN b ELSE 2 * f[j - 1]]
<1>1. PICK f : Doubles(f, b, n)
  BY DoublesExist
<1>2. f = F(f)
  <2>1. \A j \in 0..n : j # 0 => j \in 1..n
    OBVIOUS
  <2>2. \A j \in 0..n : f[j] = F(f)[j]
    BY <1>1, <2>1 DEF Doubles
  <2>3. f \in [0..n -> Nat]
    BY <1>1 DEF Doubles
  <2> QED BY <2>2, <2>3
<1>3. Doublings(b, n) = CHOOSE g : g = F(g)
  BY DEF Doublings
<1> DEFINE g == Doublings(b, n)
<1>4. g = F(g)
  BY <1>2, <1>3
<1> HIDE DEF g, F
<1>5. \A j \in 0..n : g[j] = IF j = 0 THEN b ELSE 2 * g[j - 1]
  BY <1>4 DEF F
<1>6. g[0] = b
  BY <1>5
<1>7. \A j \in 1..n : g[j] = 2 * g[j - 1]
  <2>1. \A j \in 1..n : j \in 0..n /\ j # 0
    OBVIOUS
  <2> QED BY <1>5, <2>1
<1>8. g \in [0..n -> Nat]
  <2> DEFINE T == {k \in Nat : k \in 0..n /\ g[k] \notin Nat}
  <2>1. CASE T # {}
    <3>1. PICK x \in T : \A y \in T : x <= y
      BY <2>1, LeastLemma
    <3>2. x \in Nat /\ x \in 0..n /\ g[x] \notin Nat
      OBVIOUS
    <3>3. x # 0
      BY <3>2, <1>6
    <3>4. x \in 1..n /\ x - 1 \in Nat /\ x - 1 \in 0..n /\ ~ (x <= x - 1)
      BY <3>2, <3>3
    <3>5. g[x - 1] \in Nat
      BY <3>1, <3>4
    <3> QED BY <3>2, <3>4, <3>5, <1>7
  <2>2. CASE T = {}
    <3>1. \A k \in 0..n : g[k] \in Nat
      BY <2>2
    <3>2. g = [j \in 0..n |-> IF j = 0 THEN b ELSE 2 * g[j - 1]]
      BY <1>4 DEF F
    <3>3. DOMAIN g = 0..n /\ g = [j \in 0..n |-> g[j]]
      BY <3>2
    <3> QED BY <3>1, <3>3
  <2> QED BY <2>1, <2>2
<1>9. Doubles(g, b, n)
  BY <1>6, <1>7, <1>8 DEF Doubles
<1> QED BY <1>9 DEF g

(* They grow at each step. *)
LEMMA DoublesGrow ==
  ASSUME NEW b \in Nat, b > 0, NEW n \in Nat, NEW f, Doubles(f, b, n), NEW j \in 0..n
  PROVE  f[j] \in Nat /\ f[j] > j /\ f[j] >= b
<1> DEFINE T == {k \in Nat : k \in 0..n /\ ~ (f[k] > k /\ f[k] >= b)}
<1>1. f \in [0..n -> Nat] /\ f[0] = b /\ \A k \in 1..n : f[k] = 2 * f[k - 1]
  BY DEF Doubles
<1>2. CASE T # {}
  <2>1. PICK x \in T : \A y \in T : x <= y
    BY <1>2, LeastLemma
  <2>2. x \in Nat /\ x \in 0..n /\ ~ (f[x] > x /\ f[x] >= b)
    OBVIOUS
  <2>3. x # 0
    BY <2>2, <1>1
  <2>4. x \in 1..n /\ x - 1 \in Nat /\ x - 1 \in 0..n /\ ~ (x <= x - 1)
    BY <2>2, <2>3
  <2>5. f[x - 1] > x - 1 /\ f[x - 1] >= b /\ f[x - 1] \in Nat /\ f[x] = 2 * f[x - 1]
    BY <1>1, <2>1, <2>4
  <2> QED BY <2>2, <2>5
<1>3. CASE T = {}
  <2>1. j \in Nat /\ j \notin T
    BY <1>3
  <2>2. f[j] \in Nat
    BY <1>1
  <2> QED BY <2>1, <2>2
<1> QED BY <1>2, <1>3

(* m is one of b, 2b, 4b ... *)
IsDoubling(b, m) == \E n \in Nat : \E f : Doubles(f, b, n) /\ m = f[n]

(* What Doubled returns is one of them and large enough. *)
LEMMA DoubledLemma ==
  ASSUME NEW b \in Nat, b > 0, NEW n \in Nat
  PROVE  /\ Doubled(b, n) \in Nat /\ Doubled(b, n) >= n /\ Doubled(b, n) >= b
         /\ IsDoubling(b, Doubled(b, n))
<1> DEFINE f == Doublings(b, n)
           P(j) == f[j] >= n /\ \A k \in 0..(j - 1) : f[k] < n
           T == {j \in 0..n : f[j] >= n}
           c == CHOOSE j \in 0..n : P(j)
<1>1. Doubles(f, b, n)
  BY DoublingsLemma
<1>2. Doubled(b, n) = f[c]
  BY DEF Doubled
<1> HIDE DEF f
<1>3. T # {} /\ T \subseteq Nat
  <2>1. n \in 0..n /\ f[n] \in Nat /\ f[n] > n
    BY <1>1, DoublesGrow
  <2>2. f[n] >= n
    BY <2>1
  <2> QED BY <2>1, <2>2
<1>4. PICK j \in T : \A k \in T : j <= k
  BY <1>3, LeastLemma
<1>5. P(j) /\ j \in 0..n
  <2>1. ASSUME NEW k \in 0..(j - 1) PROVE f[k] < n
    <3>1. k \in 0..n /\ ~ (j <= k)
      BY <1>4
    <3>2. f[k] \in Nat /\ ~ (f[k] >= n)
      BY <3>1, <1>1, <1>4, DoublesGrow
    <3> QED BY <3>2
  <2> QED BY <2>1, <1>4
<1>6. P(c) /\ c \in 0..n
  BY <1>5
<1> HIDE DEF c
<1>7. f[c] \in Nat /\ f[c] >= n /\ f[c] >= b
  BY <1>1, <1>6, DoublesGrow
<1>8. IsDoubling(b, f[c])
  <2> DEFINE g == [j1 \in 0..c |-> f[j1]]
  <2>1. \A k \in 0..c : k \in 0..n
    BY <1>6
  <2>2. g \in [0..c -> Nat] /\ g[0] = b /\ g[c] = f[c]
    BY <1>1, <1>6, <2>1 DEF Doubles
  <2>3. \A k \in 1..c : g[k] = 2 * g[k - 1]
    <3>1. \A k \in 1..c : k \in 1..n /\ k \in 0..c /\ k - 1 \in 0..c
      BY <1>6
    <3> QED BY <3>1, <1>1 DEF Doubles
  <2> HIDE DEF g
  <2>4. c \in Nat /\ Doubles(g, b, c)
    BY <1>6, <2>2, <2>3 DEF Doubles
  <2> QED BY <2>2, <2>4 DEF IsDoubling
<1> QED BY <1>2, <1>7, <1>8

(* A doubling of a doubling is one. *)
LEMMA DoublingTwice ==
  ASSUME NEW b \in Nat, NEW m, NEW k, IsDoubling(b, m), IsDoubling(m, k)
  PROVE  IsDoubling(b, k)
<1>1. PICK n1 \in Nat : \E f : Doubles(f, b, n1) /\ m = f[n1]
  BY DEF IsDoubling
<1>2. PICK f : Doubles(f, b, n1) /\ m = f[n1]
  BY <1>1
<1>3. PICK n2 \in Nat : \E g : Doubles(g, m, n2) /\ k = g[n2]
  BY DEF IsDoubling
<1>4. PICK g : Doubles(g, m, n2) /\ k = g[n2]
  BY <1>3
<1> DEFINE n == n1 + n2
           h == [j \in 0..n |-> IF j <= n1 THEN f[j] ELSE g[j - n1]]
<1>5. n \in Nat /\ h[n] = k /\ h[0] = b
  <2>1. CASE n2 = 0
    BY <1>2, <1>4, <2>1 DEF Doubles
  <2>2. CASE n2 # 0
    BY <1>2, <1>4, <2>2 DEF Doubles
  <2> QED BY <2>1, <2>2
<1>6. h \in [0..n -> Nat]
  <2>1. ASSUME NEW j \in 0..n PROVE h[j] \in Nat
    <3>1. CASE j <= n1
      BY <3>1, <1>2 DEF Doubles
    <3>2. CASE ~ (j <= n1)
      BY <3>2, <1>4 DEF Doubles
    <3> QED BY <3>1, <3>2
  <2> QED BY <2>1
<1>7. ASSUME NEW j \in 1..n PROVE h[j] = 2 * h[j - 1]
  <2>0. j \in 0..n /\ j - 1 \in 0..n
    OBVIOUS
  <2>1. CASE j <= n1
    <3>1. h[j] = f[j] /\ h[j - 1] = f[j - 1] /\ j \in 1..n1
      BY <2>0, <2>1
    <3> QED BY <3>1, <1>2 DEF Doubles
  <2>2. CASE j = n1 + 1
    <3>1. h[j] = g[1] /\ h[j - 1] = f[n1] /\ 1 \in 1..n2 /\ 1 - 1 = 0
      BY <2>0, <2>2
    <3>2. g[1] = 2 * g[1 - 1] /\ g[0] = m
      BY <3>1, <1>4 DEF Doubles
    <3> HIDE DEF h
    <3> QED BY <3>1, <3>2, <1>2
  <2>3. CASE j > n1 + 1
    <3>1. h[j] = g[j - n1] /\ h[j - 1] = g[(j - 1) - n1] /\ j - n1 \in 1..n2
          /\ (j - 1) - n1 = (j - n1) - 1
      BY <2>0, <2>3
    <3> HIDE DEF h
    <3> QED BY <3>1, <1>4 DEF Doubles
  <2> QED BY <2>1, <2>2, <2>3
<1> HIDE DEF h
<1> QED BY <1>5, <1>6, <1>7 DEF Doubles, IsDoubling

(* u is s and then v as far as n. *)
Extends(u, s, n, v) ==
  /\ Len(u) = IF n > Len(s) THEN n ELSE Len(s)
  /\ \A i \in 1..Len(s) : u[i] = s[i]
  /\ \A i \in 1..Len(u) : i > Len(s) => u[i] = v

(* realloc keeps what was there, and the rest is filled with v. *)
LEMMA LongerLemma ==
  ASSUME NEW S, NEW s \in Seq(S), NEW n \in Nat, NEW v \in S
  PROVE  Longer(s, n, v) \in Seq(S) /\ Extends(Longer(s, n, v), s, n, v)
<1> DEFINE l == Len(s)
           m == IF n > l THEN n - l ELSE 0
           t == [k \in 1..(n - l) |-> v]
<1>1. l \in Nat /\ m \in Nat
  OBVIOUS
<1>2. 1..(n - l) = 1..m
  BY <1>1
<1>3. t \in Seq(S) /\ Len(t) = m /\ \A i \in 1..m : t[i] = v
  <2>1. t \in [1..m -> S]
    BY <1>2
  <2>2. t \in Seq(S) /\ DOMAIN t = 1..m
    BY <1>1, <2>1
  <2> HIDE DEF m, l
  <2>3. Len(t) = m
    <3> HIDE DEF t
    <3>1. Len(t) \in Nat /\ DOMAIN t = 1..Len(t)
      BY <2>2, LenProperties
    <3>2. 1..Len(t) = 1..m
      BY <2>2, <3>1
    <3> DEFINE k == Len(t)
    <3> HIDE DEF k
    <3>3. k \in Nat /\ 1..k = 1..m
      BY <3>1, <3>2 DEF k
    <3>4. k \in 1..k => k \in 1..m
      BY ONLY <3>3
    <3>5. m \in 1..m => m \in 1..k
      BY ONLY <3>3
    <3>6. k = m
      BY ONLY <1>1, <3>3, <3>4, <3>5
    <3> QED BY <3>6 DEF k
  <2> QED BY <1>2, <2>2, <2>3
<1>4. Longer(s, n, v) = s \o t
  BY DEF Longer
<1> HIDE DEF t
<1>5. /\ s \o t \in Seq(S) /\ Len(s \o t) = l + m
      /\ \A i \in 1..(l + m) : (s \o t)[i] = IF i <= l THEN s[i] ELSE t[i - l]
  BY <1>1, <1>3, ConcatProperties
<1> DEFINE u == s \o t
<1> HIDE DEF u
<1>6. u \in Seq(S) /\ Len(u) = l + m /\ \A i \in 1..(l + m) : u[i] = IF i <= l THEN s[i] ELSE t[i - l]
  BY <1>5 DEF u
<1>7. \A i \in 1..l : u[i] = s[i]
  BY <1>1, <1>6
<1>8. \A i \in 1..(l + m) : i > l => u[i] = v
  <2> HIDE DEF l, m
  <2>1. ASSUME NEW i \in 1..(l + m), i > l PROVE u[i] = v
    <3>1. i - l \in 1..m /\ ~ (i <= l)
      BY <1>1, <2>1
    <3> QED BY <1>3, <1>6, <2>1, <3>1
  <2> QED BY <2>1
<1>9. l + m = IF n > l THEN n ELSE l
  BY <1>1
<1>10. u \in Seq(S) /\ Extends(u, s, n, v)
  <2> HIDE DEF m
  <2> QED BY <1>1, <1>6, <1>7, <1>8, <1>9 DEF Extends
<1> QED BY <1>4, <1>10 DEF u

-----------------------------------------------------------------------------
(* select.c *)

SelectGood(sop, added) == SelectType(sop) /\ SelectAgrees(sop, added)

(* Products are as their factors. *)
LEMMA TimesLemma ==
  ASSUME NEW a \in Nat, NEW b \in Nat, a <= b, NEW c \in Nat
  PROVE  a * c \in Nat /\ b * c \in Nat /\ a * c <= b * c
<1>1. a * c \in Nat /\ b * c \in Nat
  OBVIOUS
<1>2. PICK d \in Nat : b = a + d
  <2>1. b - a \in Nat /\ b = a + (b - a)
    OBVIOUS
  <2> QED BY <2>1
<1>3. b * c = a * c + d * c /\ d * c \in Nat
  BY <1>2
<1> QED BY <1>1, <1>3

(* There is room for n bits in Words(n) words. *)
LEMMA WordsLemma ==
  ASSUME NEW n \in Nat
  PROVE  Words(n) \in Nat /\ Words(n) * NFDBITS >= n
<1>1. NFDBITS \in Nat /\ NFDBITS > 0
  BY SelectAssumption
<1> DEFINE m == n + NFDBITS - 1
           q == m \div NFDBITS
           r == m % NFDBITS
<1>2. m \in Nat
  BY <1>1
<1> HIDE DEF m
<1>3. q \in Nat /\ r \in 0..(NFDBITS - 1) /\ m = NFDBITS * q + r
  BY <1>1, <1>2, SMTT(30)
<1>4. Words(n) = q
  BY DEF Words, m
<1> HIDE DEF q, r
<1>5. NFDBITS * q = q * NFDBITS /\ NFDBITS * q \in Nat
  BY <1>1, <1>3
<1>6. NFDBITS * q >= n
  BY <1>1, <1>3, <1>5 DEF m
<1> QED BY <1>3, <1>4, <1>5, <1>6

(* What is known of an event. *)
LEMMA EventLemma ==
  /\ Fd \subseteq Nat
  /\ \A e \in Event : /\ ev_fd[e] \in Fd /\ ev_fd[e] \in Nat
                      /\ ev_events[e] \subseteq Dir /\ ev_events[e] # {}
                      /\ e # Null /\ e # Junk
BY EventAssumption DEF Fd

SelectRecord ==
  [event_fds : Nat, event_fdsz : Nat, fdset : [Dir -> SUBSET Fd], out : [Dir -> SUBSET Fd],
   by_fd : [Dir -> Seq(Event \cup {Null})]]

(* The pointer of a descriptor for one direction, Null if there is none. *)
SelectSlot(sop, fd, d) == IF fd \in sop.fdset[d] THEN sop.by_fd[d][fd + 1] ELSE Null

(* The same pointers lead from the same descriptors. *)
SelectKeeps(r, sop) ==
  \A fd \in Fd, d \in Dir : SelectSlot(r, fd, d) = SelectSlot(sop, fd, d)

(* The pointers of e have become v, and no others have changed. *)
SelectPuts(r, sop, e, v) ==
  \A fd \in Fd, d \in Dir :
    SelectSlot(r, fd, d) = IF fd = ev_fd[e] /\ d \in ev_events[e] THEN v ELSE SelectSlot(sop, fd, d)

(* The pointers of a larger structure are those of the smaller one, and    *)
(* then null.                                                              *)
LEMMA ResizedLemma ==
  ASSUME NEW sop \in SelectRecord, NEW n \in Nat, NEW l \in Nat, NEW m \in Nat, l <= m,
         m = n * NFDBITS, \A d \in Dir : Len(sop.by_fd[d]) = l
  PROVE  /\ Resized(sop, n) \in SelectRecord
         /\ Resized(sop, n).event_fdsz = n
         /\ Resized(sop, n).event_fds = sop.event_fds
         /\ Resized(sop, n).fdset = sop.fdset
         /\ Resized(sop, n).out = sop.out
         /\ \A d \in Dir :
              /\ Len(Resized(sop, n).by_fd[d]) = m
              /\ \A i \in 1..m : Resized(sop, n).by_fd[d][i] =
                                 IF i <= l THEN sop.by_fd[d][i] ELSE Null
<1> DEFINE S == Event \cup {Null}
           b == [d \in Dir |-> Longer(sop.by_fd[d], m, Null)]
<1>1. \A d \in Dir : sop.by_fd[d] \in Seq(S)
  BY DEF SelectRecord
<1>2. ASSUME NEW d \in Dir
      PROVE  /\ b[d] \in Seq(S) /\ Len(b[d]) = m
             /\ \A i \in 1..m : b[d][i] = IF i <= l THEN sop.by_fd[d][i] ELSE Null
  <2>1. sop.by_fd[d] \in Seq(S) /\ Null \in S /\ Len(sop.by_fd[d]) = l /\ b[d] = Longer(sop.by_fd[d], m, Null)
    BY <1>1
  <2> HIDE DEF b, S
  <2> DEFINE s == sop.by_fd[d]
             u == Longer(s, m, Null)
  <2>2. s \in Seq(S) /\ Len(s) = l
    BY <2>1
  <2> HIDE DEF s
  <2>3. /\ u \in Seq(S) /\ Len(u) = IF m > Len(s) THEN m ELSE Len(s)
        /\ \A i \in 1..Len(s) : u[i] = s[i]
        /\ \A i \in 1..Len(u) : i > Len(s) => u[i] = Null
    <3>1. u \in Seq(S) /\ Extends(u, s, m, Null)
      BY ONLY <2>1, <2>2, m \in Nat, LongerLemma
    <3> HIDE DEF u
    <3> QED BY <3>1 DEF Extends
  <2> HIDE DEF u
  <2>4. Len(u) = m
    BY ONLY <2>2, <2>3, l \in Nat, m \in Nat, l <= m
  <2>5. \A i \in 1..m : u[i] = IF i <= l THEN s[i] ELSE Null
    BY ONLY <2>2, <2>3, <2>4, l \in Nat, m \in Nat
  <2>6. b[d] = u
    BY <2>1 DEF u, s
  <2> QED BY <2>3, <2>4, <2>5, <2>6 DEF s
<1>3. b \in [Dir -> Seq(S)]
  BY <1>2
<1>4. Resized(sop, n) = [sop EXCEPT !.event_fdsz = n, !.by_fd = b]
  BY DEF Resized
<1> HIDE DEF b
<1> QED BY <1>2, <1>3, <1>4 DEF SelectRecord

(* What select_init makes is good.                                         *)
LEMMA SelectInitGood == SelectGood(SelectInit, {})
<1> DEFINE s == [event_fds |-> 0, event_fdsz |-> 0,
                 fdset |-> [d \in Dir |-> {}], out |-> [d \in Dir |-> {}],
                 by_fd |-> [d \in Dir |-> <<>>]]
           n == Words(SelectMin + 1)
           m == n * NFDBITS
           r == Resized(s, n)
<1>1. n \in Nat /\ m \in Nat /\ m > 0
  <2>1. SelectMin + 1 \in Nat /\ SelectMin \in Nat /\ NFDBITS \in Nat
    BY SelectAssumption
  <2>2. n \in Nat /\ m >= SelectMin + 1
    BY <2>1, WordsLemma
  <2> HIDE DEF n
  <2>3. m \in Nat
    BY <2>1, <2>2
  <2> HIDE DEF m
  <2> QED BY <2>1, <2>2, <2>3
<1>2. s \in SelectRecord /\ s.event_fds = 0 /\ \A d \in Dir : s.fdset[d] = {} /\ Len(s.by_fd[d]) = 0
  BY DEF SelectRecord
<1>3. SelectInit = r
  BY DEF SelectInit
<1> HIDE DEF s, n
<1> HIDE DEF m
<1>4. /\ r \in SelectRecord /\ r.event_fdsz = n /\ r.event_fds = 0 /\ r.fdset = s.fdset
      /\ \A d \in Dir : Len(r.by_fd[d]) = m /\ \A i \in 1..m : r.by_fd[d][i] = Null
  <2>1. 0 \in Nat /\ 0 <= m /\ m = n * NFDBITS
    BY <1>1 DEF m
  <2>2. /\ r \in SelectRecord /\ r.event_fdsz = n /\ r.event_fds = s.event_fds /\ r.fdset = s.fdset
        /\ \A d \in Dir : Len(r.by_fd[d]) = m
             /\ \A i \in 1..m : r.by_fd[d][i] = IF i <= 0 THEN s.by_fd[d][i] ELSE Null
    BY <1>1, <1>2, <2>1, ResizedLemma
  <2>3. \A i \in 1..m : ~ (i <= 0)
    BY <1>1
  <2> HIDE DEF r
  <2> QED BY <2>2, <2>3, <1>2
<1> HIDE DEF r
<1>5. SelectType(r)
  BY <1>1, <1>4 DEF SelectType, SelectRecord, m
<1>6. SelectAgrees(r, {})
  <2>1. \A d \in Dir : DOMAIN r.by_fd[d] = 1..m /\ r.fdset[d] = {}
    BY <1>2, <1>4 DEF SelectRecord
  <2> QED BY <1>4, <2>1 DEF SelectAgrees
<1> QED BY <1>3, <1>5, <1>6 DEF SelectGood

(* A larger structure is as good. *)
LEMMA ResizedGood ==
  ASSUME NEW sop, NEW added, SelectGood(sop, added), NEW n \in Nat, sop.event_fdsz <= n
  PROVE  /\ SelectGood(Resized(sop, n), added)
         /\ Resized(sop, n).event_fdsz = n
         /\ SelectKeeps(Resized(sop, n), sop)
<1> DEFINE l == sop.event_fdsz * NFDBITS
           m == n * NFDBITS
           r == Resized(sop, n)
<1>1. sop \in SelectRecord /\ sop.event_fds < l /\ \A d \in Dir : Len(sop.by_fd[d]) = l
  BY DEF SelectGood, SelectType, SelectRecord
<1>2. sop.event_fds \in Nat /\ sop.event_fdsz \in Nat
  BY <1>1 DEF SelectRecord
<1>3. l \in Nat /\ m \in Nat /\ l <= m
  BY <1>2, TimesLemma, SelectAssumption
<1> HIDE DEF l
<1>4. m = n * NFDBITS
  OBVIOUS
<1> HIDE DEF m
<1>5. /\ r \in SelectRecord /\ r.event_fdsz = n /\ r.event_fds = sop.event_fds
      /\ r.fdset = sop.fdset
      /\ \A d \in Dir :
              /\ Len(r.by_fd[d]) = m
              /\ \A i \in 1..m : r.by_fd[d][i] = IF i <= l THEN sop.by_fd[d][i] ELSE Null
  BY <1>1, <1>3, <1>4, ResizedLemma
<1> HIDE DEF r
<1>6. SelectType(r)
  <2>1. sop.event_fds < m
    BY <1>1, <1>2, <1>3
  <2> QED BY <1>4, <1>5, <2>1 DEF SelectType, SelectRecord
<1>7. SelectAgrees(r, added)
  <2> SUFFICES ASSUME NEW d \in Dir
               PROVE  /\ \A fd \in r.fdset[d] : fd <= r.event_fds
                      /\ \A k \in DOMAIN r.by_fd[d] :
                           IF k - 1 \in r.fdset[d]
                           THEN r.by_fd[d][k] \in added /\ ev_fd[r.by_fd[d][k]] = k - 1 /\ d \in ev_events[r.by_fd[d][k]]
                           ELSE r.by_fd[d][k] = Null
    BY DEF SelectAgrees
  <2>1. DOMAIN r.by_fd[d] = 1..m /\ DOMAIN sop.by_fd[d] = 1..l
    BY <1>1, <1>5 DEF SelectRecord
  <2>2. /\ \A fd \in sop.fdset[d] : fd <= sop.event_fds
        /\ \A k \in DOMAIN sop.by_fd[d] :
                           IF k - 1 \in sop.fdset[d]
                           THEN sop.by_fd[d][k] \in added /\ ev_fd[sop.by_fd[d][k]] = k - 1 /\ d \in ev_events[sop.by_fd[d][k]]
                           ELSE sop.by_fd[d][k] = Null
    BY DEF SelectGood, SelectAgrees
  <2>3. ASSUME NEW k \in 1..m
        PROVE  IF k - 1 \in r.fdset[d]
               THEN r.by_fd[d][k] \in added /\ ev_fd[r.by_fd[d][k]] = k - 1 /\ d \in ev_events[r.by_fd[d][k]]
               ELSE r.by_fd[d][k] = Null
    <3>1. CASE k <= l
      <4>1. k \in 1..l
        BY <3>1, <1>3
      <4> QED BY <3>1, <4>1, <2>1, <2>2, <1>5
    <3>2. CASE ~ (k <= l)
      <4>1. k - 1 \notin r.fdset[d]
        <5>1. ASSUME k - 1 \in sop.fdset[d] PROVE FALSE
          <6>1. k - 1 <= sop.event_fds
            BY <2>2, <5>1
          <6> QED BY <6>1, <3>2, <1>1, <1>2, <1>3
        <5> QED BY <5>1, <1>5
      <4> QED BY <3>2, <4>1, <1>5
    <3> QED BY <3>1, <3>2
  <2> QED BY <1>5, <2>1, <2>2, <2>3
<1>8. SelectKeeps(r, sop)
  <2> SUFFICES ASSUME NEW d \in Dir, NEW fd \in Fd, fd \in sop.fdset[d]
               PROVE  r.by_fd[d][fd + 1] = sop.by_fd[d][fd + 1]
    BY <1>5 DEF SelectKeeps, SelectSlot
  <2>1. fd <= sop.event_fds /\ fd \in Nat
    BY EventLemma DEF SelectGood, SelectAgrees
  <2>2. fd + 1 \in 1..m /\ fd + 1 <= l
    BY <2>1, <1>1, <1>2, <1>3
  <2> QED BY <2>2, <1>5
<1> QED BY <1>5, <1>6, <1>7, <1>8 DEF SelectGood, r

(* There is room for the descriptor. *)
LEMMA WordsForLemma ==
  ASSUME NEW sop, NEW added, SelectGood(sop, added), NEW fd \in Nat
  PROVE  /\ WordsFor(sop, fd) \in Nat
         /\ sop.event_fdsz <= WordsFor(sop, fd)
         /\ fd < WordsFor(sop, fd) * NFDBITS
<1> DEFINE z == sop.event_fdsz
           b == IF z < 1 THEN 1 ELSE z
           w == Words(fd + 1)
           x == Doubled(b, w)
<1>1. z \in Nat /\ sop.event_fds \in Nat /\ sop.event_fds < z * NFDBITS /\ NFDBITS \in Nat
  BY SelectAssumption DEF SelectGood, SelectType
<1>2. WordsFor(sop, fd) = IF sop.event_fds < fd THEN x ELSE z
  BY DEF WordsFor
<1> HIDE DEF z
<1>3. b \in Nat /\ b > 0 /\ b >= z
  BY <1>1
<1>4. w \in Nat /\ w * NFDBITS >= fd + 1
  BY WordsLemma
<1> HIDE DEF b, w
<1>5. x \in Nat /\ x >= w /\ x >= b
  BY <1>3, <1>4, DoubledLemma
<1> HIDE DEF x
<1>6. x * NFDBITS \in Nat /\ w * NFDBITS \in Nat /\ w * NFDBITS <= x * NFDBITS /\ z * NFDBITS \in Nat
  BY <1>1, <1>4, <1>5, TimesLemma
<1>7. x >= z
  BY <1>1, <1>3, <1>5
<1> DEFINE xn == x * NFDBITS
           wn == w * NFDBITS
           zn == z * NFDBITS
<1> HIDE DEF xn, wn, zn
<1>8. fd < xn
  <2>1. xn \in Nat /\ wn \in Nat /\ wn <= xn /\ wn >= fd + 1
    BY <1>4, <1>6 DEF xn, wn
  <2> QED BY <2>1
<1>9. CASE sop.event_fds < fd
  BY <1>2, <1>5, <1>7, <1>8, <1>9 DEF z, xn
<1>10. CASE ~ (sop.event_fds < fd)
  <2>1. fd < zn
    <3>1. zn \in Nat /\ sop.event_fds < zn
      BY <1>1, <1>6 DEF zn
    <3> QED BY <3>1, <1>1, <1>10
  <2>2. WordsFor(sop, fd) = z
    BY <1>2, <1>10
  <2> QED BY <2>1, <2>2, <1>1 DEF z, zn
<1> QED BY <1>9, <1>10

(* More events may have been added. *)
LEMMA SelectMore ==
  ASSUME NEW sop, NEW added, SelectGood(sop, added), NEW more, added \subseteq more
  PROVE  SelectGood(sop, more)
BY DEF SelectGood, SelectAgrees

(* select_add leaves a good structure good, with the event it adds.        *)
LEMMA SelectAddedGood ==
  ASSUME NEW sop, NEW added, SelectGood(sop, added), NEW e \in Event
  PROVE  /\ SelectGood(SelectAdded(sop, e), added \cup {e})
         /\ SelectPuts(SelectAdded(sop, e), sop, e, e)
<1> DEFINE fd == ev_fd[e]
           n == WordsFor(sop, fd)
           q == IF n = sop.event_fdsz THEN sop ELSE Resized(sop, n)
           r == SelectAdded(sop, e)
           l == n * NFDBITS
           more == added \cup {e}
<1>1. fd \in Nat /\ fd \in Fd /\ ev_events[e] \subseteq Dir /\ Fd \subseteq Nat
  BY EventLemma
<1>2. n \in Nat /\ sop.event_fdsz <= n /\ fd < l
  BY <1>1, WordsForLemma
<1>3. r = [q EXCEPT
        !.event_fds = IF @ < fd THEN fd ELSE @,
        !.fdset = [d \in Dir |-> IF d \in ev_events[e] THEN @[d] \cup {fd} ELSE @[d]],
        !.by_fd = [d \in Dir |-> IF d \in ev_events[e] THEN [@[d] EXCEPT ![fd + 1] = e]
                                 ELSE @[d]]]
  BY DEF SelectAdded
<1> HIDE DEF n, r
<1>4. SelectGood(q, added) /\ q.event_fdsz = n /\ SelectKeeps(q, sop)
  <2>1. CASE n = sop.event_fdsz
    BY <2>1 DEF SelectKeeps
  <2>2. CASE n # sop.event_fdsz
    BY <1>2, <2>2, ResizedGood
  <2> QED BY <2>1, <2>2
<1> HIDE DEF q
<1>5. q \in SelectRecord
  BY <1>4 DEF SelectGood, SelectType, SelectRecord
<1>6. q.event_fds \in Nat /\ q.event_fds < l /\ \A d \in Dir : Len(q.by_fd[d]) = l /\ q.by_fd[d] \in Seq(Event \cup {Null})
  BY <1>4, <1>5 DEF SelectGood, SelectType, SelectRecord
<1>7. l \in Nat
  BY <1>2, SelectAssumption
<1>8. /\ r.event_fds = IF q.event_fds < fd THEN fd ELSE q.event_fds
      /\ r.event_fdsz = n /\ r.out = q.out
      /\ r.fdset = [d \in Dir |-> IF d \in ev_events[e] THEN q.fdset[d] \cup {fd} ELSE q.fdset[d]]
      /\ r.by_fd = [d \in Dir |-> IF d \in ev_events[e] THEN [q.by_fd[d] EXCEPT ![fd + 1] = e]
                                  ELSE q.by_fd[d]]
  BY <1>3, <1>4, <1>5 DEF SelectRecord
<1>9. r \in [event_fds : {r.event_fds}, event_fdsz : {n}, fdset : {r.fdset}, out : {r.out}, by_fd : {r.by_fd}]
  BY <1>3, <1>5, <1>8 DEF SelectRecord
<1>10. l = n * NFDBITS
  OBVIOUS
<1> HIDE DEF l, fd
<1>11. r.event_fds \in Nat /\ r.event_fds < l /\ q.event_fds <= r.event_fds /\ fd <= r.event_fds
  BY <1>1, <1>2, <1>6, <1>7, <1>8
<1>12. ASSUME NEW d \in Dir
       PROVE  /\ r.by_fd[d] \in Seq(Event \cup {Null}) /\ Len(r.by_fd[d]) = l
              /\ DOMAIN r.by_fd[d] = 1..l
              /\ \A k \in 1..l : r.by_fd[d][k] = IF d \in ev_events[e] /\ k = fd + 1 THEN e ELSE q.by_fd[d][k]
  <2> DEFINE s == q.by_fd[d]
             S == Event \cup {Null}
             t == [s EXCEPT ![fd + 1] = e]
  <2>1. s \in Seq(S) /\ Len(s) = l /\ e \in S /\ r.by_fd[d] = IF d \in ev_events[e] THEN t ELSE s
    BY <1>6, <1>8
  <2> HIDE DEF s, S
  <2>2. fd + 1 \in 1..Len(s) /\ DOMAIN s = 1..l
    BY <1>1, <1>2, <1>7, <2>1
  <2>3. t \in Seq(S) /\ Len(t) = Len(s) /\ DOMAIN t = DOMAIN s
    BY <2>1, <2>2, ExceptSeq
  <2>4. \A k \in 1..l : t[k] = IF k = fd + 1 THEN e ELSE s[k]
    BY <2>2
  <2> HIDE DEF t
  <2> QED BY <2>1, <2>2, <2>3, <2>4 DEF s, S
<1>13. SelectType(r)
  <2>1. r.fdset \in [Dir -> SUBSET Fd] /\ r.out \in [Dir -> SUBSET Fd]
    BY <1>1, <1>5, <1>8 DEF SelectRecord
  <2>2. r.by_fd \in [Dir -> Seq(Event \cup {Null})]
    BY <1>8, <1>12
  <2>3. r \in SelectRecord
    BY <1>2, <1>9, <1>11, <2>1, <2>2 DEF SelectRecord
  <2> QED BY <2>3, <1>8, <1>10, <1>11, <1>12 DEF SelectType, SelectRecord
<1>14. SelectAgrees(r, more)
  <2> SUFFICES ASSUME NEW d \in Dir
               PROVE  /\ \A g \in r.fdset[d] : g <= r.event_fds
                      /\ \A k \in DOMAIN r.by_fd[d] :
                           IF k - 1 \in r.fdset[d]
                           THEN r.by_fd[d][k] \in more /\ ev_fd[r.by_fd[d][k]] = k - 1 /\ d \in ev_events[r.by_fd[d][k]]
                           ELSE r.by_fd[d][k] = Null
    BY DEF SelectAgrees
  <2>1. /\ \A g \in q.fdset[d] : g <= q.event_fds
        /\ \A k \in 1..l : IF k - 1 \in q.fdset[d]
                           THEN q.by_fd[d][k] \in added /\ ev_fd[q.by_fd[d][k]] = k - 1 /\ d \in ev_events[q.by_fd[d][k]]
                           ELSE q.by_fd[d][k] = Null
    <3>1. DOMAIN q.by_fd[d] = 1..l
      BY <1>6
    <3> QED BY <3>1, <1>4 DEF SelectGood, SelectAgrees
  <2>2. r.fdset[d] = IF d \in ev_events[e] THEN q.fdset[d] \cup {fd} ELSE q.fdset[d]
    BY <1>8
  <2>3. ASSUME NEW g \in r.fdset[d] PROVE g <= r.event_fds
    <3>1. CASE g = fd
      BY <3>1, <1>11
    <3>2. CASE g # fd
      <4>1. g \in q.fdset[d] /\ g \in Nat
        BY <3>2, <2>2, <1>1, <1>5 DEF SelectRecord
      <4> QED BY <4>1, <2>1, <1>6, <1>11
    <3> QED BY <3>1, <3>2
  <2>4. ASSUME NEW k \in 1..l
        PROVE  IF k - 1 \in r.fdset[d]
               THEN r.by_fd[d][k] \in more /\ ev_fd[r.by_fd[d][k]] = k - 1 /\ d \in ev_events[r.by_fd[d][k]]
               ELSE r.by_fd[d][k] = Null
    <3>1. CASE d \in ev_events[e] /\ k = fd + 1
      <4>1. k - 1 = fd
        BY <3>1, <1>1
      <4>2. r.by_fd[d][k] = e
        BY <3>1, <1>12
      <4> QED BY <4>1, <4>2, <3>1, <2>2 DEF fd
    <3>2. CASE ~ (d \in ev_events[e] /\ k = fd + 1)
      <4>1. k - 1 \in r.fdset[d] <=> k - 1 \in q.fdset[d]
        BY <3>2, <2>2, <1>1, <1>7
      <4>2. r.by_fd[d][k] = q.by_fd[d][k]
        BY <3>2, <1>12
      <4> QED BY <4>1, <4>2, <2>1
    <3> QED BY <3>1, <3>2
  <2> QED BY <2>3, <2>4, <1>12
<1>15. SelectPuts(r, sop, e, e)
  <2> SUFFICES ASSUME NEW g \in Fd, NEW d \in Dir
               PROVE  SelectSlot(r, g, d) = IF g = fd /\ d \in ev_events[e] THEN e ELSE SelectSlot(q, g, d)
    BY <1>4 DEF SelectPuts, SelectKeeps, fd
  <2>1. r.fdset[d] = IF d \in ev_events[e] THEN q.fdset[d] \cup {fd} ELSE q.fdset[d]
    BY <1>8
  <2>2. g \in Nat
    BY EventLemma
  <2>3. CASE g = fd /\ d \in ev_events[e]
    <3>1. fd + 1 \in 1..l
      BY <1>1, <1>2, <1>7
    <3> QED BY <2>1, <2>3, <3>1, <1>12 DEF SelectSlot
  <2>4. CASE ~ (g = fd /\ d \in ev_events[e])
    <3>1. g \in r.fdset[d] <=> g \in q.fdset[d]
      BY <2>1, <2>4
    <3>2. ASSUME g \in q.fdset[d] PROVE r.by_fd[d][g + 1] = q.by_fd[d][g + 1]
      <4>1. g <= q.event_fds
        BY <1>4, <3>2 DEF SelectGood, SelectAgrees
      <4>2. g + 1 \in 1..l /\ ~ (d \in ev_events[e] /\ g + 1 = fd + 1)
        BY <4>1, <1>1, <1>6, <1>7, <2>2, <2>4
      <4> QED BY <4>2, <1>12
    <3> QED BY <2>4, <3>1, <3>2 DEF SelectSlot
  <2> QED BY <2>3, <2>4
<1> QED BY <1>13, <1>14, <1>15 DEF SelectGood, r

(* select_del leaves a good structure good, without the event.             *)
LEMMA SelectDeletedGood ==
  ASSUME NEW sop, NEW added, SelectGood(sop, added), NEW e \in Event
  PROVE  /\ SelectGood(SelectDeleted(sop, e), added \ {e})
         /\ SelectPuts(SelectDeleted(sop, e), sop, e, Null)
         /\ SelectDeleted(sop, e).event_fds = sop.event_fds
         /\ SelectDeleted(sop, e).out = sop.out
<1> DEFINE fd == ev_fd[e]
           r == SelectDeleted(sop, e)
           l == sop.event_fdsz * NFDBITS
           less == added \ {e}
<1>1. fd \in Nat /\ fd \in Fd /\ ev_events[e] \subseteq Dir /\ Fd \subseteq Nat
  BY EventLemma
<1>2. sop \in SelectRecord /\ SelectType(sop)
  BY DEF SelectGood, SelectType, SelectRecord
<1>3. sop.event_fds \in Nat /\ sop.event_fds < l
      /\ \A d \in Dir : /\ Len(sop.by_fd[d]) = l /\ sop.by_fd[d] \in Seq(Event \cup {Null})
                        /\ DOMAIN sop.by_fd[d] = 1..l /\ sop.fdset[d] \subseteq Fd
  BY <1>2 DEF SelectType, SelectRecord
<1>4. l \in Nat
  BY <1>2, SelectAssumption DEF SelectRecord
<1>5. l = sop.event_fdsz * NFDBITS
  OBVIOUS
<1>6. r = IF sop.event_fds < fd THEN sop
          ELSE [sop EXCEPT
             !.fdset = [d \in Dir |-> IF d \in ev_events[e] THEN @[d] \ {fd} ELSE @[d]],
             !.by_fd = [d \in Dir |-> IF d \in ev_events[e]
                                      THEN [@[d] EXCEPT ![fd + 1] = Null]
                                      ELSE @[d]]]
  BY DEF SelectDeleted
<1> HIDE DEF l, r, fd
<1>7. ASSUME NEW d \in Dir
      PROVE  /\ \A g \in sop.fdset[d] : g <= sop.event_fds
             /\ \A k \in 1..l : IF k - 1 \in sop.fdset[d]
                           THEN sop.by_fd[d][k] \in added /\ ev_fd[sop.by_fd[d][k]] = k - 1 /\ d \in ev_events[sop.by_fd[d][k]]
                           ELSE sop.by_fd[d][k] = Null
  BY <1>3 DEF SelectGood, SelectAgrees
<1>8. CASE sop.event_fds < fd
  <2>1. r = sop
    BY <1>6, <1>8
  <2>2. SelectAgrees(sop, less)
    <3> SUFFICES ASSUME NEW d \in Dir
                 PROVE  /\ \A g \in sop.fdset[d] : g <= sop.event_fds
                        /\ \A k \in 1..l :
                           IF k - 1 \in sop.fdset[d]
                           THEN sop.by_fd[d][k] \in less /\ ev_fd[sop.by_fd[d][k]] = k - 1 /\ d \in ev_events[sop.by_fd[d][k]]
                           ELSE sop.by_fd[d][k] = Null
      BY <1>3 DEF SelectAgrees
    <3>1. ASSUME NEW k \in 1..l, k - 1 \in sop.fdset[d] PROVE sop.by_fd[d][k] # e
      <4>1. k - 1 <= sop.event_fds /\ ev_fd[sop.by_fd[d][k]] = k - 1
        BY <3>1, <1>7
      <4>2. k - 1 # fd
        BY <4>1, <1>1, <1>3, <1>4, <1>8
      <4> QED BY <4>1, <4>2 DEF fd
    <3> QED BY <3>1, <1>7
  <2>3. ASSUME NEW d \in Dir PROVE SelectSlot(sop, fd, d) = Null
    <3>1. fd \notin sop.fdset[d]
      BY <1>1, <1>3, <1>7, <1>8
    <3> QED BY <3>1 DEF SelectSlot
  <2>4. SelectPuts(sop, sop, e, Null)
    BY <2>3 DEF SelectPuts, fd
  <2> QED BY <2>1, <2>2, <2>4, <1>2 DEF SelectGood, r
<1>9. CASE ~ (sop.event_fds < fd)
  <2>1. /\ r.event_fds = sop.event_fds /\ r.event_fdsz = sop.event_fdsz /\ r.out = sop.out
        /\ r.fdset = [d \in Dir |-> IF d \in ev_events[e] THEN sop.fdset[d] \ {fd} ELSE sop.fdset[d]]
        /\ r.by_fd = [d \in Dir |-> IF d \in ev_events[e] THEN [sop.by_fd[d] EXCEPT ![fd + 1] = Null]
                                    ELSE sop.by_fd[d]]
    BY <1>2, <1>6, <1>9 DEF SelectRecord
  <2>2. r \in [event_fds : {r.event_fds}, event_fdsz : {r.event_fdsz}, fdset : {r.fdset}, out : {r.out},
               by_fd : {r.by_fd}]
    BY <1>2, <1>6, <1>9, <2>1 DEF SelectRecord
  <2>3. ASSUME NEW d \in Dir
        PROVE  /\ r.by_fd[d] \in Seq(Event \cup {Null}) /\ Len(r.by_fd[d]) = l
               /\ DOMAIN r.by_fd[d] = 1..l
               /\ \A k \in 1..l : r.by_fd[d][k] = IF d \in ev_events[e] /\ k = fd + 1 THEN Null ELSE sop.by_fd[d][k]
    <3> DEFINE s == sop.by_fd[d]
               S == Event \cup {Null}
               t == [s EXCEPT ![fd + 1] = Null]
    <3>1. s \in Seq(S) /\ Len(s) = l /\ Null \in S /\ r.by_fd[d] = IF d \in ev_events[e] THEN t ELSE s
      BY <1>3, <2>1
    <3> HIDE DEF s, S
    <3>2. fd + 1 \in 1..Len(s) /\ DOMAIN s = 1..l
      BY <1>1, <1>3, <1>4, <1>9, <3>1
    <3>3. t \in Seq(S) /\ Len(t) = Len(s) /\ DOMAIN t = DOMAIN s
      BY <3>1, <3>2, ExceptSeq
    <3>4. \A k \in 1..l : t[k] = IF k = fd + 1 THEN Null ELSE s[k]
      BY <3>2
    <3> HIDE DEF t
    <3> QED BY <3>1, <3>2, <3>3, <3>4 DEF s, S
  <2>4. SelectType(r)
    <3>1. r.fdset \in [Dir -> SUBSET Fd] /\ r.out \in [Dir -> SUBSET Fd]
      BY <1>2, <2>1 DEF SelectRecord
    <3>2. r.by_fd \in [Dir -> Seq(Event \cup {Null})]
      BY <2>1, <2>3
    <3>3. r \in SelectRecord
      BY <1>2, <2>1, <2>2, <3>1, <3>2 DEF SelectRecord
    <3> QED BY <3>3, <1>3, <1>5, <2>1, <2>3 DEF SelectType, SelectRecord
  <2>5. SelectAgrees(r, less)
    <3> SUFFICES ASSUME NEW d \in Dir
                 PROVE  /\ \A g \in r.fdset[d] : g <= r.event_fds
                        /\ \A k \in 1..l :
                           IF k - 1 \in r.fdset[d]
                           THEN r.by_fd[d][k] \in less /\ ev_fd[r.by_fd[d][k]] = k - 1 /\ d \in ev_events[r.by_fd[d][k]]
                           ELSE r.by_fd[d][k] = Null
      BY <2>3 DEF SelectAgrees
    <3>1. r.fdset[d] = IF d \in ev_events[e] THEN sop.fdset[d] \ {fd} ELSE sop.fdset[d]
      BY <2>1
    <3>2. ASSUME NEW g \in r.fdset[d] PROVE g <= r.event_fds
      BY <3>1, <1>7, <2>1
    <3>3. ASSUME NEW k \in 1..l
          PROVE  IF k - 1 \in r.fdset[d]
               THEN r.by_fd[d][k] \in less /\ ev_fd[r.by_fd[d][k]] = k - 1 /\ d \in ev_events[r.by_fd[d][k]]
               ELSE r.by_fd[d][k] = Null
      <4>1. CASE d \in ev_events[e] /\ k = fd + 1
        <5>1. k - 1 = fd
          BY <4>1, <1>1
        <5>2. r.by_fd[d][k] = Null
          BY <4>1, <2>3
        <5> QED BY <5>1, <5>2, <4>1, <3>1
      <4>2. CASE ~ (d \in ev_events[e] /\ k = fd + 1)
        <5>1. k - 1 \in r.fdset[d] <=> k - 1 \in sop.fdset[d]
          BY <4>2, <3>1, <1>1, <1>4
        <5>2. r.by_fd[d][k] = sop.by_fd[d][k]
          BY <4>2, <2>3
        <5>3. ASSUME k - 1 \in sop.fdset[d] PROVE sop.by_fd[d][k] # e
          <6>1. ev_fd[sop.by_fd[d][k]] = k - 1 /\ d \in ev_events[sop.by_fd[d][k]]
            BY <5>3, <1>7
          <6>2. SUFFICES ASSUME sop.by_fd[d][k] = e PROVE FALSE
            OBVIOUS
          <6>3. fd = k - 1 /\ d \in ev_events[e]
            BY <6>1, <6>2 DEF fd
          <6>4. k = fd + 1
            BY <6>3, <1>4
          <6> QED BY <6>3, <6>4, <4>2
        <5> QED BY <5>1, <5>2, <5>3, <1>7
      <4> QED BY <4>1, <4>2
    <3> QED BY <3>2, <3>3
  <2>6. SelectPuts(r, sop, e, Null)
    <3> SUFFICES ASSUME NEW g \in Fd, NEW d \in Dir
                 PROVE  SelectSlot(r, g, d) = IF g = fd /\ d \in ev_events[e] THEN Null ELSE SelectSlot(sop, g, d)
      BY DEF SelectPuts, fd
    <3>1. r.fdset[d] = IF d \in ev_events[e] THEN sop.fdset[d] \ {fd} ELSE sop.fdset[d]
      BY <2>1
    <3>2. CASE g = fd /\ d \in ev_events[e]
      BY <3>1, <3>2 DEF SelectSlot
    <3>3. CASE ~ (g = fd /\ d \in ev_events[e])
      <4>1. g \in r.fdset[d] <=> g \in sop.fdset[d]
        BY <3>1, <3>3
      <4>2. ASSUME g \in sop.fdset[d] PROVE r.by_fd[d][g + 1] = sop.by_fd[d][g + 1]
        <5>1. g <= sop.event_fds /\ g \in Nat
          BY <1>7, <4>2, EventLemma
        <5>2. g + 1 \in 1..l /\ ~ (d \in ev_events[e] /\ g + 1 = fd + 1)
          BY <5>1, <1>1, <1>3, <1>4, <3>3
        <5> QED BY <5>2, <2>3
      <4> QED BY <3>3, <4>1, <4>2 DEF SelectSlot
    <3> QED BY <3>2, <3>3
  <2> QED BY <2>1, <2>4, <2>5, <2>6 DEF SelectGood, r
<1> QED BY <1>8, <1>9

(* What the kernel leaves of the sets, and that it is forgotten. *)
LEMMA SelectOutGood ==
  ASSUME NEW sop, NEW added, SelectGood(sop, added), NEW o \in [Dir -> SUBSET Fd]
  PROVE  /\ SelectGood([sop EXCEPT !.out = o], added)
         /\ SelectKeeps([sop EXCEPT !.out = o], sop)
         /\ [sop EXCEPT !.out = o].out = o
<1> DEFINE r == [sop EXCEPT !.out = o]
<1>1. sop \in SelectRecord /\ SelectType(sop) /\ SelectAgrees(sop, added)
  BY DEF SelectGood, SelectType, SelectRecord
<1>2. /\ r \in SelectRecord
      /\ r.event_fds = sop.event_fds /\ r.event_fdsz = sop.event_fdsz
      /\ r.fdset = sop.fdset /\ r.by_fd = sop.by_fd
  BY <1>1 DEF SelectRecord
<1> HIDE DEF r
<1>3. SelectType(r)
  BY <1>1, <1>2 DEF SelectType, SelectRecord
<1>4. SelectAgrees(r, added)
  BY <1>1, <1>2 DEF SelectAgrees
<1>5. SelectKeeps(r, sop) /\ r.out = o
  BY <1>1, <1>2 DEF SelectKeeps, SelectSlot, r, SelectRecord
<1> QED BY <1>3, <1>4, <1>5 DEF SelectGood, r

(* An event that the sets and arrays lead to is at all pointers it wants.  *)
LEMMA SelectWatchedLemma ==
  ASSUME NEW sop, NEW added \in SUBSET Event, SelectGood(sop, added), NEW e \in Event
  PROVE  SelectWatched(sop, e) <=> \A d \in ev_events[e] : SelectSlot(sop, ev_fd[e], d) = e
<1>1. /\ ev_fd[e] \in Fd /\ ev_events[e] \subseteq Dir /\ ev_events[e] # {} /\ e # Null
  BY EventLemma
<1>2. ASSUME SelectWatched(sop, e), NEW d \in ev_events[e] PROVE SelectSlot(sop, ev_fd[e], d) = e
  BY <1>2 DEF SelectWatched, SelectSlot
<1>3. ASSUME \A d \in ev_events[e] : SelectSlot(sop, ev_fd[e], d) = e PROVE SelectWatched(sop, e)
  <2>1. \A d \in ev_events[e] : ev_fd[e] \in sop.fdset[d] /\ sop.by_fd[d][ev_fd[e] + 1] = e
    BY <1>1, <1>3 DEF SelectSlot
  <2>2. PICK d \in ev_events[e] : d \in Dir
    BY <1>1
  <2>3. ev_fd[e] <= sop.event_fds
    BY <2>1, <2>2 DEF SelectGood, SelectAgrees
  <2> QED BY <2>1, <2>3 DEF SelectWatched
<1> QED BY <1>2, <1>3

(* A pointer leads to an event that was added, of the descriptor and the   *)
(* direction.                                                              *)
LEMMA SelectSlotLemma ==
  ASSUME NEW sop, NEW added, SelectGood(sop, added), NEW fd \in Fd, NEW d \in Dir,
         NEW e, e = SelectSlot(sop, fd, d), e # Null
  PROVE  e \in added /\ ev_fd[e] = fd /\ d \in ev_events[e]
<1> DEFINE l == sop.event_fdsz * NFDBITS
<1>1. /\ sop.event_fds \in Nat /\ sop.event_fds < l /\ l \in Nat
      /\ DOMAIN sop.by_fd[d] = 1..l
  BY SelectAssumption DEF SelectGood, SelectType
<1>2. fd \in sop.fdset[d] /\ e = sop.by_fd[d][fd + 1] /\ fd \in Nat
  BY EventLemma DEF SelectSlot
<1>3. fd <= sop.event_fds
  BY <1>2 DEF SelectGood, SelectAgrees
<1> HIDE DEF l
<1>4. fd + 1 \in 1..l /\ (fd + 1) - 1 = fd
  BY <1>1, <1>2, <1>3
<1> QED BY <1>1, <1>2, <1>4 DEF SelectGood, SelectAgrees

-----------------------------------------------------------------------------
(* epoll.c *)

(* The array has the size at first or a doubling of it. *)
EpollGood(ep, added) ==
  EpollType(ep) /\ EpollAgrees(ep, added) /\ IsDoubling(EpollFiles, Len(ep.fds))

Pair == [Dir -> Event \cup {Null}]

EpollRecord ==
  [fds : Seq(Pair), interest : [Fd -> SUBSET Dir], events : Seq([fd : Fd, what : What])]

(* The pointer of a descriptor for one direction, Null if there is none. *)
EpollSlot(ep, fd, d) == IF fd < Len(ep.fds) THEN ep.fds[fd + 1][d] ELSE Null

(* The same pointers lead from the same descriptors. *)
EpollKeeps(r, ep) ==
  \A fd \in Fd, d \in Dir : EpollSlot(r, fd, d) = EpollSlot(ep, fd, d)

(* The pointers of e have become v, and no others have changed. *)
EpollPuts(r, ep, e, v) ==
  \A fd \in Fd, d \in Dir :
    EpollSlot(r, fd, d) = IF fd = ev_fd[e] /\ d \in ev_events[e] THEN v ELSE EpollSlot(ep, fd, d)

(* The pointers of a descriptor have become p, and no others have changed. *)
EpollWrites(r, ep, fd, p) ==
  /\ r.events = ep.events /\ Len(r.fds) = Len(ep.fds)
  /\ \A g \in Fd, d \in Dir : EpollSlot(r, g, d) = IF g = fd THEN p[d] ELSE EpollSlot(ep, g, d)

(* There is one way to double. *)
LEMMA DoublesUnique ==
  ASSUME NEW b \in Nat, NEW n \in Nat, NEW m \in Nat, NEW f, NEW g,
         Doubles(f, b, n), Doubles(g, b, m), NEW j \in 0..n, j \in 0..m
  PROVE  f[j] = g[j]
<1> DEFINE T == {k \in Nat : k \in 0..n /\ k \in 0..m /\ f[k] # g[k]}
<1>1. CASE T # {}
  <2>1. PICK x \in T : \A y \in T : x <= y
    BY <1>1, LeastLemma
  <2>2. x \in Nat /\ x \in 0..n /\ x \in 0..m /\ f[x] # g[x]
    OBVIOUS
  <2>3. x # 0
    BY <2>2 DEF Doubles
  <2>4. x \in 1..n /\ x \in 1..m /\ x - 1 \in Nat /\ x - 1 \in 0..n /\ x - 1 \in 0..m /\ ~ (x <= x - 1)
    BY <2>2, <2>3
  <2>5. f[x - 1] = g[x - 1]
    BY <2>1, <2>4
  <2> QED BY <2>2, <2>4, <2>5 DEF Doubles
<1>2. CASE T = {}
  BY <1>2
<1> QED BY <1>1, <1>2

(* No descriptor is the first one behind the array. *)
LEMMA NotBehindLemma ==
  ASSUME NEW m, IsDoubling(EpollFiles, m), NEW fd \in Fd
  PROVE  m \in Nat /\ m > 0 /\ fd # m
<1>1. PICK n \in Nat : \E f : Doubles(f, EpollFiles, n) /\ m = f[n]
  BY DEF IsDoubling
<1>2. PICK f : Doubles(f, EpollFiles, n) /\ m = f[n]
  BY <1>1
<1>3. EpollFiles \in Nat /\ EpollFiles > 0
  BY EpollAssumption
<1>4. m \in Nat /\ m > n
  <2>1. n \in 0..n
    OBVIOUS
  <2> QED BY <2>1, <1>2, <1>3, DoublesGrow
<1>5. ASSUME fd = m PROVE FALSE
  <2>1. PICK e \in Event : fd = ev_fd[e]
    BY DEF Fd
  <2>2. n \in 0..fd /\ n \in 0..n /\ fd \in Nat
    BY <1>4, <1>5
  <2>3. Doubles(Doublings(EpollFiles, fd), EpollFiles, fd)
    BY <1>3, <2>2, DoublingsLemma
  <2>4. f[n] = Doublings(EpollFiles, fd)[n]
    BY <1>2, <1>3, <2>2, <2>3, DoublesUnique
  <2>5. fd # Doublings(EpollFiles, fd)[n]
    BY <2>1, <2>2, EpollAssumption
  <2> QED BY <1>2, <1>5, <2>4, <2>5
<1> QED BY <1>4, <1>5

(* What epoll_init makes is good.                                          *)
LEMMA EpollInitGood == EpollGood(EpollInit, {})
<1> DEFINE s == [k \in 1..EpollFiles |-> NoEvents]
           i == [fd \in Fd |-> {}]
           r == [fds |-> s, events |-> <<>>, interest |-> i]
<1>1. EpollInit = r
  BY DEF EpollInit
<1>2. EpollFiles \in Nat /\ EpollFiles > 0
  BY EpollAssumption
<1>3. NoEvents \in Pair /\ \A d \in Dir : NoEvents[d] = Null
  BY DEF NoEvents, Pair
<1>4. s \in Seq(Pair) /\ DOMAIN s = 1..EpollFiles
  <2>1. s \in [1..EpollFiles -> Pair]
    BY <1>3
  <2> QED BY <1>2, <2>1
<1>5. \A k \in 1..EpollFiles : s[k] = NoEvents
  OBVIOUS
<1> HIDE DEF s
<1>6. Len(s) = EpollFiles
  BY <1>2, <1>4
<1>7. IsDoubling(EpollFiles, EpollFiles)
  <2> DEFINE f == [j \in 0..0 |-> EpollFiles]
  <2>1. Doubles(f, EpollFiles, 0) /\ f[0] = EpollFiles
    BY <1>2 DEF Doubles
  <2> HIDE DEF f
  <2>2. 0 \in Nat
    OBVIOUS
  <2> QED BY <2>1, <2>2 DEF IsDoubling
<1>8. EpollType(r)
  <2>1. r \in EpollRecord
    BY <1>4 DEF EpollRecord
  <2>2. \A fd \in Fd : fd # Len(s)
    BY <1>6, <1>7, NotBehindLemma
  <2> QED BY <2>1, <2>2 DEF EpollType, EpollRecord, Pair
<1>9. EpollAgrees(r, {})
  <2> SUFFICES ASSUME NEW fd \in Fd PROVE fd < Len(s) => Known(r, fd) = {}
    BY DEF EpollAgrees
  <2>1. SUFFICES ASSUME fd < Len(s) PROVE \A d \in Dir : s[fd + 1][d] = Null
    BY DEF Known
  <2>2. fd + 1 \in 1..EpollFiles
    BY <2>1, <1>2, <1>6, EventLemma
  <2> QED BY <2>2, <1>3, <1>5
<1> HIDE DEF r
<1>10. Len(r.fds) = EpollFiles
  BY <1>6 DEF r
<1> QED BY <1>1, <1>7, <1>8, <1>9, <1>10 DEF EpollGood

(* An array that grows stays good, and the descriptor has its place. *)
LEMMA EpollRoomyGood ==
  ASSUME NEW ep, NEW added, EpollGood(ep, added), NEW fd \in Fd
  PROVE  /\ EpollGood(EpollRoomy(ep, fd), added)
         /\ fd < Len(EpollRoomy(ep, fd).fds)
         /\ EpollKeeps(EpollRoomy(ep, fd), ep)
<1> DEFINE l == Len(ep.fds)
           n == Doubled(l, fd)
           s == Longer(ep.fds, n, NoEvents)
           r == [ep EXCEPT !.fds = s]
<1>1. ep \in EpollRecord /\ ep.fds \in Seq(Pair) /\ IsDoubling(EpollFiles, l)
  BY DEF EpollGood, EpollType, EpollRecord, Pair
<1>2. l \in Nat /\ l > 0 /\ fd # l /\ fd \in Nat
  BY <1>1, NotBehindLemma, EventLemma
<1>3. EpollRoomy(ep, fd) = IF fd > l THEN r ELSE ep
  BY DEF EpollRoomy, IsShort
<1>4. CASE ~ (fd > l)
  BY <1>2, <1>3, <1>4 DEF EpollKeeps
<1>5. CASE fd > l
  <2>1. n \in Nat /\ n >= fd /\ IsDoubling(l, n)
    BY <1>2, DoubledLemma
  <2>2. IsDoubling(EpollFiles, n)
    BY <1>1, <2>1, DoublingTwice, EpollAssumption
  <2>3. n # fd
    BY <2>2, NotBehindLemma
  <2>4. NoEvents \in Pair /\ \A d \in Dir : NoEvents[d] = Null
    BY DEF NoEvents, Pair
  <2>5. s \in Seq(Pair) /\ Extends(s, ep.fds, n, NoEvents)
    BY <1>1, <2>1, <2>4, LongerLemma
  <2>6. r \in EpollRecord /\ r.fds = s /\ r.interest = ep.interest /\ r.events = ep.events
    BY <1>1, <2>5 DEF EpollRecord
  <2> HIDE DEF n, s
  <2>7. Len(s) = n /\ n > l /\ n > fd
    BY <1>2, <1>5, <2>1, <2>3, <2>5 DEF Extends
  <2>8. ASSUME NEW i \in 1..n PROVE s[i] = IF i <= l THEN ep.fds[i] ELSE NoEvents
    BY <1>2, <2>5, <2>7 DEF Extends
  <2> HIDE DEF r, l
  <2>9. EpollType(r)
    <3>1. \A g \in Fd : g # Len(r.fds)
      BY <2>2, <2>6, <2>7, NotBehindLemma
    <3> QED BY <3>1, <2>6 DEF EpollType, EpollRecord, Pair
  <2>10. EpollAgrees(r, added)
    <3> SUFFICES ASSUME NEW g \in Fd
                 PROVE IF g < n
                       THEN /\ ep.interest[g] = Known(r, g)
                            /\ \A d \in Known(r, g) : LET e == s[g + 1][d]
                                 IN  e \in added /\ ev_fd[e] = g /\ d \in ev_events[e]
                       ELSE ep.interest[g] = {}
      BY <2>6, <2>7 DEF EpollAgrees
    <3>1. /\ g < l => /\ ep.interest[g] = Known(ep, g)
                      /\ \A d \in Known(ep, g) : LET e == ep.fds[g + 1][d]
                                 IN  e \in added /\ ev_fd[e] = g /\ d \in ev_events[e]
          /\ ~ (g < l) => ep.interest[g] = {}
      BY DEF EpollGood, EpollAgrees, l
    <3>2. g \in Nat
      BY EventLemma
    <3>3. CASE g < l
      <4>1. g < n /\ g + 1 \in 1..n /\ g + 1 <= l
        BY <3>2, <3>3, <1>2, <2>1, <2>7
      <4>2. s[g + 1] = ep.fds[g + 1]
        BY <4>1, <2>8
      <4>3. Known(r, g) = Known(ep, g)
        BY <4>2, <2>6 DEF Known
      <4> QED BY <4>1, <4>2, <4>3, <3>1, <3>3
    <3>4. CASE ~ (g < l)
      <4>1. ASSUME g < n PROVE Known(r, g) = {}
        <5>1. g + 1 \in 1..n /\ ~ (g + 1 <= l)
          BY <4>1, <3>2, <3>4, <1>2, <2>1
        <5>2. s[g + 1] = NoEvents
          BY <5>1, <2>8
        <5> QED BY <5>2, <2>4, <2>6 DEF Known
      <4> QED BY <4>1, <3>1, <3>4
    <3> QED BY <3>3, <3>4
  <2>11. EpollRoomy(ep, fd) = r
    BY <1>3, <1>5
  <2>12. EpollKeeps(r, ep)
    <3> SUFFICES ASSUME NEW g \in Fd, NEW d \in Dir
                 PROVE  (IF g < n THEN s[g + 1][d] ELSE Null) = EpollSlot(ep, g, d)
      BY <2>6, <2>7 DEF EpollKeeps, EpollSlot
    <3>1. g \in Nat
      BY EventLemma
    <3>2. CASE g < l
      <4>1. g < n /\ g + 1 \in 1..n /\ g + 1 <= l
        BY <3>1, <3>2, <1>2, <2>1, <2>7
      <4>2. s[g + 1] = ep.fds[g + 1]
        BY <4>1, <2>8
      <4> QED BY <3>2, <4>1, <4>2 DEF EpollSlot, l
    <3>3. CASE ~ (g < l)
      <4>1. ASSUME g < n PROVE s[g + 1][d] = Null
        <5>1. g + 1 \in 1..n /\ ~ (g + 1 <= l)
          BY <4>1, <3>1, <3>3, <1>2, <2>1
        <5> QED BY <5>1, <2>4, <2>8
      <4> QED BY <3>3, <4>1 DEF EpollSlot, l
    <3> QED BY <3>2, <3>3
  <2> QED BY <2>2, <2>6, <2>7, <2>9, <2>10, <2>11, <2>12 DEF EpollGood
<1> QED BY <1>4, <1>5

(* Nothing is lost when more events count as added.                        *)
LEMMA EpollMore ==
  ASSUME NEW ep, NEW added, EpollGood(ep, added), NEW more, added \subseteq more
  PROVE  EpollGood(ep, more)
BY DEF EpollGood, EpollAgrees

(* What the kernel returned. *)
LEMMA EpollEventsGood ==
  ASSUME NEW ep, NEW added, EpollGood(ep, added), NEW s \in Seq([fd : Fd, what : What])
  PROVE  /\ EpollGood([ep EXCEPT !.events = s], added)
         /\ EpollKeeps([ep EXCEPT !.events = s], ep)
         /\ [ep EXCEPT !.events = s].events = s
         /\ [ep EXCEPT !.events = s].fds = ep.fds
<1> DEFINE r == [ep EXCEPT !.events = s]
<1>1. ep \in EpollRecord /\ EpollType(ep) /\ EpollAgrees(ep, added)
  BY DEF EpollGood, EpollType, EpollRecord, Pair
<1>2. r \in EpollRecord /\ r.fds = ep.fds /\ r.interest = ep.interest
  BY <1>1 DEF EpollRecord
<1>3. r.events = s
  BY <1>1 DEF EpollRecord
<1> HIDE DEF r
<1>4. EpollType(r)
  BY <1>1, <1>2 DEF EpollType, EpollRecord, Pair
<1>5. EpollAgrees(r, added)
  BY <1>1, <1>2 DEF EpollAgrees, Known
<1>6. EpollKeeps(r, ep)
  BY <1>2 DEF EpollKeeps, EpollSlot
<1> QED BY <1>2, <1>3, <1>4, <1>5, <1>6 DEF EpollGood, r

(* The pointers of one descriptor are written, and the kernel is told of   *)
(* them.                                                                   *)
LEMMA EpollWrittenGood ==
  ASSUME NEW ep, NEW added, EpollGood(ep, added), NEW fd \in Fd, fd < Len(ep.fds),
         NEW p \in Pair, NEW i \in SUBSET Dir, NEW listed,
         i = {d \in Dir : p[d] # Null},
         \A d \in i : p[d] \in listed /\ ev_fd[p[d]] = fd /\ d \in ev_events[p[d]],
         \A f \in added : ev_fd[f] # fd => f \in listed
  PROVE  /\ EpollGood([ep EXCEPT !.fds[fd + 1] = p, !.interest[fd] = i], listed)
         /\ EpollWrites([ep EXCEPT !.fds[fd + 1] = p, !.interest[fd] = i], ep, fd, p)
<1> DEFINE r == [ep EXCEPT !.fds[fd + 1] = p, !.interest[fd] = i]
           l == Len(ep.fds)
           s == [ep.fds EXCEPT ![fd + 1] = p]
<1>1. ep \in EpollRecord /\ EpollType(ep) /\ IsDoubling(EpollFiles, l)
  BY DEF EpollGood, EpollType, EpollRecord, Pair
<1>2. l \in Nat /\ fd \in Nat /\ ep.fds \in Seq(Pair) /\ DOMAIN ep.fds = 1..l
  BY <1>1, EventLemma DEF EpollRecord
<1>3. fd + 1 \in 1..l
  BY <1>2
<1>4. s \in Seq(Pair) /\ Len(s) = l
  BY <1>2, <1>3, ExceptSeq
<1>5. \A k \in 1..l : s[k] = IF k = fd + 1 THEN p ELSE ep.fds[k]
  BY <1>2, <1>3
<1> HIDE DEF l, s
<1>6. r = [ep EXCEPT !.fds = s, !.interest = [ep.interest EXCEPT ![fd] = i]]
  BY <1>1 DEF EpollRecord, s
<1> HIDE DEF r
<1>7. r \in EpollRecord /\ r.fds = s /\ r.interest = [ep.interest EXCEPT ![fd] = i]
  BY <1>1, <1>4, <1>6 DEF EpollRecord
<1>8. EpollType(r)
  BY <1>1, <1>4, <1>7 DEF EpollType, EpollRecord, Pair, l
<1>9. EpollAgrees(r, listed)
  <2> SUFFICES ASSUME NEW g \in Fd
               PROVE IF g < l
                     THEN /\ r.interest[g] = Known(r, g)
                          /\ \A d \in Known(r, g) : LET e == s[g + 1][d]
                                 IN  e \in listed /\ ev_fd[e] = g /\ d \in ev_events[e]
                     ELSE r.interest[g] = {}
    BY <1>4, <1>7 DEF EpollAgrees
  <2>1. g \in Nat /\ Known(r, g) = {d \in Dir : s[g + 1][d] # Null}
    BY <1>7, EventLemma DEF Known
  <2>2. CASE g = fd
    <3>1. s[g + 1] = p /\ r.interest[g] = i /\ g < l
      BY <2>2, <1>1, <1>3, <1>5, <1>7 DEF EpollRecord, l
    <3> QED BY <2>1, <2>2, <3>1
  <2>3. CASE g # fd
    <3>1. r.interest[g] = ep.interest[g]
      BY <2>3, <1>1, <1>7 DEF EpollRecord
    <3>2. /\ g < l => /\ ep.interest[g] = Known(ep, g)
                      /\ \A d \in Known(ep, g) : LET e == ep.fds[g + 1][d]
                                 IN  e \in added /\ ev_fd[e] = g /\ d \in ev_events[e]
          /\ ~ (g < l) => ep.interest[g] = {}
      BY DEF EpollGood, EpollAgrees, l
    <3>3. ASSUME g < l PROVE s[g + 1] = ep.fds[g + 1]
      <4>1. g + 1 \in 1..l /\ g + 1 # fd + 1
        BY <2>1, <2>3, <3>3, <1>2
      <4> QED BY <4>1, <1>5
    <3>4. ASSUME g < l PROVE Known(r, g) = Known(ep, g)
      BY <2>1, <3>3, <3>4 DEF Known
    <3> QED BY <2>3, <3>1, <3>2, <3>3, <3>4
  <2> QED BY <2>2, <2>3
<1>10. ASSUME NEW g \in Fd, NEW d \in Dir
       PROVE  EpollSlot(r, g, d) = IF g = fd THEN p[d] ELSE EpollSlot(ep, g, d)
  <2>1. g \in Nat
    BY EventLemma
  <2>2. CASE g = fd
    BY <2>2, <1>3, <1>4, <1>5, <1>7 DEF EpollSlot, l
  <2>3. CASE g # fd
    <3>1. ASSUME g < l PROVE s[g + 1] = ep.fds[g + 1]
      <4>1. g + 1 \in 1..l /\ g + 1 # fd + 1
        BY <2>1, <2>3, <3>1, <1>2
      <4> QED BY <4>1, <1>5
    <3> QED BY <2>3, <3>1, <1>4, <1>7 DEF EpollSlot, l
  <2> QED BY <2>2, <2>3
<1>11. r.events = ep.events /\ Len(r.fds) = Len(ep.fds)
  BY <1>1, <1>4, <1>6, <1>7 DEF EpollRecord, l
<1> QED BY <1>1, <1>4, <1>7, <1>8, <1>9, <1>10, <1>11 DEF EpollGood, EpollWrites, r

(* epoll_add leaves a good structure good, with the event it adds, whether *)
(* or not the kernel knew the descriptor.                                  *)
LEMMA EpollAddedGood ==
  ASSUME NEW before, NEW added, EpollGood(before, added), NEW e \in Event
  PROVE  /\ EpollGood(EpollAdded(before, e), added \cup {e})
         /\ EpollPuts(EpollAdded(before, e), before, e, e)
<1> DEFINE fd == ev_fd[e]
           ep == EpollRoomy(before, fd)
           op == IF Known(ep, fd) # {} THEN "MOD" ELSE "ADD"
           p == [d \in Dir |-> IF d \in ev_events[e] THEN e ELSE ep.fds[fd + 1][d]]
           i == Known(ep, fd) \cup ev_events[e]
<1>1. fd \in Fd /\ ev_events[e] \subseteq Dir /\ e # Null /\ Null \notin Event
  BY EventLemma, EventAssumption
<1>2. EpollGood(ep, added) /\ fd < Len(ep.fds) /\ EpollKeeps(ep, before)
  BY <1>1, EpollRoomyGood
<1>3. EpollAdded(before, e) =
        IF ~Accepts(ep, op, fd) THEN ep
        ELSE [Told(ep, op, fd, i) EXCEPT
             !.fds[fd + 1] = [d \in Dir |-> IF d \in ev_events[e] THEN e ELSE @[d]]]
  BY DEF EpollAdded
<1> HIDE DEF ep
<1>4. ep \in EpollRecord
  BY <1>2 DEF EpollGood, EpollType, EpollRecord, Pair
<1>5. /\ ep.interest[fd] = Known(ep, fd)
      /\ \A d \in Known(ep, fd) : LET f == ep.fds[fd + 1][d]
                                 IN  f \in added /\ ev_fd[f] = fd /\ d \in ev_events[f]
  BY <1>1, <1>2 DEF EpollGood, EpollAgrees
<1>6. Accepts(ep, op, fd) /\ op # "DEL"
  BY <1>5 DEF Accepts
<1>7. Told(ep, op, fd, i) = [ep EXCEPT !.interest[fd] = i]
  BY <1>6 DEF Told
<1>8. EpollAdded(before, e) = [ep EXCEPT !.fds[fd + 1] = p, !.interest[fd] = i]
  <2>1. EpollAdded(before, e) = [[ep EXCEPT !.interest[fd] = i] EXCEPT
             !.fds[fd + 1] = [d \in Dir |-> IF d \in ev_events[e] THEN e ELSE @[d]]]
    BY <1>3, <1>6, <1>7
  <2>2. ep.fds \in Seq(Pair) /\ fd \in Nat /\ Len(ep.fds) \in Nat
    BY <1>1, <1>4, EventLemma DEF EpollRecord
  <2>3. fd + 1 \in DOMAIN ep.fds
    BY <1>2, <2>2
  <2> QED BY <2>1, <2>3, <1>4 DEF EpollRecord
<1>9. ep.fds[fd + 1] \in Pair
  <2>1. ep.fds \in Seq(Pair) /\ fd \in Nat /\ Len(ep.fds) \in Nat
    BY <1>1, <1>4, EventLemma DEF EpollRecord
  <2>2. fd + 1 \in 1..Len(ep.fds)
    BY <1>2, <2>1
  <2> QED BY <2>1, <2>2
<1>10. p \in Pair /\ i \in SUBSET Dir /\ i = {d \in Dir : p[d] # Null}
  <2>1. p \in Pair
    BY <1>9 DEF Pair
  <2>2. i \in SUBSET Dir
    BY <1>1 DEF Known
  <2>3. \A d \in Dir : d \in i <=> p[d] # Null
    BY <1>1 DEF Known
  <2> QED BY <2>1, <2>2, <2>3
<1>11. \A d \in i : p[d] \in added \cup {e} /\ ev_fd[p[d]] = fd /\ d \in ev_events[p[d]]
  <2> SUFFICES ASSUME NEW d \in i
               PROVE  p[d] \in added \cup {e} /\ ev_fd[p[d]] = fd /\ d \in ev_events[p[d]]
    OBVIOUS
  <2>1. d \in Dir
    BY <1>10
  <2>2. CASE d \in ev_events[e]
    BY <2>1, <2>2
  <2>3. CASE d \notin ev_events[e]
    BY <2>1, <2>3, <1>5
  <2> QED BY <2>2, <2>3
<1> DEFINE more == added \cup {e}
<1>12. /\ \A d \in i : p[d] \in more /\ ev_fd[p[d]] = fd /\ d \in ev_events[p[d]]
       /\ \A f \in added : ev_fd[f] # fd => f \in more
  BY <1>11
<1> DEFINE r == [ep EXCEPT !.fds[fd + 1] = p, !.interest[fd] = i]
<1>13. \A d \in Dir : p[d] = IF d \in ev_events[e] THEN e ELSE EpollSlot(ep, fd, d)
  BY <1>2 DEF EpollSlot
<1> HIDE DEF p, i, fd, more
<1>14. EpollGood(r, more) /\ EpollWrites(r, ep, fd, p)
  BY <1>1, <1>2, <1>10, <1>12, EpollWrittenGood
<1> HIDE DEF r
<1>15. EpollPuts(r, before, e, e)
  BY <1>2, <1>13, <1>14 DEF EpollPuts, EpollKeeps, EpollWrites, fd
<1> QED BY <1>8, <1>14, <1>15 DEF more, fd, r

(* epoll_del leaves a good structure good, without the event, whether or   *)
(* not another one shares the descriptor.                                  *)
LEMMA EpollDeletedGood ==
  ASSUME NEW ep, NEW added, EpollGood(ep, added), NEW e \in Event
  PROVE  /\ EpollGood(EpollDeleted(ep, e), added \ {e})
         /\ EpollPuts(EpollDeleted(ep, e), ep, e, Null)
         /\ EpollDeleted(ep, e).events = ep.events
         /\ Len(EpollDeleted(ep, e).fds) = Len(ep.fds)
<1> DEFINE fd == ev_fd[e]
           rest == Known(ep, fd) \ ev_events[e]
           i == IF ev_events[e] = Dir THEN {} ELSE rest
           p == [d \in Dir |-> IF d \in i THEN ep.fds[fd + 1][d] ELSE Null]
           op == IF i = {} THEN "DEL" ELSE "MOD"
           mid == [ep EXCEPT !.fds[fd + 1] = [d \in Dir |-> IF d \in i THEN @[d] ELSE Null]]
           less == added \ {e}
<1>1. fd \in Fd /\ fd \in Nat /\ ev_events[e] \subseteq Dir /\ e # Null /\ Null \notin Event
  BY EventLemma, EventAssumption
<1>2. ep \in EpollRecord /\ EpollType(ep) /\ IsDoubling(EpollFiles, Len(ep.fds)) /\ Len(ep.fds) \in Nat
  BY DEF EpollGood, EpollType, EpollRecord, Pair
<1>3. EpollDeleted(ep, e) = IF fd >= Len(ep.fds) THEN ep ELSE Told(mid, op, fd, i)
  BY DEF EpollDeleted
<1>4. i = rest
  BY DEF Known
<1>5. CASE fd >= Len(ep.fds)
  <2>1. EpollAgrees(ep, less)
    <3> SUFFICES ASSUME NEW g \in Fd, g < Len(ep.fds), NEW d \in Known(ep, g)
                 PROVE  ep.fds[g + 1][d] # e
      BY DEF EpollGood, EpollAgrees
    <3>1. ev_fd[ep.fds[g + 1][d]] = g
      BY DEF EpollGood, EpollAgrees
    <3>2. g # fd
      BY <1>1, <1>2, <1>5, EventLemma
    <3> QED BY <3>1, <3>2
  <2>2. EpollPuts(ep, ep, e, Null)
    BY <1>1, <1>2, <1>5 DEF EpollPuts, EpollSlot
  <2> QED BY <2>1, <2>2, <1>2, <1>3, <1>5 DEF EpollGood
<1>6. CASE ~ (fd >= Len(ep.fds))
  <2>1. fd < Len(ep.fds)
    BY <1>1, <1>2, <1>6
  <2>2. ep.fds \in Seq(Pair) /\ fd + 1 \in 1..Len(ep.fds)
    BY <1>1, <1>2, <2>1 DEF EpollRecord
  <2>3. mid = [ep EXCEPT !.fds[fd + 1] = p]
    BY <1>2, <2>2 DEF EpollRecord
  <2>4. /\ ep.interest[fd] = Known(ep, fd)
        /\ \A d \in Known(ep, fd) : LET f == ep.fds[fd + 1][d]
                                 IN  f \in added /\ ev_fd[f] = fd /\ d \in ev_events[f]
    BY <1>1, <2>1 DEF EpollGood, EpollAgrees
  <2>5. p \in Pair /\ i \in SUBSET Dir /\ i = {d \in Dir : p[d] # Null}
    <3>1. ep.fds[fd + 1] \in Pair
      BY <2>2
    <3>2. i \in SUBSET Dir
      BY <1>4 DEF Known
    <3>3. p \in Pair
      BY <3>1 DEF Pair
    <3>4. \A d \in Dir : d \in i <=> p[d] # Null
      BY <1>4 DEF Known
    <3> QED BY <3>2, <3>3, <3>4
  <2>6. \A d \in i : p[d] \in less /\ ev_fd[p[d]] = fd /\ d \in ev_events[p[d]]
    <3> SUFFICES ASSUME NEW d \in i
                 PROVE  p[d] \in less /\ ev_fd[p[d]] = fd /\ d \in ev_events[p[d]]
      OBVIOUS
    <3>1. d \in Dir /\ d \in Known(ep, fd) /\ d \notin ev_events[e] /\ p[d] = ep.fds[fd + 1][d]
      BY <1>4, <2>5
    <3>2. p[d] \in added /\ ev_fd[p[d]] = fd /\ d \in ev_events[p[d]]
      BY <2>4, <3>1
    <3>3. p[d] # e
      BY <3>1, <3>2
    <3> QED BY <3>2, <3>3
  <2>7. \A f \in added : ev_fd[f] # fd => f \in less
    OBVIOUS
  <2> DEFINE r == [ep EXCEPT !.fds[fd + 1] = p, !.interest[fd] = i]
  <2>8. EpollDeleted(ep, e) = r
    <3>1. EpollDeleted(ep, e) = Told(mid, op, fd, i)
      BY <1>3, <1>6
    <3>2. op # "ADD" /\ (op = "DEL" <=> i = {})
      OBVIOUS
    <3>3. mid.interest = ep.interest /\ mid.interest[fd] = Known(ep, fd)
      BY <2>3, <2>4, <1>2 DEF EpollRecord
    <3> HIDE DEF op, p, i
    <3>4. CASE Known(ep, fd) = {}
      <4>1. ~ Accepts(mid, op, fd)
        BY <3>2, <3>3, <3>4 DEF Accepts
      <4>2. Told(mid, op, fd, i) = mid
        BY <4>1 DEF Told
      <4>3. i = {}
        BY <3>4, <1>4
      <4>4. [ep.interest EXCEPT ![fd] = i] = ep.interest
        BY <4>3, <3>4, <2>4, <1>1, <1>2 DEF EpollRecord
      <4>5. r = [ep EXCEPT !.fds[fd + 1] = p]
        BY <4>4, <1>2 DEF EpollRecord
      <4> QED BY <3>1, <4>2, <4>5, <2>3
    <3>5. CASE Known(ep, fd) # {}
      <4>1. Accepts(mid, op, fd)
        BY <3>2, <3>3, <3>5 DEF Accepts
      <4>2. Told(mid, op, fd, i) = [mid EXCEPT !.interest[fd] = i]
        BY <4>1, <3>2 DEF Told
      <4>3. [mid EXCEPT !.interest[fd] = i] = r
        BY <2>3, <1>2 DEF EpollRecord
      <4> QED BY <3>1, <4>2, <4>3
    <3> QED BY <3>4, <3>5
  <2>9. \A d \in Dir : p[d] = IF d \in ev_events[e] THEN Null ELSE EpollSlot(ep, fd, d)
    BY <1>4, <2>1 DEF EpollSlot, Known
  <2> HIDE DEF p, i, less, fd
  <2>10. EpollGood(r, less) /\ EpollWrites(r, ep, fd, p)
    BY <1>1, <2>1, <2>5, <2>6, <2>7, EpollWrittenGood
  <2> HIDE DEF r
  <2>11. EpollPuts(r, ep, e, Null)
    BY <2>9, <2>10 DEF EpollPuts, EpollWrites, fd
  <2> QED BY <2>8, <2>10, <2>11 DEF EpollWrites, less
<1> QED BY <1>5, <1>6

(* An event that the array leads to and the kernel knows of is at all      *)
(* pointers it wants.                                                      *)
LEMMA EpollWatchedLemma ==
  ASSUME NEW ep, NEW added, EpollGood(ep, added), NEW e \in Event
  PROVE  EpollWatched(ep, e) <=> \A d \in ev_events[e] : EpollSlot(ep, ev_fd[e], d) = e
<1>1. /\ ev_fd[e] \in Fd /\ ev_events[e] \subseteq Dir /\ ev_events[e] # {} /\ e # Null
  BY EventLemma
<1>2. ASSUME EpollWatched(ep, e), NEW d \in ev_events[e] PROVE EpollSlot(ep, ev_fd[e], d) = e
  BY <1>2 DEF EpollWatched, EpollSlot
<1>3. ASSUME \A d \in ev_events[e] : EpollSlot(ep, ev_fd[e], d) = e PROVE EpollWatched(ep, e)
  <2>1. ev_fd[e] < Len(ep.fds) /\ \A d \in ev_events[e] : ep.fds[ev_fd[e] + 1][d] = e
    BY <1>1, <1>3 DEF EpollSlot
  <2>2. ep.interest[ev_fd[e]] = Known(ep, ev_fd[e])
    BY <1>1, <2>1 DEF EpollGood, EpollAgrees
  <2>3. ev_events[e] \subseteq Known(ep, ev_fd[e])
    BY <1>1, <2>1 DEF Known
  <2> QED BY <2>1, <2>2, <2>3 DEF EpollWatched
<1> QED BY <1>2, <1>3

(* A pointer leads to an event that was added, of the descriptor and the   *)
(* direction, and the kernel watches for it.                               *)
LEMMA EpollSlotLemma ==
  ASSUME NEW ep, NEW added, EpollGood(ep, added), NEW fd \in Fd, NEW d \in Dir,
         NEW e, e = EpollSlot(ep, fd, d), e # Null
  PROVE  e \in added /\ ev_fd[e] = fd /\ d \in ev_events[e] /\ d \in ep.interest[fd]
<1>1. fd < Len(ep.fds) /\ e = ep.fds[fd + 1][d]
  BY DEF EpollSlot
<1>2. d \in Known(ep, fd)
  BY <1>1 DEF Known
<1> QED BY <1>1, <1>2 DEF EpollGood, EpollAgrees

-----------------------------------------------------------------------------
(* poll.c *)

PollRecord ==
  [event_set : Seq(Pollfd \cup {Junk}), back : [Dir -> Seq(Event \cup {Null, Junk})],
   idxplus1_by_fd : Seq(Nat), nfds : Nat, event_count : Nat]

(* Wherever in memory a pointer to an event is left, the table by          *)
(* descriptor has a place for it, so poll_del does not look behind it.     *)
PollKnown(pop) ==
  \A d \in Dir : \A k \in DOMAIN pop.back[d] :
    pop.back[d][k] \in Event => PollFinds(pop, pop.back[d][k])

PollGood(pop, added) == PollType(pop) /\ PollAgrees(pop, added) /\ PollKnown(pop)

(* What a place holds. *)
Held(pop, i, added) ==
  LET pfd == pop.event_set[i]
  IN  /\ pfd \in Pollfd /\ pfd.events # {}
      /\ pfd.fd \in Nat /\ pfd.fd + 1 \in 1..Len(pop.idxplus1_by_fd)
      /\ pop.idxplus1_by_fd[pfd.fd + 1] = i
      /\ \A d \in Dir : IF d \in pfd.events
                        THEN /\ pop.back[d][i] \in added /\ ev_fd[pop.back[d][i]] = pfd.fd
                             /\ d \in ev_events[pop.back[d][i]]
                        ELSE pop.back[d][i] = Null

(* The places of a good structure hold what they should.                   *)
LEMMA HeldLemma ==
  ASSUME NEW pop, NEW added \in SUBSET Event, PollGood(pop, added), NEW i \in 1..pop.nfds
  PROVE  Held(pop, i, added)
<1> DEFINE pfd == pop.event_set[i]
           l == Len(pop.idxplus1_by_fd)
<1>1. pop \in PollRecord /\ pop.nfds \in Nat /\ i \in Nat
  BY DEF PollGood, PollType, PollRecord
<1>2. /\ pop.nfds <= pop.event_count /\ pop.event_count <= Len(pop.event_set) /\ pop.event_count \in Nat
      /\ \A d \in Dir : pop.event_count <= Len(pop.back[d])
      /\ pfd # Junk
  BY DEF PollGood, PollType
<1>3. /\ pop.event_set \in Seq(Pollfd \cup {Junk}) /\ l \in Nat
      /\ \A d \in Dir : pop.back[d] \in Seq(Event \cup {Null, Junk})
  BY <1>1 DEF PollRecord
<1>4. i \in 1..Len(pop.event_set) /\ \A d \in Dir : i \in 1..Len(pop.back[d])
  <2>1. Len(pop.event_set) \in Nat /\ \A d \in Dir : Len(pop.back[d]) \in Nat
    BY <1>3
  <2> QED BY <1>1, <1>2, <2>1
<1>5. pfd \in Pollfd
  <2>1. pfd \in Pollfd \cup {Junk}
    BY <1>3, <1>4
  <2> QED BY <2>1, <1>2
<1>6. /\ pop.idxplus1_by_fd[pfd.fd + 1] = i
      /\ pfd.events # {}
      /\ \A d \in Dir : IF d \in pfd.events
                        THEN /\ pop.back[d][i] \in added /\ ev_fd[pop.back[d][i]] = pfd.fd
                             /\ d \in ev_events[pop.back[d][i]]
                        ELSE pop.back[d][i] = Null
  BY DEF PollGood, PollAgrees
<1>7. pfd.fd \in Nat /\ pfd.events \subseteq Dir
  BY <1>5, EventLemma DEF Pollfd
<1>8. pfd.fd + 1 \in 1..l
  <2>1. PICK d \in Dir : d \in pfd.events
    BY <1>6, <1>7
  <2>2. pop.back[d][i] \in Event /\ ev_fd[pop.back[d][i]] = pfd.fd
    BY <1>6, <2>1
  <2>3. i \in DOMAIN pop.back[d]
    BY <1>3, <1>4
  <2>4. PollFinds(pop, pop.back[d][i])
    BY <2>2, <2>3 DEF PollGood, PollKnown
  <2> QED BY <1>3, <1>7, <2>2, <2>4 DEF PollFinds
<1> QED BY <1>5, <1>6, <1>7, <1>8 DEF Held

(* The converse, and where an index leads. *)
IsLed(pop, n) ==
  LET i == pop.idxplus1_by_fd[n]
  IN  i \in Nat /\ (i # 0 => i \in 1..pop.nfds /\ pop.event_set[i].fd = n - 1)

(* An index leads to a place that leads back.                              *)
LEMMA LedLemma ==
  ASSUME NEW pop, NEW added, PollGood(pop, added), NEW n \in 1..Len(pop.idxplus1_by_fd)
  PROVE  IsLed(pop, n)
<1>1. pop.idxplus1_by_fd \in Seq(Nat)
  BY DEF PollGood, PollType
<1>2. n \in DOMAIN pop.idxplus1_by_fd /\ pop.idxplus1_by_fd[n] \in Nat
  BY <1>1
<1> QED BY <1>2 DEF PollGood, PollAgrees, IsLed

(* The places, the index and the bounds make a structure good. *)
LEMMA PollGoodLemma ==
  ASSUME NEW pop \in PollRecord, NEW added,
         pop.nfds <= pop.event_count, pop.event_count <= Len(pop.event_set),
         \A d \in Dir : pop.event_count <= Len(pop.back[d]),
         PollKnown(pop),
         \A i \in 1..pop.nfds : Held(pop, i, added),
         \A n \in 1..Len(pop.idxplus1_by_fd) : IsLed(pop, n)
  PROVE  PollGood(pop, added)
<1>1. pop.nfds \in Nat /\ pop.idxplus1_by_fd \in Seq(Nat)
  BY DEF PollRecord
<1>2. DOMAIN pop.idxplus1_by_fd = 1..Len(pop.idxplus1_by_fd)
  BY <1>1
<1>3. ASSUME NEW n \in DOMAIN pop.idxplus1_by_fd
      PROVE  pop.idxplus1_by_fd[n] <= pop.nfds
  BY <1>1, <1>2 DEF IsLed
<1>4. PollType(pop)
  BY <1>3, PollAssumption DEF PollType, PollRecord, Held
<1>5. PollAgrees(pop, added)
  BY <1>2 DEF PollAgrees, Held, IsLed
<1> QED BY <1>4, <1>5 DEF PollGood

(* Nothing is lost when more events count as added.                        *)
LEMMA PollMore ==
  ASSUME NEW pop, NEW added, PollGood(pop, added), NEW more, added \subseteq more
  PROVE  PollGood(pop, more)
BY DEF PollGood, PollAgrees

(* The first n elements of two sequences are the same. *)
Same(s, t, n) == \A i \in 1..n : s[i] = t[i]

(* r has the places of pop in memory that may be larger, of which what is  *)
(* new is Junk and null.                                                   *)
Prolongs(r, pop) ==
  /\ r.nfds = pop.nfds
  /\ r.nfds <= r.event_count
  /\ r.event_count <= Len(r.event_set)
  /\ \A d \in Dir : r.event_count <= Len(r.back[d])
  /\ Same(r.event_set, pop.event_set, pop.nfds)
  /\ \A d \in Dir : /\ Same(r.back[d], pop.back[d], pop.nfds)
                    /\ \A k \in DOMAIN r.back[d] :
                         \/ r.back[d][k] \notin Event
                         \/ k \in DOMAIN pop.back[d] /\ r.back[d][k] = pop.back[d][k]
  /\ Len(pop.idxplus1_by_fd) <= Len(r.idxplus1_by_fd)
  /\ \A n \in 1..Len(r.idxplus1_by_fd) :
       r.idxplus1_by_fd[n] = IF n <= Len(pop.idxplus1_by_fd) THEN pop.idxplus1_by_fd[n] ELSE 0

(* The pointer of a descriptor for one direction, Null if there is none. *)
PollSlot(pop, fd, d) ==
  IF fd < Len(pop.idxplus1_by_fd) /\ pop.idxplus1_by_fd[fd + 1] # 0
  THEN pop.back[d][pop.idxplus1_by_fd[fd + 1]] ELSE Null

(* The same pointers lead from the same descriptors. *)
PollKeeps(r, pop) ==
  \A fd \in Fd, d \in Dir : PollSlot(r, fd, d) = PollSlot(pop, fd, d)

(* The pointers of e have become v, and no others have changed. *)
PollPuts(r, pop, e, v) ==
  \A fd \in Fd, d \in Dir :
    PollSlot(r, fd, d) = IF fd = ev_fd[e] /\ d \in ev_events[e] THEN v ELSE PollSlot(pop, fd, d)

(* A structure that is prolonged keeps its pointers. *)
LEMMA ProlongedKeeps ==
  ASSUME NEW pop, NEW added, PollGood(pop, added), NEW r, Prolongs(r, pop),
         Len(r.idxplus1_by_fd) \in Nat
  PROVE  PollKeeps(r, pop)
<1> DEFINE x == pop.idxplus1_by_fd
           y == r.idxplus1_by_fd
           l == Len(x)
           m == Len(y)
<1>1. l \in Nat /\ m \in Nat /\ l <= m
  BY DEF PollGood, PollType, Prolongs
<1>2. \A n \in 1..m : y[n] = IF n <= l THEN x[n] ELSE 0
  BY DEF Prolongs
<1>3. ASSUME NEW n \in 1..l PROVE x[n] \in Nat /\ (x[n] # 0 => x[n] \in 1..pop.nfds)
  BY LedLemma DEF IsLed
<1>4. \A d \in Dir : \A k \in 1..pop.nfds : r.back[d][k] = pop.back[d][k]
  BY DEF Prolongs, Same
<1> SUFFICES ASSUME NEW fd \in Fd, NEW d \in Dir
             PROVE  PollSlot(r, fd, d) = PollSlot(pop, fd, d)
  BY DEF PollKeeps
<1>5. fd \in Nat
  BY EventLemma
<1> HIDE DEF l, m, x, y
<1>6. CASE fd < l
  <2>1. fd + 1 \in 1..l /\ fd + 1 \in 1..m /\ fd < m
    BY <1>1, <1>5, <1>6
  <2>2. y[fd + 1] = x[fd + 1]
    BY <2>1, <1>1, <1>2
  <2> QED BY <2>1, <2>2, <1>3, <1>4, <1>6 DEF PollSlot, l, m, x, y
<1>7. CASE ~(fd < l)
  <2>1. fd < m => fd + 1 \in 1..m /\ ~(fd + 1 <= l)
    BY <1>1, <1>5, <1>7
  <2>2. fd < m => y[fd + 1] = 0
    BY <2>1, <1>2
  <2> QED BY <2>2, <1>7 DEF PollSlot, l, m, x, y
<1> QED BY <1>6, <1>7

(* A structure that is prolonged stays good.                               *)
LEMMA ProlongedGood ==
  ASSUME NEW pop, NEW added \in SUBSET Event, PollGood(pop, added),
         NEW r \in PollRecord, Prolongs(r, pop)
  PROVE  PollGood(r, added)
<1> DEFINE l == Len(pop.idxplus1_by_fd)
           m == Len(r.idxplus1_by_fd)
<1>1. l \in Nat /\ m \in Nat /\ l <= m /\ pop.nfds \in Nat
  BY DEF PollGood, PollType, PollRecord, Prolongs
<1>2. ASSUME NEW i \in 1..r.nfds PROVE Held(r, i, added)
  <2>1. Held(pop, i, added)
    BY HeldLemma DEF Prolongs
  <2>2. r.event_set[i] = pop.event_set[i] /\ \A d \in Dir : r.back[d][i] = pop.back[d][i]
    BY DEF Prolongs, Same
  <2>3. pop.event_set[i].fd + 1 \in 1..l
    BY <2>1 DEF Held
  <2>4. pop.event_set[i].fd + 1 \in 1..m /\ pop.event_set[i].fd + 1 <= l
    BY <2>3, <1>1
  <2>5. r.idxplus1_by_fd[pop.event_set[i].fd + 1] = pop.idxplus1_by_fd[pop.event_set[i].fd + 1]
    BY <2>4 DEF Prolongs
  <2> HIDE DEF l, m
  <2> QED BY <2>1, <2>2, <2>4, <2>5 DEF Held, m
<1>3. ASSUME NEW n \in 1..m PROVE IsLed(r, n)
  <2>1. r.idxplus1_by_fd[n] = IF n <= l THEN pop.idxplus1_by_fd[n] ELSE 0
    BY DEF Prolongs
  <2>2. CASE n <= l
    <3>1. IsLed(pop, n)
      <4>1. n \in 1..l
        BY <1>1, <2>2
      <4> QED BY <4>1, LedLemma
    <3> QED BY <2>1, <2>2, <3>1 DEF IsLed, Prolongs, Same
  <2>3. CASE ~ (n <= l)
    BY <2>1, <2>3 DEF IsLed
  <2> QED BY <2>2, <2>3
<1>4. PollKnown(r)
  <2> SUFFICES ASSUME NEW d \in Dir, NEW k \in DOMAIN r.back[d], r.back[d][k] \in Event
               PROVE  PollFinds(r, r.back[d][k])
    BY DEF PollKnown
  <2>1. k \in DOMAIN pop.back[d] /\ r.back[d][k] = pop.back[d][k]
    BY DEF Prolongs
  <2>2. ev_fd[r.back[d][k]] < l
    BY <2>1 DEF PollGood, PollKnown, PollFinds
  <2>3. ev_fd[r.back[d][k]] \in Nat
    BY EventLemma
  <2>4. ev_fd[r.back[d][k]] < m
    BY <1>1, <2>2, <2>3
  <2> QED BY <2>4 DEF PollFinds
<1> QED BY <1>2, <1>3, <1>4, PollGoodLemma DEF Prolongs

(* The memory after some of the allocations is as good as it was; after    *)
(* all of them there is a place more.                                      *)
LEMMA WithEventsLemma ==
  ASSUME NEW pop, NEW added \in SUBSET Event, PollGood(pop, added), NEW k \in 0..3
  PROVE  /\ PollGood(WithEvents(pop, k), added)
         /\ WithEvents(pop, k).nfds = pop.nfds
         /\ k = 3 => pop.nfds + 1 <= WithEvents(pop, k).event_count
         /\ PollKeeps(WithEvents(pop, k), pop)
<1> DEFINE S == Pollfd \cup {Junk}
           T == Event \cup {Null, Junk}
           n == MoreEvents(pop)
           s == IF k >= 1 THEN Longer(pop.event_set, n, Junk) ELSE pop.event_set
           a == IF k >= 2 THEN Longer(pop.back["in"], n, Junk) ELSE pop.back["in"]
           b == IF k >= 3 THEN Longer(pop.back["out"], n, Junk) ELSE pop.back["out"]
           c == IF k >= 3 THEN n ELSE pop.event_count
           r == WithEvents(pop, k)
<1>1. /\ pop \in PollRecord /\ pop.nfds \in Nat /\ pop.event_count \in Nat
      /\ pop.nfds <= pop.event_count
      /\ pop.event_set \in Seq(S) /\ pop.back["in"] \in Seq(T) /\ pop.back["out"] \in Seq(T)
      /\ pop.event_count <= Len(pop.event_set)
      /\ pop.event_count <= Len(pop.back["in"])
      /\ pop.event_count <= Len(pop.back["out"])
      /\ DOMAIN pop.back = Dir
  BY DEF PollGood, PollType, PollRecord, Dir
<1>2. n \in Nat /\ n >= pop.event_count /\ n >= pop.nfds + 1
  BY <1>1, PollAssumption DEF MoreEvents
<1>3. Junk \in S /\ Junk \in T
  OBVIOUS
<1>4. r = [pop EXCEPT !.event_set = s, !.back["in"] = a, !.back["out"] = b, !.event_count = c]
  BY DEF WithEvents
<1> HIDE DEF S, T, n
<1> DEFINE ls == Longer(pop.event_set, n, Junk)
           la == Longer(pop.back["in"], n, Junk)
           lb == Longer(pop.back["out"], n, Junk)
<1>21. ls \in Seq(S) /\ Extends(ls, pop.event_set, n, Junk)
  BY <1>1, <1>2, <1>3, LongerLemma
<1>22. la \in Seq(T) /\ Extends(la, pop.back["in"], n, Junk)
  BY <1>1, <1>2, <1>3, LongerLemma
<1>23. lb \in Seq(T) /\ Extends(lb, pop.back["out"], n, Junk)
  BY <1>1, <1>2, <1>3, LongerLemma
<1>24. /\ s = IF k >= 1 THEN ls ELSE pop.event_set
       /\ a = IF k >= 2 THEN la ELSE pop.back["in"]
       /\ b = IF k >= 3 THEN lb ELSE pop.back["out"]
  OBVIOUS
<1> HIDE DEF ls, la, lb, s, a, b
<1>5. s \in Seq(S) /\ (s = pop.event_set \/ Extends(s, pop.event_set, n, Junk))
  BY <1>1, <1>21, <1>22, <1>23, <1>24
<1>6. a \in Seq(T) /\ (a = pop.back["in"] \/ Extends(a, pop.back["in"], n, Junk))
  BY <1>1, <1>21, <1>22, <1>23, <1>24
<1>7. b \in Seq(T) /\ (b = pop.back["out"] \/ Extends(b, pop.back["out"], n, Junk))
  BY <1>1, <1>21, <1>22, <1>23, <1>24
<1>8. k >= 3 => Extends(s, pop.event_set, n, Junk) /\ Extends(a, pop.back["in"], n, Junk)
                /\ Extends(b, pop.back["out"], n, Junk)
  BY <1>21, <1>22, <1>23, <1>24
<1> HIDE DEF r
<1>9. ASSUME NEW U, NEW u \in Seq(U), NEW v \in Seq(U),
             v = u \/ Extends(v, u, n, Junk),
             Len(u) >= pop.event_count, Junk \notin Event
      PROVE  /\ Same(v, u, pop.nfds)
             /\ Len(v) >= pop.event_count
             /\ Extends(v, u, n, Junk) => Len(v) >= n
             /\ \A j \in DOMAIN v : v[j] \notin Event \/ (j \in DOMAIN u /\ v[j] = u[j])
  <2> DEFINE x == Len(u)
             y == Len(v)
             z == pop.nfds
             w == pop.event_count
  <2>1. x \in Nat /\ y \in Nat /\ DOMAIN u = 1..x /\ DOMAIN v = 1..y /\ x >= w
    BY <1>9
  <2>2. Extends(v, u, n, Junk) => /\ y = IF n > x THEN n ELSE x
                                  /\ \A i \in 1..x : v[i] = u[i]
                                  /\ \A i \in 1..y : i > x => v[i] = Junk
    BY DEF Extends
  <2>3. z \in Nat /\ w \in Nat /\ z <= w
    BY <1>1
  <2> HIDE DEF x, y, z, w
  <2>4. Extends(v, u, n, Junk) => y >= n /\ y >= x
    BY <1>2, <2>1, <2>2
  <2>5. \A i \in 1..x : v[i] = u[i]
    BY <1>9, <2>2
  <2>6. y >= w
    BY <1>9, <2>1, <2>3, <2>4 DEF x, y
  <2>7. ASSUME NEW i \in 1..z PROVE v[i] = u[i]
    <3>1. i \in 1..x
      BY <2>1, <2>3
    <3> QED BY <3>1, <2>5
  <2>8. ASSUME NEW j \in 1..y PROVE v[j] \notin Event \/ (j \in 1..x /\ v[j] = u[j])
    <3>1. CASE v = u
      BY <3>1, <2>1 DEF x, y
    <3>2. CASE Extends(v, u, n, Junk)
      <4>1. CASE j > x
        <5>1. v[j] = Junk /\ Junk \notin Event
          BY <3>2, <4>1, <2>2, <1>9
        <5> QED BY <5>1
      <4>2. CASE ~ (j > x)
        <5>1. j \in 1..x
          BY <4>2, <2>1
        <5> QED BY <5>1, <2>5
      <4> QED BY <4>1, <4>2
    <3> QED BY <1>9, <3>1, <3>2
  <2> QED BY <2>1, <2>4, <2>6, <2>7, <2>8 DEF Same, x, y, z, w
<1>10. Junk \notin Event
  BY EventAssumption
<1>11. /\ r.nfds = pop.nfds /\ r.event_count = c /\ r.idxplus1_by_fd = pop.idxplus1_by_fd
       /\ r.event_set = s
       /\ r.back = [pop.back EXCEPT !["in"] = a, !["out"] = b]
       /\ r \in [event_set : {s}, back : {r.back}, idxplus1_by_fd : {pop.idxplus1_by_fd},
                 nfds : {pop.nfds}, event_count : {c}]
  BY <1>1, <1>4 DEF PollRecord
<1>12. r.back["in"] = a /\ r.back["out"] = b /\ r.back \in [Dir -> Seq(T)]
  BY <1>1, <1>6, <1>7, <1>11 DEF Dir
<1>13. c \in Nat
  BY <1>1, <1>2
<1>14. r \in PollRecord
  BY <1>1, <1>5, <1>11, <1>12, <1>13 DEF PollRecord, S, T
<1>15. Same(s, pop.event_set, pop.nfds) /\ Len(s) >= pop.event_count
       /\ (Extends(s, pop.event_set, n, Junk) => Len(s) >= n)
  <2>1. s = pop.event_set \/ Extends(s, pop.event_set, n, Junk)
    BY <1>5
  <2> QED BY <2>1, <1>1, <1>5, <1>9, <1>10
<1>16. ASSUME NEW d \in Dir
       PROVE  /\ Same(r.back[d], pop.back[d], pop.nfds)
              /\ Len(r.back[d]) >= pop.event_count
              /\ k >= 3 => Len(r.back[d]) >= n
              /\ \A j \in DOMAIN r.back[d] : 
                   (r.back[d][j] \notin Event \/ (j \in DOMAIN pop.back[d] /\ r.back[d][j] = pop.back[d][j]))
  <2> DEFINE u == pop.back[d]
             v == r.back[d]
  <2>1. d = "in" \/ d = "out"
    BY DEF Dir
  <2>2. v = u \/ Extends(v, u, n, Junk)
    BY <2>1, <1>6, <1>7, <1>12
  <2>3. k >= 3 => Extends(v, u, n, Junk)
    BY <2>1, <1>8, <1>12
  <2>4. u \in Seq(T) /\ v \in Seq(T) /\ Len(u) >= pop.event_count
    BY <2>1, <1>1, <1>12
  <2> HIDE DEF u, v
  <2>5. /\ Same(v, u, pop.nfds) /\ Len(v) >= pop.event_count
        /\ Extends(v, u, n, Junk) => Len(v) >= n
        /\ \A j \in DOMAIN v : v[j] \notin Event \/ (j \in DOMAIN u /\ v[j] = u[j])
    BY <2>2, <2>4, <1>9, <1>10
  <2>6. k >= 3 => Len(v) >= n
    BY <2>3, <2>5
  <2>7. \A j \in DOMAIN v : v[j] \notin Event \/ (j \in DOMAIN u /\ v[j] = u[j])
    BY <2>5
  <2> QED BY <2>5, <2>6, <2>7 DEF u, v
<1>17. c <= Len(s) /\ pop.nfds <= c
  BY <1>1, <1>2, <1>5, <1>8, <1>15
<1>18. \A d \in Dir : c <= Len(r.back[d])
  BY <1>16
<1>19. Prolongs(r, pop)
  <2>1. Len(pop.idxplus1_by_fd) \in Nat
    BY <1>1 DEF PollRecord
  <2> DEFINE ix == pop.idxplus1_by_fd
             l == Len(ix)
  <2>2. \A j \in 1..l : ix[j] = IF j <= l THEN ix[j] ELSE 0
    BY <2>1
  <2>3. l <= l
    BY <2>1
  <2> HIDE DEF ix, l
  <2>4. r.nfds <= r.event_count /\ r.event_count <= Len(r.event_set)
    BY <1>11, <1>17
  <2>5. \A d \in Dir : r.event_count <= Len(r.back[d])
    BY <1>11, <1>18
  <2> HIDE DEF c
  <2> QED BY <1>11, <1>15, <1>16, <2>2, <2>3, <2>4, <2>5 DEF Prolongs, ix, l
<1>20. k = 3 => pop.nfds + 1 <= c
  BY <1>1, <1>2
<1>25. Len(r.idxplus1_by_fd) \in Nat
  BY <1>1, <1>11 DEF PollRecord
<1> QED BY <1>11, <1>14, <1>19, <1>20, <1>25, ProlongedGood, ProlongedKeeps DEF r

(* The first half of poll_add leaves room for one more place.              *)
LEMMA RoomyGood ==
  ASSUME NEW pop, NEW added \in SUBSET Event, PollGood(pop, added)
  PROVE  /\ PollGood(Roomy(pop), added)
         /\ Roomy(pop).nfds = pop.nfds
         /\ pop.nfds + 1 <= Roomy(pop).event_count
         /\ PollKeeps(Roomy(pop), pop)
<1>1. CASE IsFull(pop)
  <2>1. 3 \in 0..3
    OBVIOUS
  <2> QED BY <1>1, <2>1, WithEventsLemma DEF Roomy
<1>2. CASE ~ IsFull(pop)
  <2>1. pop.nfds \in Nat /\ pop.event_count \in Nat
    BY DEF PollGood, PollType
  <2> QED BY <1>2, <2>1 DEF Roomy, IsFull, PollKeeps
<1> QED BY <1>1, <1>2

(* The descriptor has an index. *)
LEMMA WithFdGood ==
  ASSUME NEW pop, NEW added \in SUBSET Event, PollGood(pop, added), NEW fd \in Nat
  PROVE  /\ PollGood(WithFd(pop, fd), added)
         /\ WithFd(pop, fd).nfds = pop.nfds
         /\ WithFd(pop, fd).event_count = pop.event_count
         /\ fd < Len(WithFd(pop, fd).idxplus1_by_fd)
         /\ PollKeeps(WithFd(pop, fd), pop)
<1> DEFINE l == Len(pop.idxplus1_by_fd)
           b == IF l < PollMin THEN PollMin ELSE 2 * l
           n == MoreFds(pop, fd)
           t == Longer(pop.idxplus1_by_fd, n, 0)
           r == [pop EXCEPT !.idxplus1_by_fd = t]
<1>1. pop \in PollRecord /\ pop.idxplus1_by_fd \in Seq(Nat) /\ l \in Nat /\ pop.nfds \in Nat
  BY DEF PollGood, PollType, PollRecord
<1>2. b \in Nat /\ b > 0
  BY <1>1, PollAssumption
<1>3. n = Doubled(b, fd + 1)
  BY DEF MoreFds
<1> HIDE DEF b, n
<1>4. n \in Nat /\ n >= fd + 1
  BY <1>2, <1>3, DoubledLemma
<1>5. t \in Seq(Nat) /\ Extends(t, pop.idxplus1_by_fd, n, 0)
  BY <1>1, <1>4, LongerLemma
<1>6. WithFd(pop, fd) = IF fd >= l THEN r ELSE pop
  BY DEF WithFd, IsBeyond, n
<1> HIDE DEF t
<1>7. CASE ~ (fd >= l)
  BY <1>1, <1>6, <1>7 DEF PollKeeps
<1>8. CASE fd >= l
  <2>1. /\ r \in PollRecord /\ r.nfds = pop.nfds /\ r.event_count = pop.event_count
        /\ r.event_set = pop.event_set /\ r.back = pop.back /\ r.idxplus1_by_fd = t
    BY <1>1, <1>5 DEF PollRecord
  <2> HIDE DEF r
  <2> DEFINE m == Len(t)
  <2>2. m \in Nat /\ m >= n /\ m >= l
    BY <1>1, <1>4, <1>5 DEF Extends
  <2>3. ASSUME NEW i \in 1..m PROVE t[i] = IF i <= l THEN pop.idxplus1_by_fd[i] ELSE 0
    BY <1>1, <1>5, <2>2 DEF Extends
  <2>4. Prolongs(r, pop)
    <3>1. /\ pop.nfds <= pop.event_count /\ pop.event_count <= Len(pop.event_set)
          /\ \A d \in Dir : pop.event_count <= Len(pop.back[d])
      BY DEF PollGood, PollType
    <3> QED BY <2>1, <2>2, <2>3, <3>1 DEF Prolongs, Same
  <2>5. PollGood(r, added) /\ PollKeeps(r, pop)
    BY <2>1, <2>2, <2>4, ProlongedGood, ProlongedKeeps
  <2>6. fd < m
    BY <1>4, <2>2
  <2> QED BY <1>6, <1>8, <2>1, <2>5, <2>6
<1> QED BY <1>7, <1>8

(* Wherever an allocation of poll_add fails, the structure stays good.     *)
LEMMA PollFailuresGood ==
  ASSUME NEW pop, NEW added \in SUBSET Event, PollGood(pop, added), NEW e \in Event,
         NEW r \in PollFailures(pop, e)
  PROVE  PollGood(r, added) /\ PollKeeps(r, pop)
<1>1. CASE \E k \in 0..2 : r = WithEvents(pop, k)
  <2>1. PICK k \in 0..2 : r = WithEvents(pop, k)
    BY <1>1
  <2>2. k \in 0..3
    OBVIOUS
  <2> QED BY <2>1, <2>2, WithEventsLemma
<1>2. CASE r = Roomy(pop)
  BY <1>2, RoomyGood
<1>3. (\E k \in 0..2 : r = WithEvents(pop, k)) \/ r = Roomy(pop)
  BY DEF PollFailures
<1> QED BY <1>1, <1>2, <1>3

(* The bounds of the arrays. *)
LEMMA PollBounds ==
  ASSUME NEW pop, NEW added, PollGood(pop, added)
  PROVE  /\ pop \in PollRecord /\ pop.nfds \in Nat /\ pop.event_count \in Nat
         /\ pop.nfds <= pop.event_count
         /\ pop.event_set \in Seq(Pollfd \cup {Junk})
         /\ pop.event_count <= Len(pop.event_set) /\ Len(pop.event_set) \in Nat
         /\ pop.idxplus1_by_fd \in Seq(Nat) /\ Len(pop.idxplus1_by_fd) \in Nat
         /\ \A d \in Dir : /\ pop.back[d] \in Seq(Event \cup {Null, Junk})
                           /\ pop.event_count <= Len(pop.back[d]) /\ Len(pop.back[d]) \in Nat
BY DEF PollGood, PollType, PollRecord

(* What pop is when descriptor fd has place i of n, with record pfd and    *)
(* pointers p.                                                             *)
Written(pop, i, n, fd, pfd, p) ==
  [pop EXCEPT
    !.event_set = [pop.event_set EXCEPT ![i] = pfd],
    !.back = [d \in Dir |-> [pop.back[d] EXCEPT ![i] = p[d]]],
    !.idxplus1_by_fd = [pop.idxplus1_by_fd EXCEPT ![fd + 1] = i],
    !.nfds = n]

(* A place that is written, an old one or a new one behind the last,       *)
(* leaves the structure good if it holds what it should.                   *)
LEMMA WrittenGood ==
  ASSUME NEW pop, NEW added \in SUBSET Event, PollGood(pop, added), NEW listed,
         NEW fd \in Fd, fd < Len(pop.idxplus1_by_fd), NEW i \in Nat, NEW n \in Nat,
         \/ i \in 1..pop.nfds /\ pop.idxplus1_by_fd[fd + 1] = i /\ n = pop.nfds
         \/ /\ pop.idxplus1_by_fd[fd + 1] = 0
            /\ i = pop.nfds + 1 /\ n = pop.nfds + 1 /\ n <= pop.event_count,
         NEW pfd \in Pollfd, pfd.fd = fd, pfd.events # {},
         NEW p \in [Dir -> Event \cup {Null}],
         \A d \in Dir : IF d \in pfd.events
                        THEN p[d] \in listed /\ ev_fd[p[d]] = fd /\ d \in ev_events[p[d]]
                        ELSE p[d] = Null,
         \A f \in added : ev_fd[f] # fd => f \in listed
  PROVE  PollGood(Written(pop, i, n, fd, pfd, p), listed)
<1> DEFINE S == Pollfd \cup {Junk}
           T == Event \cup {Null, Junk}
           s == [pop.event_set EXCEPT ![i] = pfd]
           b == [d \in Dir |-> [pop.back[d] EXCEPT ![i] = p[d]]]
           x == [pop.idxplus1_by_fd EXCEPT ![fd + 1] = i]
           l == Len(pop.idxplus1_by_fd)
           m == pop.nfds
           c == pop.event_count
           r == Written(pop, i, n, fd, pfd, p)
<1>1. /\ pop \in PollRecord /\ m \in Nat /\ c \in Nat /\ m <= c
      /\ pop.event_set \in Seq(S) /\ c <= Len(pop.event_set) /\ Len(pop.event_set) \in Nat
      /\ pop.idxplus1_by_fd \in Seq(Nat) /\ l \in Nat
      /\ \A d \in Dir : pop.back[d] \in Seq(T) /\ c <= Len(pop.back[d]) /\ Len(pop.back[d]) \in Nat
  BY PollBounds
<1>2. fd \in Nat /\ fd + 1 \in 1..l
  BY <1>1, EventLemma
<1>3. i \in 1..n /\ n <= c /\ m <= n /\ (n # m => n = m + 1 /\ i = n)
  BY <1>1
<1>4. i \in 1..Len(pop.event_set) /\ \A d \in Dir : i \in 1..Len(pop.back[d])
  BY <1>1, <1>3
<1>5. s \in Seq(S) /\ Len(s) = Len(pop.event_set) /\ DOMAIN s = DOMAIN pop.event_set
  <2>1. pfd \in S
    OBVIOUS
  <2> QED BY <1>1, <1>4, <2>1, ExceptSeq
<1>6. ASSUME NEW d \in Dir
      PROVE  b[d] \in Seq(T) /\ Len(b[d]) = Len(pop.back[d]) /\ DOMAIN b[d] = DOMAIN pop.back[d]
  <2> DEFINE u == pop.back[d]
             v == p[d]
  <2>1. u \in Seq(T) /\ i \in 1..Len(u) /\ v \in T /\ b[d] = [u EXCEPT ![i] = v]
    BY <1>1, <1>4
  <2> HIDE DEF u, v, T, b
  <2> QED BY <2>1, ExceptSeq DEF u
<1>7. x \in Seq(Nat) /\ Len(x) = l /\ \A k \in 1..l : x[k] = IF k = fd + 1 THEN i ELSE pop.idxplus1_by_fd[k]
  BY <1>1, <1>2, ExceptSeq
<1>8. /\ s[i] = pfd /\ \A k \in 1..m : k # i => s[k] = pop.event_set[k]
      /\ \A d \in Dir : /\ b[d][i] = p[d]
                        /\ \A k \in DOMAIN pop.back[d] : k # i => b[d][k] = pop.back[d][k]
  <2>1. i \in DOMAIN pop.event_set /\ \A k \in 1..m : k \in DOMAIN pop.event_set
    BY <1>1, <1>4
  <2>2. \A d \in Dir : i \in DOMAIN pop.back[d]
    BY <1>1, <1>4
  <2> QED BY <2>1, <2>2
<1>9. r = [pop EXCEPT !.event_set = s, !.back = b, !.idxplus1_by_fd = x, !.nfds = n]
  BY DEF Written
<1> HIDE DEF s, b, x, r
<1>10. b \in [Dir -> Seq(T)]
  <2>1. b = [d \in Dir |-> b[d]]
    BY DEF b
  <2> QED BY <2>1, <1>6
<1>11. /\ r \in PollRecord /\ r.event_set = s /\ r.back = b /\ r.idxplus1_by_fd = x /\ r.nfds = n
       /\ r.event_count = c
  BY <1>1, <1>5, <1>7, <1>9, <1>10 DEF PollRecord
<1>12. /\ c <= Len(s)
       /\ \A d \in Dir : c <= Len(b[d])
  BY <1>1, <1>5, <1>6
<1> HIDE DEF S, T, l, m, c
<1>13. ASSUME NEW k \in 1..n PROVE Held(r, k, listed)
  <2>1. CASE k = i
    <3>1. s[k] = pfd /\ \A d \in Dir : b[d][k] = p[d]
      BY <2>1, <1>8
    <3>2. x[pfd.fd + 1] = k /\ pfd.fd + 1 \in 1..Len(x) /\ pfd.fd \in Nat
      BY <2>1, <1>2, <1>7
    <3> QED BY <3>1, <3>2, <1>11 DEF Held
  <2>2. CASE k # i
    <3>1. k \in 1..m
      BY <2>2, <1>1, <1>3
    <3>2. Held(pop, k, added)
      BY <3>1, HeldLemma DEF m
    <3> DEFINE q == pop.event_set[k]
    <3>3. q \in Pollfd /\ q.events # {} /\ q.fd \in Nat /\ q.fd + 1 \in 1..l
          /\ pop.idxplus1_by_fd[q.fd + 1] = k
          /\ \A d \in Dir : IF d \in q.events
                        THEN /\ pop.back[d][k] \in added /\ ev_fd[pop.back[d][k]] = q.fd
                             /\ d \in ev_events[pop.back[d][k]]
                        ELSE pop.back[d][k] = Null
      BY <3>2 DEF Held, l
    <3>4. s[k] = q
      BY <3>1, <2>2, <1>8
    <3>5. ASSUME NEW d \in Dir PROVE b[d][k] = pop.back[d][k]
      <4>1. k \in DOMAIN pop.back[d]
        BY <3>1, <1>1
      <4> QED BY <4>1, <2>2, <1>8
    <3> HIDE DEF q
    <3>6. q.fd # fd
      <4>1. pop.idxplus1_by_fd[fd + 1] = i \/ pop.idxplus1_by_fd[fd + 1] = 0
        OBVIOUS
      <4>2. SUFFICES ASSUME q.fd = fd PROVE FALSE
        OBVIOUS
      <4>3. pop.idxplus1_by_fd[fd + 1] = k
        BY <3>3, <4>2
      <4> QED BY <2>2, <3>1, <4>1, <4>3, <1>1
    <3>7. x[q.fd + 1] = k
      <4>1. q.fd + 1 # fd + 1
        BY <3>3, <3>6, <1>2
      <4> QED BY <3>3, <4>1, <1>7
    <3> QED BY <3>3, <3>4, <3>5, <3>6, <3>7, <1>7, <1>11, SMTT(30) DEF Held
  <2> QED BY <2>1, <2>2
<1>14. ASSUME NEW k \in 1..l PROVE IsLed(r, k)
  <2>1. CASE k = fd + 1
    <3>1. x[k] = i /\ s[i].fd = k - 1
      BY <2>1, <1>2, <1>7, <1>8
    <3> QED BY <3>1, <1>3, <1>11 DEF IsLed
  <2>2. CASE k # fd + 1
    <3>1. x[k] = pop.idxplus1_by_fd[k]
      BY <2>2, <1>7
    <3>2. IsLed(pop, k)
      BY LedLemma DEF l
    <3> DEFINE j == pop.idxplus1_by_fd[k]
    <3>3. j \in Nat /\ (j # 0 => j \in 1..m /\ pop.event_set[j].fd = k - 1)
      BY <3>2 DEF IsLed, m
    <3> HIDE DEF j
    <3>4. CASE j = 0
      BY <3>1, <3>4, <1>11 DEF IsLed, j
    <3>5. CASE j # 0
      <4>1. j # i
        <5>1. SUFFICES ASSUME j = i PROVE FALSE
          OBVIOUS
        <5>2. i \in 1..m /\ pop.idxplus1_by_fd[fd + 1] = i /\ pop.event_set[i].fd = k - 1
          BY <3>3, <3>5, <5>1, <1>1 DEF m
        <5>3. Held(pop, i, added)
          BY <5>2, HeldLemma DEF m
        <5>4. IsLed(pop, fd + 1)
          BY <1>2, LedLemma DEF l
        <5>5. pop.event_set[i].fd = (fd + 1) - 1
          BY <5>2, <5>4 DEF IsLed
        <5>6. k - 1 = (fd + 1) - 1 /\ k \in Nat
          BY <5>2, <5>5, <1>1
        <5> QED BY <5>6, <2>2, <1>2
      <4>2. s[j] = pop.event_set[j]
        BY <3>3, <3>5, <4>1, <1>8
      <4>3. j \in 1..n
        BY <3>3, <3>5, <1>1, <1>3
      <4> QED BY <3>1, <3>3, <3>5, <4>2, <4>3, <1>11 DEF IsLed, j
    <3> QED BY <3>4, <3>5
  <2> QED BY <2>1, <2>2
<1>15. PollKnown(r)
  <2> SUFFICES ASSUME NEW d \in Dir, NEW k \in DOMAIN r.back[d], r.back[d][k] \in Event
               PROVE  ev_fd[r.back[d][k]] < l
    BY <1>7, <1>11 DEF PollKnown, PollFinds
  <2>1. k \in DOMAIN pop.back[d] /\ r.back[d][k] = b[d][k]
    BY <1>6, <1>11
  <2>2. CASE k = i
    <3>1. b[d][k] = p[d] /\ p[d] # Null
      BY <2>1, <2>2, <1>8, EventLemma
    <3>2. ev_fd[p[d]] = fd
      BY <3>1
    <3> QED BY <2>1, <3>1, <3>2 DEF l
  <2>3. CASE k # i
    <3>1. b[d][k] = pop.back[d][k]
      BY <2>1, <2>3, <1>8
    <3> QED BY <2>1, <3>1 DEF PollGood, PollKnown, PollFinds, l
  <2> QED BY <2>2, <2>3
<1>16. r.nfds <= r.event_count /\ r.event_count <= Len(r.event_set)
       /\ \A d \in Dir : r.event_count <= Len(r.back[d])
  BY <1>3, <1>11, <1>12
<1>17. PollGood(r, listed)
  BY <1>7, <1>11, <1>13, <1>14, <1>15, <1>16, PollGoodLemma
<1> QED BY <1>17 DEF r

(* A place that is written gives its descriptor new pointers.              *)
LEMMA WrittenSlots ==
  ASSUME NEW pop, NEW added \in SUBSET Event, PollGood(pop, added),
         NEW fd \in Fd, fd < Len(pop.idxplus1_by_fd), NEW i \in Nat, NEW n \in Nat,
         \/ i \in 1..pop.nfds /\ pop.idxplus1_by_fd[fd + 1] = i
         \/ i = pop.nfds + 1 /\ i <= pop.event_count,
         NEW pfd, NEW p, NEW gd \in Fd, NEW d \in Dir
  PROVE  PollSlot(Written(pop, i, n, fd, pfd, p), gd, d) =
           IF gd = fd THEN p[d] ELSE PollSlot(pop, gd, d)
<1> DEFINE s == [pop.event_set EXCEPT ![i] = pfd]
           b == [dd \in Dir |-> [pop.back[dd] EXCEPT ![i] = p[dd]]]
           z == pop.idxplus1_by_fd
           x == [z EXCEPT ![fd + 1] = i]
           l == Len(z)
           u == pop.back[d]
           r == Written(pop, i, n, fd, pfd, p)
<1>1. /\ pop \in PollRecord /\ pop.nfds \in Nat /\ pop.event_count \in Nat
      /\ pop.nfds <= pop.event_count
      /\ z \in Seq(Nat) /\ l \in Nat
      /\ u \in Seq(Event \cup {Null, Junk}) /\ pop.event_count <= Len(u) /\ Len(u) \in Nat
  BY PollBounds
<1>2. fd \in Nat /\ gd \in Nat /\ fd + 1 \in 1..l
  BY <1>1, EventLemma
<1>3. i \in 1..Len(u) /\ i # 0
  BY <1>1
<1>4. r = [pop EXCEPT !.event_set = s, !.back = b, !.idxplus1_by_fd = x, !.nfds = n]
  BY DEF Written
<1>5. x \in Seq(Nat) /\ Len(x) = l /\ \A k \in 1..l : x[k] = IF k = fd + 1 THEN i ELSE z[k]
  BY <1>1, <1>2, ExceptSeq
<1>6. b[d][i] = p[d] /\ \A k \in 1..Len(u) : k # i => b[d][k] = u[k]
  BY <1>1, <1>3
<1> SUFFICES PollSlot(r, gd, d) = IF gd = fd THEN p[d] ELSE PollSlot(pop, gd, d)
  OBVIOUS
<1> HIDE DEF s, b, x, r
<1>7. r.idxplus1_by_fd = x /\ r.back = b
  BY <1>1, <1>4 DEF PollRecord
<1>8. CASE gd = fd
  BY <1>2, <1>3, <1>5, <1>6, <1>7, <1>8 DEF PollSlot
<1>9. CASE gd # fd
  <2>1. CASE gd < l
    <3>1. gd + 1 \in 1..l /\ gd + 1 # fd + 1 /\ fd + 1 \in 1..l
      BY <1>1, <1>2, <1>9, <2>1
    <3>2. x[gd + 1] = z[gd + 1]
      BY <3>1, <1>5
    <3>3. z[gd + 1] \in Nat
          /\ (z[gd + 1] # 0 => z[gd + 1] \in 1..pop.nfds /\ pop.event_set[z[gd + 1]].fd = gd)
      <4>1. IsLed(pop, gd + 1)
        BY <3>1, LedLemma
      <4> QED BY <4>1, <1>2 DEF IsLed
    <3>4. i \in 1..pop.nfds /\ z[fd + 1] = i => pop.event_set[i].fd = fd
      <4>1. IsLed(pop, fd + 1)
        BY <3>1, LedLemma
      <4> QED BY <4>1, <1>2, <1>3 DEF IsLed
    <3>5. z[gd + 1] # 0 => z[gd + 1] # i /\ z[gd + 1] \in 1..Len(u)
      <4> HIDE DEF u
      <4> DEFINE k == z[gd + 1]
                 m == pop.nfds
                 c == pop.event_count
                 lu == Len(u)
      <4>1. k # 0 => k \in 1..m /\ m \in Nat /\ m <= c /\ c \in Nat /\ c <= lu /\ lu \in Nat
        BY <1>1, <3>3
      <4>2. k # 0 => k # i
        BY <1>1, <1>9, <3>3, <3>4
      <4> HIDE DEF k, m, c, lu
      <4>3. k # 0 => k \in 1..lu
        BY <4>1
      <4> QED BY <4>2, <4>3 DEF k, lu
    <3> QED BY <1>5, <1>6, <1>7, <1>9, <2>1, <3>2, <3>5 DEF PollSlot
  <2>2. CASE ~(gd < l)
    BY <1>5, <1>7, <1>9, <2>2 DEF PollSlot
  <2> QED BY <2>1, <2>2
<1> QED BY <1>8, <1>9

(* poll_add leaves a good structure good, with the event it adds.          *)
LEMMA PollAddedGood ==
  ASSUME NEW before, NEW added \in SUBSET Event, PollGood(before, added), NEW e \in Event
  PROVE  /\ PollGood(PollAdded(before, e), added \cup {e})
         /\ PollPuts(PollAdded(before, e), before, e, e)
<1> DEFINE fd == ev_fd[e]
           pop == WithFd(Roomy(before), fd)
           known == pop.idxplus1_by_fd[fd + 1]
           i == IF known # 0 THEN known ELSE pop.nfds + 1
           n == IF known # 0 THEN pop.nfds ELSE i
           asked == IF known # 0 THEN pop.event_set[i].events ELSE {}
           kept(d) == IF known # 0 THEN pop.back[d][i] ELSE Null
           pfd == [fd |-> fd, events |-> asked \cup ev_events[e], revents |-> {}]
           p == [d \in Dir |-> IF d \in ev_events[e] THEN e ELSE kept(d)]
           more == added \cup {e}
<1>1. fd \in Fd /\ fd \in Nat /\ ev_events[e] \subseteq Dir /\ ev_events[e] # {}
  BY EventLemma
<1>2. /\ PollGood(pop, added) /\ fd < Len(pop.idxplus1_by_fd)
      /\ pop.nfds + 1 <= pop.event_count
      /\ PollKeeps(pop, before)
  <2> DEFINE q == Roomy(before)
  <2>1. PollGood(q, added) /\ q.nfds + 1 <= q.event_count /\ PollKeeps(q, before)
    BY RoomyGood
  <2> HIDE DEF q
  <2>2. /\ PollGood(WithFd(q, fd), added)
        /\ WithFd(q, fd).nfds = q.nfds /\ WithFd(q, fd).event_count = q.event_count
        /\ fd < Len(WithFd(q, fd).idxplus1_by_fd)
        /\ PollKeeps(WithFd(q, fd), q)
    BY <1>1, <2>1, WithFdGood
  <2>3. PollKeeps(WithFd(q, fd), before)
    BY <2>1, <2>2 DEF PollKeeps
  <2> QED BY <2>1, <2>2, <2>3 DEF q
<1>3. PollAdded(before, e) = [pop EXCEPT
        !.nfds = IF known # 0 THEN @ ELSE i,
        !.event_set[i] = pfd,
        !.back["in"][i]  = IF "in" \in ev_events[e] THEN e ELSE kept("in"),
        !.back["out"][i] = IF "out" \in ev_events[e] THEN e ELSE kept("out"),
        !.idxplus1_by_fd[fd + 1] = i]
  BY DEF PollAdded
<1> HIDE DEF pop
<1>4. /\ pop \in PollRecord /\ pop.nfds \in Nat /\ pop.event_count \in Nat
      /\ pop.idxplus1_by_fd \in Seq(Nat) /\ Len(pop.idxplus1_by_fd) \in Nat
  BY <1>2, PollBounds
<1>5. fd + 1 \in 1..Len(pop.idxplus1_by_fd)
  BY <1>1, <1>2, <1>4
<1>6. IsLed(pop, fd + 1)
  BY <1>2, <1>5, LedLemma
<1>7. known \in Nat /\ (known # 0 => known \in 1..pop.nfds /\ pop.event_set[known].fd = fd)
  BY <1>1, <1>6 DEF IsLed
<1>8. known # 0 => Held(pop, known, added)
  BY <1>2, <1>7, HeldLemma
<1>9. PollAdded(before, e) = Written(pop, i, n, fd, pfd, p)
  <2> DEFINE b == [d \in Dir |-> [pop.back[d] EXCEPT ![i] = p[d]]]
  <2>1. pop.back \in [Dir -> Seq(Event \cup {Null, Junk})]
    BY <1>4 DEF PollRecord
  <2>2. p["in"] = (IF "in" \in ev_events[e] THEN e ELSE kept("in"))
        /\ p["out"] = (IF "out" \in ev_events[e] THEN e ELSE kept("out"))
    BY DEF Dir
  <2> HIDE DEF p, pfd, i, known, fd
  <2>3. [pop.back EXCEPT !["in"] = [@ EXCEPT ![i] = p["in"]], !["out"] = [@ EXCEPT ![i] = p["out"]]] = b
    BY <2>1 DEF Dir
  <2>4. PollAdded(before, e) = [pop EXCEPT !.nfds = n, !.event_set[i] = pfd,
           !.back["in"][i] = p["in"], !.back["out"][i] = p["out"], !.idxplus1_by_fd[fd + 1] = i]
    <3>1. n = IF known # 0 THEN pop.nfds ELSE i
      OBVIOUS
    <3> HIDE DEF n, kept
    <3> QED BY <1>3, <1>4, <2>2, <3>1 DEF PollRecord
  <2> DEFINE r == PollAdded(before, e)
             s == [pop.event_set EXCEPT ![i] = pfd]
             x == [pop.idxplus1_by_fd EXCEPT ![fd + 1] = i]
  <2>5. r = [pop EXCEPT !.nfds = n, !.event_set = s, !.back = b, !.idxplus1_by_fd = x]
    <3> HIDE DEF n, b
    <3>1. r.nfds = n /\ r.event_set = s /\ r.idxplus1_by_fd = x /\ r.event_count = pop.event_count
      BY <1>4, <2>4 DEF PollRecord
    <3>2. r.back = b
      BY <1>4, <2>3, <2>4 DEF PollRecord
    <3>3. r \in [event_set : {r.event_set}, back : {r.back}, idxplus1_by_fd : {r.idxplus1_by_fd},
                 nfds : {r.nfds}, event_count : {r.event_count}]
      BY <1>4, <2>4 DEF PollRecord
    <3> HIDE DEF r, s, x
    <3> QED BY <1>4, <3>1, <3>2, <3>3 DEF PollRecord
  <2> QED BY <2>5 DEF Written
<1>10. asked \subseteq Dir
  <2>1. known # 0 => pop.event_set[known] \in Pollfd
    BY <1>8 DEF Held
  <2> QED BY <2>1 DEF Pollfd
<1>11. pfd \in Pollfd /\ pfd.fd = fd /\ pfd.events # {} /\ pfd.events = asked \cup ev_events[e]
  <2> HIDE DEF asked, fd
  <2> QED BY <1>1, <1>10 DEF Pollfd, What
<1>12. \A d \in Dir : IF d \in asked
                      THEN kept(d) \in added /\ ev_fd[kept(d)] = fd /\ d \in ev_events[kept(d)]
                      ELSE kept(d) = Null
  BY <1>7, <1>8 DEF Held
<1>13. \A d \in Dir : IF d \in pfd.events
                      THEN p[d] \in more /\ ev_fd[p[d]] = fd /\ d \in ev_events[p[d]]
                      ELSE p[d] = Null
  <2> SUFFICES ASSUME NEW d \in Dir
               PROVE IF d \in pfd.events
                      THEN p[d] \in more /\ ev_fd[p[d]] = fd /\ d \in ev_events[p[d]]
                      ELSE p[d] = Null
    OBVIOUS
  <2>1. CASE d \in ev_events[e]
    BY <2>1, <1>11
  <2>2. CASE d \notin ev_events[e]
    <3>1. p[d] = kept(d)
      BY <2>2
    <3>2. d \in pfd.events <=> d \in asked
      BY <2>2, <1>11
    <3> HIDE DEF p, kept, asked, pfd
    <3> QED BY <3>1, <3>2, <1>12
  <2> QED BY <2>1, <2>2
<1>14. p \in [Dir -> Event \cup {Null}]
  <2>1. ASSUME NEW d \in Dir PROVE p[d] \in Event \cup {Null}
    <3>1. e \in Event /\ more \subseteq Event
      OBVIOUS
    <3> HIDE DEF p, more, pfd
    <3> QED BY <3>1, <1>13
  <2>2. p = [d \in Dir |-> p[d]]
    OBVIOUS
  <2> HIDE DEF p
  <2> QED BY <2>1, <2>2
<1>15. \/ i \in 1..pop.nfds /\ pop.idxplus1_by_fd[fd + 1] = i /\ n = pop.nfds
       \/ /\ pop.idxplus1_by_fd[fd + 1] = 0
          /\ i = pop.nfds + 1 /\ n = pop.nfds + 1 /\ n <= pop.event_count
  BY <1>2, <1>7
<1>16. i \in Nat /\ n \in Nat
  BY <1>4, <1>7
<1>17. \A f \in added : ev_fd[f] # fd => f \in more
  OBVIOUS
<1>19. \A d \in Dir : p[d] = IF d \in ev_events[e] THEN e ELSE PollSlot(pop, fd, d)
  <2> SUFFICES ASSUME NEW d \in Dir
               PROVE  p[d] = IF d \in ev_events[e] THEN e ELSE PollSlot(pop, fd, d)
    OBVIOUS
  <2>1. kept(d) = PollSlot(pop, fd, d)
    <3> HIDE DEF pop, fd
    <3> QED BY <1>2 DEF PollSlot
  <2> HIDE DEF kept, pop, fd
  <2> QED BY <2>1
<1> HIDE DEF p, pfd, i, n, fd, known, more
<1>18. PollGood(Written(pop, i, n, fd, pfd, p), more)
  BY <1>1, <1>2, <1>11, <1>13, <1>14, <1>15, <1>16, <1>17, WrittenGood, ZenonT(30)
<1>20. PollPuts(PollAdded(before, e), before, e, e)
  <2> SUFFICES ASSUME NEW gd \in Fd, NEW d \in Dir
               PROVE  PollSlot(PollAdded(before, e), gd, d) =
                        IF gd = fd /\ d \in ev_events[e] THEN e ELSE PollSlot(before, gd, d)
    BY DEF PollPuts, fd
  <2>1. PollSlot(PollAdded(before, e), gd, d) = IF gd = fd THEN p[d] ELSE PollSlot(pop, gd, d)
    BY <1>1, <1>2, <1>9, <1>15, <1>16, WrittenSlots
  <2>2. PollSlot(pop, gd, d) = PollSlot(before, gd, d)
    BY <1>2 DEF PollKeeps
  <2>3. p[d] = IF d \in ev_events[e] THEN e ELSE PollSlot(pop, fd, d)
    BY <1>19
  <2> QED BY <2>1, <2>2, <2>3
<1> QED BY <1>9, <1>18, <1>20 DEF more

(* What is waited for, and the memory behind the places, may change.       *)
LEMMA PollRedoneGood ==
  ASSUME NEW pop, NEW added \in SUBSET Event, PollGood(pop, added), NEW r \in PollRecord,
         r.nfds = pop.nfds, r.event_count = pop.event_count,
         r.idxplus1_by_fd = pop.idxplus1_by_fd,
         Len(r.event_set) = Len(pop.event_set),
         \A d \in Dir : Len(r.back[d]) = Len(pop.back[d]),
         \A i \in 1..pop.nfds : /\ r.event_set[i] \in Pollfd
                                /\ r.event_set[i].fd = pop.event_set[i].fd
                                /\ r.event_set[i].events = pop.event_set[i].events
                                /\ \A d \in Dir : r.back[d][i] = pop.back[d][i],
         \A d \in Dir : \A k \in DOMAIN r.back[d] :
            r.back[d][k] \in Event => k \in DOMAIN pop.back[d] /\ r.back[d][k] = pop.back[d][k]
  PROVE  PollGood(r, added) /\ PollKeeps(r, pop)
<1>1. ASSUME NEW i \in 1..r.nfds PROVE Held(r, i, added)
  <2>1. Held(pop, i, added)
    BY HeldLemma
  <2>2. i \in 1..pop.nfds
    OBVIOUS
  <2> QED BY <2>1, <2>2 DEF Held
<1>2. ASSUME NEW n \in 1..Len(r.idxplus1_by_fd) PROVE IsLed(r, n)
  <2>1. IsLed(pop, n)
    BY LedLemma
  <2> QED BY <2>1 DEF IsLed
<1>3. PollKnown(r)
  BY DEF PollKnown, PollFinds, PollGood
<1>4. r.nfds <= r.event_count /\ r.event_count <= Len(r.event_set)
      /\ \A d \in Dir : r.event_count <= Len(r.back[d])
  BY PollBounds
<1>5. PollKeeps(r, pop)
  <2> SUFFICES ASSUME NEW fd \in Fd, NEW d \in Dir
               PROVE  PollSlot(r, fd, d) = PollSlot(pop, fd, d)
    BY DEF PollKeeps
  <2>1. fd \in Nat /\ Len(pop.idxplus1_by_fd) \in Nat
    BY EventLemma, PollBounds
  <2>2. CASE fd < Len(pop.idxplus1_by_fd)
    <3>1. fd + 1 \in 1..Len(pop.idxplus1_by_fd)
      BY <2>1, <2>2
    <3>2. IsLed(pop, fd + 1)
      BY <3>1, LedLemma
    <3> QED BY <3>2, SMTT(30) DEF IsLed, PollSlot
  <2>3. CASE ~(fd < Len(pop.idxplus1_by_fd))
    BY <2>3 DEF PollSlot
  <2> QED BY <2>2, <2>3
<1> QED BY <1>1, <1>2, <1>3, <1>4, <1>5, PollGoodLemma

(* The answers of poll leave the structure good.                           *)
LEMMA PollWaitedGood ==
  ASSUME NEW pop, NEW added \in SUBSET Event, PollGood(pop, added), NEW ready \in [Fd -> What]
  PROVE  /\ PollGood(PollWaited(pop, ready), added)
         /\ PollWaited(pop, ready).nfds = pop.nfds
         /\ PollWaited(pop, ready).event_count = pop.event_count
         /\ PollKeeps(PollWaited(pop, ready), pop)
         /\ PollWaited(pop, ready).back = pop.back
         /\ PollWaited(pop, ready).idxplus1_by_fd = pop.idxplus1_by_fd
         /\ \A k \in 1..pop.nfds :
              LET pfd == PollWaited(pop, ready).event_set[k]
              IN  /\ pfd.fd = pop.event_set[k].fd /\ pfd.events = pop.event_set[k].events
                  /\ pfd.revents = ready[pfd.fd] \cap (pfd.events \cup {"hup"})
<1> DEFINE S == Pollfd \cup {Junk}
           f(k) == LET pfd == pop.event_set[k]
                   IN  IF k > pop.nfds THEN pfd
                       ELSE [pfd EXCEPT !.revents = ready[pfd.fd] \cap (pfd.events \cup {"hup"})]
           l == Len(pop.event_set)
           s == [k \in 1..l |-> f(k)]
           r == PollWaited(pop, ready)
<1>1. /\ pop \in PollRecord /\ pop.nfds \in Nat /\ pop.event_count \in Nat /\ l \in Nat
      /\ pop.event_set \in Seq(S) /\ DOMAIN pop.event_set = 1..l
      /\ pop.nfds <= pop.event_count /\ pop.event_count <= l
  BY PollBounds
<1>2. r = [pop EXCEPT !.event_set = s]
  BY <1>1 DEF PollWaited, PollRecord
<1>3. ASSUME NEW k \in 1..pop.nfds
      PROVE  /\ f(k) \in Pollfd /\ f(k).fd = pop.event_set[k].fd /\ f(k).events = pop.event_set[k].events
             /\ f(k).revents = ready[f(k).fd] \cap (f(k).events \cup {"hup"})
  <2> DEFINE pfd == pop.event_set[k]
  <2>1. Held(pop, k, added)
    BY HeldLemma
  <2>2. pfd \in Pollfd
    BY <2>1 DEF Held
  <2>3. f(k) = [pfd EXCEPT !.revents = ready[pfd.fd] \cap (pfd.events \cup {"hup"})]
    BY <1>1
  <2> HIDE DEF pfd, f
  <2>4. pfd.fd \in Fd /\ pfd.events \subseteq Dir
    BY <2>2 DEF Pollfd
  <2>5. ready[pfd.fd] \cap (pfd.events \cup {"hup"}) \in What
    BY <2>4 DEF What
  <2> QED BY <2>2, <2>3, <2>5 DEF Pollfd, pfd
<1>4. ASSUME NEW k \in 1..l PROVE f(k) \in S
  <2>1. CASE k \in 1..pop.nfds
    BY <2>1, <1>3
  <2>2. CASE k \notin 1..pop.nfds
    <3>1. k > pop.nfds
      BY <2>2, <1>1
    <3>2. f(k) = pop.event_set[k]
      BY <3>1
    <3> HIDE DEF f
    <3> QED BY <3>2, <1>1
  <2> QED BY <2>1, <2>2
<1> HIDE DEF f, S
<1>5. s \in [1..l -> S] /\ \A k \in 1..l : s[k] = f(k)
  BY <1>4
<1>6. s \in Seq(S) /\ DOMAIN s = 1..l
  BY <1>1, <1>5
<1> HIDE DEF s, r
<1>7. Len(s) = l
  BY <1>1, <1>6
<1>8. /\ r \in PollRecord /\ r.nfds = pop.nfds /\ r.event_count = pop.event_count
      /\ r.idxplus1_by_fd = pop.idxplus1_by_fd /\ r.back = pop.back /\ r.event_set = s
  BY <1>1, <1>2, <1>6 DEF PollRecord, S
<1>9. ASSUME NEW k \in 1..pop.nfds PROVE s[k] = f(k)
  <2>1. k \in 1..l
    BY <1>1
  <2> QED BY <2>1, <1>5
<1>10. PollGood(r, added) /\ PollKeeps(r, pop)
  BY <1>3, <1>7, <1>8, <1>9, PollRedoneGood
<1> QED BY <1>3, <1>8, <1>9, <1>10 DEF r

(* The end of a dispatch, whose answers nobody reads again, leaves the     *)
(* structure good.                                                         *)
LEMMA PollForgotGood ==
  ASSUME NEW pop, NEW added \in SUBSET Event, PollGood(pop, added)
  PROVE  PollGood(PollForgot(pop), added) /\ PollKeeps(PollForgot(pop), pop)
<1> DEFINE S == Pollfd \cup {Junk}
           T == Event \cup {Null, Junk}
           f(k) == IF k <= pop.nfds THEN [pop.event_set[k] EXCEPT !.revents = {}] ELSE Junk
           g(d, k) == IF k <= pop.nfds THEN pop.back[d][k] ELSE Junk
           l == Len(pop.event_set)
           s == [k \in 1..l |-> f(k)]
           b == [d \in Dir |-> [k \in DOMAIN pop.back[d] |-> g(d, k)]]
           r == PollForgot(pop)
<1>1. /\ pop \in PollRecord /\ pop.nfds \in Nat /\ pop.event_count \in Nat /\ l \in Nat
      /\ pop.event_set \in Seq(S) /\ DOMAIN pop.event_set = 1..l
      /\ pop.nfds <= pop.event_count /\ pop.event_count <= l
      /\ \A d \in Dir : pop.back[d] \in Seq(T) /\ pop.event_count <= Len(pop.back[d]) /\ Len(pop.back[d]) \in Nat
  BY PollBounds
<1>2. r = [pop EXCEPT !.event_set = s, !.back = b]
  BY <1>1 DEF PollForgot, PollRecord
<1>3. ASSUME NEW k \in 1..pop.nfds
      PROVE  f(k) \in Pollfd /\ f(k).fd = pop.event_set[k].fd /\ f(k).events = pop.event_set[k].events
  <2>1. Held(pop, k, added)
    BY HeldLemma
  <2>2. pop.event_set[k] \in Pollfd
    BY <2>1 DEF Held
  <2>3. f(k) = [pop.event_set[k] EXCEPT !.revents = {}]
    BY <1>1
  <2> HIDE DEF f
  <2> QED BY <2>2, <2>3 DEF Pollfd, What
<1>4. ASSUME NEW k \in 1..l PROVE f(k) \in S
  <2>1. CASE k \in 1..pop.nfds
    BY <2>1, <1>3
  <2>2. CASE k \notin 1..pop.nfds
    <3>1. ~ (k <= pop.nfds)
      BY <2>2, <1>1
    <3> QED BY <3>1
  <2> QED BY <2>1, <2>2
<1> HIDE DEF f, S
<1>5. s \in [1..l -> S] /\ \A k \in 1..l : s[k] = f(k)
  BY <1>4
<1>6. s \in Seq(S) /\ DOMAIN s = 1..l
  BY <1>1, <1>5
<1> HIDE DEF s, r
<1>7. Len(s) = l
  BY <1>1, <1>6
<1>8. ASSUME NEW d \in Dir
      PROVE  /\ b[d] \in Seq(T) /\ Len(b[d]) = Len(pop.back[d]) /\ DOMAIN b[d] = DOMAIN pop.back[d]
             /\ \A k \in DOMAIN b[d] : b[d][k] = IF k <= pop.nfds THEN pop.back[d][k] ELSE Junk
  <2> DEFINE u == pop.back[d]
             m == Len(u)
             v == [k \in DOMAIN u |-> IF k <= pop.nfds THEN u[k] ELSE Junk]
  <2>1. b[d] = v /\ u \in Seq(T) /\ m \in Nat /\ DOMAIN u = 1..m /\ Junk \in T
    BY <1>1
  <2> HIDE DEF u, T, b, m
  <2>2. v \in [1..m -> T]
    BY <2>1
  <2>3. v \in Seq(T) /\ DOMAIN v = 1..m
    BY <2>1, <2>2
  <2>4. \A k \in DOMAIN v : v[k] = IF k <= pop.nfds THEN u[k] ELSE Junk
    OBVIOUS
  <2> HIDE DEF v
  <2>5. Len(v) = m
    BY <2>1, <2>3
  <2> QED BY <2>1, <2>3, <2>4, <2>5 DEF u, m
<1>9. b \in [Dir -> Seq(T)]
  <2>1. b = [d \in Dir |-> b[d]]
    OBVIOUS
  <2> HIDE DEF b
  <2> QED BY <2>1, <1>8
<1> HIDE DEF b
<1>10. /\ r \in PollRecord /\ r.nfds = pop.nfds /\ r.event_count = pop.event_count
       /\ r.idxplus1_by_fd = pop.idxplus1_by_fd /\ r.back = b /\ r.event_set = s
  BY <1>1, <1>2, <1>6, <1>9 DEF PollRecord, S
<1>11. ASSUME NEW k \in 1..pop.nfds
       PROVE  s[k] = f(k) /\ \A d \in Dir : b[d][k] = pop.back[d][k]
  <2>1. k \in 1..l /\ k <= pop.nfds
    BY <1>1
  <2>2. \A d \in Dir : k \in DOMAIN pop.back[d]
    BY <1>1
  <2> QED BY <2>1, <2>2, <1>5, <1>8
<1>12. ASSUME NEW d \in Dir, NEW k \in DOMAIN b[d], b[d][k] \in Event
       PROVE  k \in DOMAIN pop.back[d] /\ b[d][k] = pop.back[d][k]
  <2>1. b[d][k] # Junk
    BY <1>12, EventAssumption
  <2> QED BY <2>1, <1>8
<1>13. PollGood(r, added) /\ PollKeeps(r, pop)
  <2>1. \A d \in Dir : Len(r.back[d]) = Len(pop.back[d])
    BY <1>8, <1>10
  <2> QED BY <1>3, <1>7, <1>10, <1>11, <1>12, <2>1, PollRedoneGood
<1> QED BY <1>13 DEF r

(* What poll_init makes is good.                                           *)
LEMMA PollInitGood == PollGood(PollInit, {})
<1>1. PollInit \in PollRecord
  BY DEF PollInit, PollRecord
<1>2. /\ PollInit.nfds = 0 /\ PollInit.event_count = 0 /\ Len(PollInit.event_set) = 0
      /\ \A d \in Dir : Len(PollInit.back[d]) = 0 /\ DOMAIN PollInit.back[d] = {}
      /\ Len(PollInit.idxplus1_by_fd) = 0
  BY DEF PollInit
<1>3. PollKnown(PollInit)
  BY <1>2 DEF PollKnown
<1> QED BY <1>1, <1>2, <1>3, PollGoodLemma

(* The last place is moved to place i, which nobody wants any more, and the *)
(* descriptor of i has none.                                                *)
IsMoved(r, pop, i) ==
  LET last == pop.nfds
      from(j) == IF j = i THEN last ELSE j
  IN  /\ r.nfds = last - 1 /\ r.event_count = pop.event_count
      /\ Len(r.event_set) = Len(pop.event_set)
      /\ \A d \in Dir : Len(r.back[d]) = Len(pop.back[d])
      /\ Len(r.idxplus1_by_fd) = Len(pop.idxplus1_by_fd)
      /\ \A j \in 1..(last - 1) :
           /\ r.event_set[j] = pop.event_set[from(j)]
           /\ \A d \in Dir : r.back[d][j] = pop.back[d][from(j)]
      /\ \A d \in Dir : \A k \in DOMAIN r.back[d] :
           r.back[d][k] \in Event => \E j \in DOMAIN pop.back[d] : r.back[d][k] = pop.back[d][j]
      /\ \A n \in 1..Len(r.idxplus1_by_fd) :
           r.idxplus1_by_fd[n] =
             IF i # last /\ n = pop.event_set[last].fd + 1 THEN i
             ELSE IF n = pop.event_set[i].fd + 1 THEN 0 ELSE pop.idxplus1_by_fd[n]

(* Nothing behind place j has changed, and no index leads there that did   *)
(* not before.                                                             *)
PollAbove(r, pop, j) ==
  /\ \A k \in DOMAIN pop.event_set : k > j => r.event_set[k] = pop.event_set[k]
  /\ \A d \in Dir : \A k \in DOMAIN pop.back[d] : k > j => r.back[d][k] = pop.back[d][k]
  /\ \A n \in 1..Len(pop.idxplus1_by_fd) :
       r.idxplus1_by_fd[n] = pop.idxplus1_by_fd[n] \/ r.idxplus1_by_fd[n] <= j

(* Moving the last place keeps all pointers but those of the descriptor of *)
(* place i.                                                                *)
LEMMA MovedSlots ==
  ASSUME NEW pop, NEW added \in SUBSET Event, PollGood(pop, added), NEW i \in 1..pop.nfds,
         NEW r, IsMoved(r, pop, i), NEW fd \in Fd, NEW d \in Dir
  PROVE  PollSlot(r, fd, d) = IF fd = pop.event_set[i].fd THEN Null ELSE PollSlot(pop, fd, d)
<1> DEFINE last == pop.nfds
           x == pop.idxplus1_by_fd
           y == r.idxplus1_by_fd
           l == Len(x)
           gd == pop.event_set[last].fd
           hd == pop.event_set[i].fd
<1>1. last \in Nat /\ l \in Nat /\ fd \in Nat /\ i \in Nat /\ i # 0
  BY PollBounds, EventLemma
<1>2. last \in 1..last
  BY <1>1
<1>3. Held(pop, i, added) /\ Held(pop, last, added)
  BY <1>2, HeldLemma
<1>4. hd \in Nat /\ hd + 1 \in 1..l /\ x[hd + 1] = i /\ gd \in Nat /\ gd + 1 \in 1..l /\ x[gd + 1] = last
  BY <1>3 DEF Held
<1>5. Len(y) = l /\ \A n \in 1..l : y[n] = IF i # last /\ n = gd + 1 THEN i
                                           ELSE IF n = hd + 1 THEN 0 ELSE x[n]
  BY DEF IsMoved
<1>6. \A j \in 1..(last - 1) : r.back[d][j] = pop.back[d][IF j = i THEN last ELSE j]
  BY DEF IsMoved
<1>7. CASE ~(fd < l)
  BY <1>4, <1>5, <1>7 DEF PollSlot
<1>8. CASE fd < l
  <2>1. fd + 1 \in 1..l
    BY <1>1, <1>8
  <2>2. IsLed(pop, fd + 1)
    BY <2>1, LedLemma
  <2>3. x[fd + 1] \in Nat /\ (x[fd + 1] # 0 => x[fd + 1] \in 1..last /\ pop.event_set[x[fd + 1]].fd = fd)
    BY <1>1, <2>2 DEF IsLed
  <2> HIDE DEF l, x, y, gd, hd, last
  <2>4. CASE fd = hd
    <3>1. ~(i # last /\ fd + 1 = gd + 1)
      BY <1>1, <1>4, <2>4
    <3>2. y[fd + 1] = 0
      BY <1>5, <2>1, <2>4, <3>1
    <3> QED BY <2>4, <3>2 DEF PollSlot, y, hd
  <2>5. CASE fd # hd /\ fd = gd
    <3>1. i # last
      BY <1>4, <2>5 DEF gd, hd
    <3>2. y[fd + 1] = i /\ i \in 1..(last - 1)
      BY <1>1, <1>5, <2>1, <2>5, <3>1 DEF last
    <3>3. r.back[d][i] = pop.back[d][last] /\ last # 0
      BY <1>1, <1>6, <3>2
    <3> QED BY <1>1, <1>4, <1>5, <1>8, <2>5, <3>2, <3>3 DEF PollSlot, x, y, l, hd
  <2>6. CASE fd # hd /\ fd # gd
    <3>1. fd + 1 # hd + 1 /\ fd + 1 # gd + 1
      BY <1>1, <1>4, <2>6
    <3>2. y[fd + 1] = x[fd + 1]
      BY <1>5, <2>1, <3>1
    <3>3. x[fd + 1] # 0 => x[fd + 1] \in 1..(last - 1) /\ x[fd + 1] # i
      <4>1. x[fd + 1] # 0 => x[fd + 1] # last /\ x[fd + 1] # i
        BY <2>3, <2>6 DEF gd, hd
      <4> QED BY <4>1, <1>1, <2>3
    <3>4. x[fd + 1] # 0 => r.back[d][x[fd + 1]] = pop.back[d][x[fd + 1]]
      BY <1>6, <3>3
    <3> QED BY <1>5, <1>8, <2>6, <3>2, <3>4 DEF PollSlot, x, y, l, hd
  <2> QED BY <2>4, <2>5, <2>6
<1> QED BY <1>7, <1>8

(* Moving the last place leaves the structure good, without the events of  *)
(* the descriptor of place i.                                              *)
LEMMA MovedGood ==
  ASSUME NEW pop, NEW added \in SUBSET Event, PollGood(pop, added), NEW i \in 1..pop.nfds,
         NEW r \in PollRecord, IsMoved(r, pop, i), NEW listed,
         \A f \in added : ev_fd[f] # pop.event_set[i].fd => f \in listed
  PROVE  PollGood(r, listed)
<1> DEFINE last == pop.nfds
           fd == pop.event_set[i].fd
           gd == pop.event_set[last].fd
           l == Len(pop.idxplus1_by_fd)
           x == pop.idxplus1_by_fd
           y == r.idxplus1_by_fd
           from(j) == IF j = i THEN last ELSE j
<1>1. /\ last \in Nat /\ l \in Nat /\ pop.event_count \in Nat /\ last <= pop.event_count
      /\ pop.event_count <= Len(pop.event_set) /\ Len(pop.event_set) \in Nat
      /\ \A d \in Dir : pop.event_count <= Len(pop.back[d]) /\ Len(pop.back[d]) \in Nat
  BY PollBounds
<1>2. i \in Nat /\ i >= 1 /\ i <= last /\ last \in 1..last /\ last - 1 \in Nat
  BY <1>1
<1>3. Held(pop, i, added) /\ Held(pop, last, added)
  BY <1>2, HeldLemma
<1>4. fd \in Nat /\ fd + 1 \in 1..l /\ x[fd + 1] = i /\ gd \in Nat /\ gd + 1 \in 1..l /\ x[gd + 1] = last
  BY <1>3 DEF Held
<1>5. /\ r.nfds = last - 1 /\ r.event_count = pop.event_count
      /\ Len(r.event_set) = Len(pop.event_set)
      /\ \A d \in Dir : Len(r.back[d]) = Len(pop.back[d])
      /\ Len(y) = l
      /\ \A j \in 1..(last - 1) :
           /\ r.event_set[j] = pop.event_set[from(j)]
           /\ \A d \in Dir : r.back[d][j] = pop.back[d][from(j)]
      /\ \A n \in 1..l :
           y[n] = IF i # last /\ n = gd + 1 THEN i ELSE IF n = fd + 1 THEN 0 ELSE x[n]
  BY DEF IsMoved
<1>6. /\ r.nfds <= r.event_count /\ r.event_count <= Len(r.event_set)
      /\ \A d \in Dir : r.event_count <= Len(r.back[d])
  BY <1>1, <1>5
<1>7. ASSUME NEW j \in 1..r.nfds PROVE Held(r, j, listed)
  <2> DEFINE k == from(j)
             q == pop.event_set[k]
  <2>1. j \in 1..(last - 1) /\ j \in Nat
    BY <1>2, <1>5
  <2>2. k \in 1..last /\ k # i /\ k \in Nat
    BY <1>2, <2>1
  <2>3. r.event_set[j] = q /\ \A d \in Dir : r.back[d][j] = pop.back[d][k]
    BY <1>5, <2>1
  <2>4. (k = last => (i # last /\ j = i) \/ (i = last /\ FALSE)) /\ (k # last => k = j)
    BY <1>2, <2>1, <2>2
  <2> HIDE DEF k
  <2>5. Held(pop, k, added)
    BY <2>2, HeldLemma
  <2>6. /\ q \in Pollfd /\ q.events # {}
        /\ q.fd \in Nat /\ q.fd + 1 \in 1..l
        /\ x[q.fd + 1] = k
        /\ \A d \in Dir : IF d \in q.events
                        THEN /\ pop.back[d][k] \in added /\ ev_fd[pop.back[d][k]] = q.fd
                             /\ d \in ev_events[pop.back[d][k]]
                        ELSE pop.back[d][k] = Null
    BY <2>5 DEF Held
  <2>7. q.fd # fd
    BY <1>4, <2>2, <2>6
  <2>8. y[q.fd + 1] = j
    <3>1. q.fd + 1 # fd + 1
      BY <1>4, <2>6, <2>7
    <3>2. CASE k = last
      <4>1. q.fd = gd
        BY <3>2
      <4> QED BY <1>5, <2>4, <2>6, <3>2, <4>1
    <3>3. CASE k # last
      <4>1. q.fd + 1 # gd + 1
        BY <1>4, <2>6, <3>3
      <4> QED BY <1>5, <2>4, <2>6, <3>1, <3>3, <4>1
    <3> QED BY <3>2, <3>3
  <2> HIDE DEF q, fd, l
  <2> QED BY <1>5, <2>3, <2>6, <2>7, <2>8, SMTT(30) DEF Held, fd
<1>8. ASSUME NEW n \in 1..Len(y) PROVE IsLed(r, n)
  <2>0. n \in 1..l /\ n \in Nat
    BY <1>5
  <2>1. IsLed(pop, n)
    BY <2>0, LedLemma
  <2> DEFINE m == x[n]
  <2>2. m \in Nat /\ (m # 0 => m \in 1..last /\ pop.event_set[m].fd = n - 1)
    BY <2>1 DEF IsLed
  <2>3. y[n] = IF i # last /\ n = gd + 1 THEN i ELSE IF n = fd + 1 THEN 0 ELSE m
    BY <1>5, <2>0
  <2>4. CASE i # last /\ n = gd + 1
    <3>1. i \in 1..(last - 1) /\ y[n] = i /\ from(i) = last
      BY <1>2, <2>3, <2>4
    <3>2. r.event_set[i] = pop.event_set[last]
      BY <1>5, <3>1
    <3>3. r.event_set[i].fd = n - 1
      BY <1>4, <2>4, <3>2
    <3> QED BY <1>2, <1>5, <3>1, <3>3 DEF IsLed
  <2>5. CASE ~ (i # last /\ n = gd + 1) /\ n = fd + 1
    BY <2>3, <2>5 DEF IsLed
  <2>6. CASE ~ (i # last /\ n = gd + 1) /\ n # fd + 1
    <3>1. y[n] = m
      BY <2>3, <2>6
    <3>2. CASE m = 0
      BY <3>1, <3>2 DEF IsLed
    <3>3. CASE m # 0
      <4>1. m # i
        <5>1. SUFFICES ASSUME m = i PROVE FALSE
          OBVIOUS
        <5>2. fd = n - 1
          BY <2>2, <3>3, <5>1
        <5> HIDE DEF fd
        <5> QED BY <2>0, <2>6, <5>2
      <4>2. m # last
        <5>1. SUFFICES ASSUME m = last PROVE FALSE
          OBVIOUS
        <5>2. gd = n - 1 /\ i # last
          BY <2>2, <3>3, <4>1, <5>1
        <5> HIDE DEF gd
        <5> QED BY <2>0, <2>6, <5>2
      <4>3. m \in 1..(last - 1) /\ from(m) = m
        BY <1>1, <2>2, <3>3, <4>1, <4>2
      <4>4. r.event_set[m] = pop.event_set[m]
        BY <1>5, <4>3, SMTT(30)
      <4> QED BY <1>5, <2>2, <3>1, <3>3, <4>3, <4>4 DEF IsLed
    <3> QED BY <3>2, <3>3
  <2> QED BY <2>4, <2>5, <2>6
<1>9. PollKnown(r)
  <2> SUFFICES ASSUME NEW d \in Dir, NEW k \in DOMAIN r.back[d], r.back[d][k] \in Event
               PROVE  ev_fd[r.back[d][k]] < l
    BY <1>5 DEF PollKnown, PollFinds
  <2>1. PICK j \in DOMAIN pop.back[d] : r.back[d][k] = pop.back[d][j]
    BY DEF IsMoved
  <2> QED BY <2>1 DEF PollGood, PollKnown, PollFinds
<1> QED BY <1>6, <1>7, <1>8, <1>9, PollGoodLemma

(* Without the descriptor in the table there is nothing to delete.         *)
LEMMA NotPlacedGood ==
  ASSUME NEW pop, NEW added \in SUBSET Event, PollGood(pop, added), NEW e \in Event,
         pop.idxplus1_by_fd[ev_fd[e] + 1] = 0
  PROVE  PollGood(pop, added \ {e})
<1> SUFFICES ASSUME NEW i \in 1..pop.nfds, NEW d \in pop.event_set[i].events, d \in Dir
             PROVE  pop.back[d][i] # e
  BY DEF PollGood, PollAgrees
<1>1. Held(pop, i, added)
  BY HeldLemma
<1>2. pop.idxplus1_by_fd[pop.event_set[i].fd + 1] = i /\ ev_fd[pop.back[d][i]] = pop.event_set[i].fd
  BY <1>1 DEF Held
<1>3. i # 0
  BY PollBounds
<1> QED BY <1>2, <1>3

(* poll_del leaves a good structure good, without the event: its place     *)
(* stays for the other direction, or the last place is moved there.        *)
LEMMA PollDeletedGood ==
  ASSUME NEW pop, NEW added \in SUBSET Event, PollGood(pop, added), NEW e \in Event,
         PollFinds(pop, e)
  PROVE  /\ PollGood(PollDeleted(pop, e), added \ {e})
         /\ PollDeleted(pop, e).event_count = pop.event_count
         /\ Len(PollDeleted(pop, e).idxplus1_by_fd) = Len(pop.idxplus1_by_fd)
         /\ PollPuts(PollDeleted(pop, e), pop, e, Null)
         /\ PollAbove(PollDeleted(pop, e), pop, pop.idxplus1_by_fd[ev_fd[e] + 1])
<1> DEFINE fd == ev_fd[e]
           dirs == ev_events[e]
           i == pop.idxplus1_by_fd[fd + 1]
           left == Cleared(pop, i, dirs)
           less == added \ {e}
           q == pop.event_set[i]
           pfd == [q EXCEPT !.events = @ \ dirs]
           p == [d \in Dir |-> IF d \in dirs THEN Null ELSE pop.back[d][i]]
           s == [pop.event_set EXCEPT ![i] = pfd]
           b == [d \in Dir |-> [pop.back[d] EXCEPT ![i] = p[d]]]
<1>1. /\ pop \in PollRecord /\ pop.nfds \in Nat /\ pop.event_count \in Nat
      /\ pop.nfds <= pop.event_count
      /\ pop.event_set \in Seq(Pollfd \cup {Junk})
      /\ pop.event_count <= Len(pop.event_set) /\ Len(pop.event_set) \in Nat
      /\ pop.idxplus1_by_fd \in Seq(Nat) /\ Len(pop.idxplus1_by_fd) \in Nat
      /\ \A d \in Dir : /\ pop.back[d] \in Seq(Event \cup {Null, Junk})
                        /\ pop.event_count <= Len(pop.back[d]) /\ Len(pop.back[d]) \in Nat
  BY PollBounds
<1>2. fd \in Fd /\ fd \in Nat /\ dirs \subseteq Dir /\ dirs # {} /\ fd < Len(pop.idxplus1_by_fd)
      /\ fd + 1 \in 1..Len(pop.idxplus1_by_fd)
  BY <1>1, EventLemma DEF PollFinds
<1>3. PollDeleted(pop, e) = IF i = 0 THEN pop
                            ELSE IF left.event_set[i].events # {} THEN left ELSE Shifted(left, i)
  BY DEF PollDeleted
<1>4. CASE i = 0
  <2>1. PollPuts(pop, pop, e, Null)
    BY <1>4 DEF PollPuts, PollSlot
  <2>2. PollAbove(pop, pop, i)
    BY DEF PollAbove
  <2> QED BY <1>3, <1>4, <2>1, <2>2, NotPlacedGood
<1>5. CASE i # 0
  <2>1. i \in 1..pop.nfds /\ q.fd = fd /\ i \in Nat
    <3>1. IsLed(pop, fd + 1)
      BY <1>2, LedLemma
    <3> QED BY <1>2, <1>5, <3>1 DEF IsLed
  <2>2. Held(pop, i, added)
    BY <2>1, HeldLemma
  <2>3. /\ q \in Pollfd /\ q.events \subseteq Dir
        /\ \A d \in Dir : IF d \in q.events
                          THEN /\ pop.back[d][i] \in added /\ ev_fd[pop.back[d][i]] = fd
                               /\ d \in ev_events[pop.back[d][i]]
                          ELSE pop.back[d][i] = Null
    BY <2>1, <2>2 DEF Held, Pollfd
  <2>4. i \in DOMAIN pop.event_set /\ \A d \in Dir : i \in DOMAIN pop.back[d]
    BY <1>1, <2>1, SMTT(30)
  <2>5. left = [pop EXCEPT !.event_set = s, !.back = b]
    <3>1. pop.back \in [Dir -> Seq(Event \cup {Null, Junk})]
      BY <1>1 DEF PollRecord
    <3>2. left.event_set = s /\ left.idxplus1_by_fd = pop.idxplus1_by_fd
          /\ left.nfds = pop.nfds /\ left.event_count = pop.event_count
      <4> HIDE DEF dirs, i
      <4> QED BY <1>1, <2>3, <2>4 DEF Cleared, PollRecord, Pollfd
    <3>3. left.back = b
      <4> DEFINE bk == pop.back
                 vi == IF "in" \in dirs THEN Null ELSE bk["in"][i]
                 vo == IF "out" \in dirs THEN Null ELSE bk["out"][i]
                 c == left.back
      <4>1. left = [pop EXCEPT !.event_set[i].events = @ \ dirs,
                               !.back["in"][i] = vi, !.back["out"][i] = vo]
        <5> HIDE DEF dirs, i
        <5> QED BY <1>1, <2>4, <3>1 DEF Cleared, PollRecord, Dir
      <4>2. "in" \in Dir /\ "out" \in Dir /\ \A d \in Dir : d = "in" \/ d = "out"
        BY DEF Dir
      <4>3. p["in"] = vi /\ p["out"] = vo
        BY <4>2
      <4> HIDE DEF vi, vo, left, dirs, i, p
      <4>4. c = [bk EXCEPT !["in"] = [bk["in"] EXCEPT ![i] = vi], !["out"] = [bk["out"] EXCEPT ![i] = vo]]
        BY <1>1, <3>1, <4>1, <4>2 DEF PollRecord
      <4>5. DOMAIN c = Dir /\ c = [d \in Dir |-> c[d]]
        BY <3>1, <4>4
      <4>6. c["in"] = [bk["in"] EXCEPT ![i] = vi] /\ c["out"] = [bk["out"] EXCEPT ![i] = vo]
        BY <3>1, <4>2, <4>4
      <4>7. ASSUME NEW d \in Dir PROVE c[d] = [pop.back[d] EXCEPT ![i] = p[d]]
        <5>1. CASE d = "in"
          BY <4>3, <4>6, <5>1
        <5>2. CASE d = "out"
          BY <4>3, <4>6, <5>2
        <5> QED BY <4>2, <5>1, <5>2
      <4> HIDE DEF c
      <4> QED BY <4>5, <4>7 DEF c
    <3>4. left \in [event_set : {left.event_set}, back : {left.back}, idxplus1_by_fd : {left.idxplus1_by_fd},
                    nfds : {left.nfds}, event_count : {left.event_count}]
      <4> HIDE DEF dirs, i
      <4> QED BY <1>1 DEF Cleared, PollRecord
    <3> HIDE DEF left, s, b
    <3> QED BY <1>1, <3>2, <3>3, <3>4 DEF PollRecord
  <2>6. left.event_set[i] = pfd /\ pfd.events = q.events \ dirs /\ pfd \in Pollfd /\ pfd.fd = fd
    <3>1. left.event_set = s
      BY <1>1, <2>5 DEF PollRecord
    <3>2. s[i] = pfd
      BY <2>4
    <3> HIDE DEF s, left
    <3>3. pfd.events = q.events \ dirs /\ pfd.fd = q.fd /\ pfd \in Pollfd
      BY <2>3 DEF Pollfd
    <3> QED BY <2>1, <3>1, <3>2, <3>3
  <2>7. CASE pfd.events # {}
    <3>1. left = Written(pop, i, pop.nfds, fd, pfd, p)
      <4>1. [pop.idxplus1_by_fd EXCEPT ![fd + 1] = i] = pop.idxplus1_by_fd
        BY <1>1
      <4> DEFINE x == [pop.idxplus1_by_fd EXCEPT ![fd + 1] = i]
      <4> HIDE DEF i, s, b, left, x
      <4>2. [pop EXCEPT !.event_set = s, !.back = b] =
              [pop EXCEPT !.event_set = s, !.back = b, !.idxplus1_by_fd = x, !.nfds = pop.nfds]
        BY <1>1, <4>1 DEF PollRecord, x
      <4> QED BY <2>5, <4>2 DEF Written, s, b, x
    <3>2. \A d \in Dir : IF d \in pfd.events
                        THEN p[d] \in less /\ ev_fd[p[d]] = fd /\ d \in ev_events[p[d]]
                        ELSE p[d] = Null
      <4> SUFFICES ASSUME NEW d \in Dir
                   PROVE IF d \in pfd.events
                        THEN p[d] \in less /\ ev_fd[p[d]] = fd /\ d \in ev_events[p[d]]
                        ELSE p[d] = Null
        OBVIOUS
      <4> HIDE DEF pfd, fd, i
      <4>1. CASE d \in dirs
        BY <2>6, <4>1
      <4>2. CASE d \notin dirs
        <5>1. p[d] = pop.back[d][i] /\ (d \in pfd.events <=> d \in q.events)
          BY <2>6, <4>2
        <5>2. d \in q.events => pop.back[d][i] # e
          BY <2>3, <4>2
        <5> HIDE DEF p, q
        <5> QED BY <2>3, <5>1, <5>2
      <4> QED BY <4>1, <4>2
    <3>3. p \in [Dir -> Event \cup {Null}]
      <4>1. ASSUME NEW d \in Dir PROVE p[d] \in Event \cup {Null}
        BY <2>3
      <4>2. p = [d \in Dir |-> p[d]]
        OBVIOUS
      <4> HIDE DEF p
      <4> QED BY <4>1, <4>2
    <3>4. \A f \in added : ev_fd[f] # fd => f \in less
      OBVIOUS
    <3>5. i \in 1..pop.nfds /\ pop.idxplus1_by_fd[fd + 1] = i /\ pop.nfds = pop.nfds
      BY <2>1
    <3>6. PollDeleted(pop, e) = left
      BY <1>3, <1>5, <2>6, <2>7
    <3>9. PollAbove(left, pop, i)
      <4>1. left.event_set = s /\ left.back = b /\ left.idxplus1_by_fd = pop.idxplus1_by_fd
        <5> HIDE DEF s, b
        <5> QED BY <2>5, <1>1 DEF PollRecord
      <4>2. \A k \in DOMAIN pop.event_set : k > i => s[k] = pop.event_set[k]
        BY <1>1, <2>1, SMTT(30)
      <4>3. \A d \in Dir : \A k \in DOMAIN pop.back[d] : k > i => b[d][k] = pop.back[d][k]
        BY <1>1, <2>1
      <4> HIDE DEF s, b, left, i
      <4> QED BY <4>1, <4>2, <4>3 DEF PollAbove
    <3>10. PollPuts(left, pop, e, Null)
      <4> SUFFICES ASSUME NEW gd \in Fd, NEW d \in Dir
                   PROVE  PollSlot(left, gd, d) =
                            IF gd = fd /\ d \in dirs THEN Null ELSE PollSlot(pop, gd, d)
        BY DEF PollPuts
      <4>1. PollSlot(pop, fd, d) = pop.back[d][i]
        BY <1>2, <1>5 DEF PollSlot
      <4>2. p[d] = IF d \in dirs THEN Null ELSE pop.back[d][i]
        OBVIOUS
      <4> DEFINE n == pop.nfds
      <4>3. i \in 1..pop.nfds /\ pop.idxplus1_by_fd[fd + 1] = i /\ i \in Nat /\ n \in Nat
        BY <1>1, <2>1
      <4>4. left = Written(pop, i, n, fd, pfd, p)
        BY <3>1
      <4> HIDE DEF i, p, pfd, fd, left, dirs, n
      <4>5. PollSlot(Written(pop, i, n, fd, pfd, p), gd, d) =
              IF gd = fd THEN p[d] ELSE PollSlot(pop, gd, d)
        BY <1>2, <4>3, WrittenSlots
      <4> QED BY <4>1, <4>2, <4>4, <4>5
    <3> HIDE DEF i, p, pfd, less, fd, left
    <3>7. PollGood(Written(pop, i, pop.nfds, fd, pfd, p), less)
      <4> DEFINE n == pop.nfds
      <4>1. pfd \in Pollfd /\ pfd.fd = fd /\ pfd.events # {} /\ i \in Nat /\ n \in Nat
            /\ fd \in Fd /\ fd < Len(pop.idxplus1_by_fd)
        BY <1>1, <1>2, <2>1, <2>6, <2>7
      <4>2. i \in 1..pop.nfds /\ pop.idxplus1_by_fd[fd + 1] = i /\ n = pop.nfds
        BY <3>5
      <4> HIDE DEF n
      <4>3. PollGood(Written(pop, i, n, fd, pfd, p), less)
        BY <3>2, <3>3, <3>4, <4>1, <4>2, WrittenGood
      <4> QED BY <4>3 DEF n
    <3>8. left.event_count = pop.event_count /\ left.idxplus1_by_fd = pop.idxplus1_by_fd
      <4> HIDE DEF s, b
      <4> QED BY <2>5, <1>1 DEF PollRecord
    <3> QED BY <3>1, <3>6, <3>7, <3>8, <3>9, <3>10 DEF less, i, fd
  <2>8. CASE pfd.events = {}
    <3> DEFINE last == pop.nfds
               x == pop.idxplus1_by_fd
               gd == pop.event_set[last].fd
               r == Shifted(left, i)
               x0 == [x EXCEPT ![fd + 1] = 0]
               s1 == [s EXCEPT ![i] = s[last]]
               b1 == [d \in Dir |-> [b[d] EXCEPT ![i] = b[d][last]]]
               x1 == [x0 EXCEPT ![s[last].fd + 1] = i]
    <3>1. PollDeleted(pop, e) = r
      BY <1>3, <1>5, <2>6, <2>8
    <3>22. \A d \in Dir : d \notin dirs => PollSlot(pop, fd, d) = Null
      <4>1. \A d \in Dir : PollSlot(pop, fd, d) = pop.back[d][i]
        BY <1>2, <1>5 DEF PollSlot
      <4>2. \A d \in Dir : d \notin dirs => d \notin q.events
        BY <2>6, <2>8
      <4> HIDE DEF q, i, fd, dirs
      <4> QED BY <4>1, <4>2, <2>3
    <3>23. \A k \in DOMAIN pop.event_set : k # i => s[k] = pop.event_set[k]
      OBVIOUS
    <3>2. /\ left.event_set = s /\ left.back = b /\ left.idxplus1_by_fd = x /\ left.nfds = last
          /\ left.event_count = pop.event_count
          /\ left \in [event_set : {s}, back : {b}, idxplus1_by_fd : {x}, nfds : {last},
                       event_count : {pop.event_count}]
      <4> HIDE DEF s, b, left
      <4> QED BY <1>1, <2>5 DEF PollRecord
    <3>3. /\ s \in Seq(Pollfd \cup {Junk}) /\ Len(s) = Len(pop.event_set)
          /\ DOMAIN s = DOMAIN pop.event_set
      <4>1. pfd \in Pollfd \cup {Junk} /\ i \in 1..Len(pop.event_set)
        <5>1. pfd \in Pollfd
          BY <2>6
        <5>2. i \in 1..Len(pop.event_set)
          BY <1>1, <2>4 DEF PollRecord
        <5> HIDE DEF pfd, i
        <5> QED BY <5>1, <5>2
      <4> HIDE DEF pfd, i
      <4> QED BY <1>1, <4>1, ExceptSeq
    <3>4. ASSUME NEW d \in Dir
          PROVE  /\ b[d] \in Seq(Event \cup {Null, Junk}) /\ Len(b[d]) = Len(pop.back[d])
                 /\ DOMAIN b[d] = DOMAIN pop.back[d]
                 /\ \A k \in DOMAIN b[d] : b[d][k] = IF k = i THEN p[d] ELSE pop.back[d][k]
      <4> DEFINE u == pop.back[d]
                 T == Event \cup {Null, Junk}
                 v == p[d]
      <4>1. u \in Seq(T) /\ i \in 1..Len(u) /\ b[d] = [u EXCEPT ![i] = v]
        BY <1>1, <2>1
      <4>2. v \in T
        BY <2>3
      <4> HIDE DEF u, v, T, b, i
      <4>3. [u EXCEPT ![i] = v] \in Seq(T) /\ Len([u EXCEPT ![i] = v]) = Len(u)
            /\ DOMAIN [u EXCEPT ![i] = v] = DOMAIN u
        BY <4>1, <4>2, ExceptSeq
      <4>4. \A k \in DOMAIN u : [u EXCEPT ![i] = v][k] = IF k = i THEN v ELSE u[k]
        OBVIOUS
      <4> QED BY <4>1, <4>3, <4>4 DEF u, v, T
    <3>5. b \in [Dir -> Seq(Event \cup {Null, Junk})]
      <4>1. b = [d \in Dir |-> b[d]]
        OBVIOUS
      <4> HIDE DEF b
      <4> QED BY <3>4, <4>1
    <3>6. last \in 1..last /\ last \in DOMAIN s /\ \A d \in Dir : last \in DOMAIN b[d]
      <4>1. last \in 1..Len(pop.event_set) /\ \A d \in Dir : last \in 1..Len(pop.back[d]) /\ last \in 1..last
        BY <1>1, <2>1, SMTT(30)
      <4> HIDE DEF s, b
      <4> QED BY <1>1, <2>1, <3>3, <3>4, <4>1
    <3>7. s[i] = pfd /\ s[i].fd = fd /\ \A k \in 1..last : k # i => s[k] = pop.event_set[k]
      <4>1. \A k \in 1..last : k \in DOMAIN pop.event_set
        BY <1>1
      <4> HIDE DEF pfd, i
      <4> QED BY <2>4, <2>6, <4>1
    <3>8. x0 \in Seq(Nat) /\ Len(x0) = Len(x) /\ \A n \in 1..Len(x) : x0[n] = IF n = fd + 1 THEN 0 ELSE x[n]
      <4> HIDE DEF fd
      <4> QED BY <1>1, <1>2, ExceptSeq
    <3> HIDE DEF s, b, left, p, pfd, x0, q
    <3>9. r = IF i = last
              THEN [left EXCEPT !.idxplus1_by_fd = x0, !.nfds = last - 1]
              ELSE [left EXCEPT !.idxplus1_by_fd = x1, !.nfds = last - 1, !.event_set = s1, !.back = b1]
      <4> DEFINE gone == [left EXCEPT !.idxplus1_by_fd[left.event_set[i].fd + 1] = 0, !.nfds = left.nfds - 1]
      <4>1. r = IF i = left.nfds THEN gone
                ELSE [gone EXCEPT
                      !.event_set[i]   = left.event_set[left.nfds],
                      !.back["in"][i]  = left.back["in"][left.nfds],
                      !.back["out"][i] = left.back["out"][left.nfds],
                      !.idxplus1_by_fd[left.event_set[left.nfds].fd + 1] = i]
        BY DEF Shifted
      <4> HIDE DEF r, i, last
      <4>2. gone = [left EXCEPT !.idxplus1_by_fd = x0, !.nfds = last - 1]
        BY <3>2, <3>7 DEF x0
      <4>3. gone.event_set = s /\ gone.back = b /\ gone.idxplus1_by_fd = x0
            /\ gone \in [event_set : {s}, back : {b}, idxplus1_by_fd : {x0}, nfds : {last - 1},
                         event_count : {pop.event_count}]
        BY <3>2, <4>2
      <4> HIDE DEF gone
      <4>4. r = IF i = last THEN gone
                ELSE [gone EXCEPT
                      !.event_set[i]   = s[last],
                      !.back["in"][i]  = b["in"][last],
                      !.back["out"][i] = b["out"][last],
                      !.idxplus1_by_fd[s[last].fd + 1] = i]
        BY <3>2, <4>1
      <4>5. CASE i = last
        BY <4>2, <4>4, <4>5
      <4>6. CASE i # last
        <5>1. r = [gone EXCEPT
                      !.event_set[i]   = s[last],
                      !.back["in"][i]  = b["in"][last],
                      !.back["out"][i] = b["out"][last],
                      !.idxplus1_by_fd[s[last].fd + 1] = i]
          BY <4>4, <4>6
        <5>2. r.event_set = s1 /\ r.idxplus1_by_fd = x1 /\ r.nfds = last - 1 /\ r.event_count = pop.event_count
          BY <4>3, <5>1
        <5>3. r.back = b1
          <6>1. r.back = [b EXCEPT !["in"] = [@ EXCEPT ![i] = b["in"][last]],
                                   !["out"] = [@ EXCEPT ![i] = b["out"][last]]]
            BY <4>3, <5>1
          <6> QED BY <3>5, <6>1 DEF Dir
        <5>4. r \in [event_set : {r.event_set}, back : {r.back}, idxplus1_by_fd : {r.idxplus1_by_fd},
                     nfds : {r.nfds}, event_count : {r.event_count}]
          BY <4>3, <5>1
        <5>5. r = [left EXCEPT !.idxplus1_by_fd = x1, !.nfds = last - 1, !.event_set = s1, !.back = b1]
          <6> HIDE DEF s1, b1, x1
          <6> QED BY <3>2, <5>2, <5>3, <5>4
        <5> QED BY <4>6, <5>5
      <4> QED BY <4>5, <4>6
    <3>10. /\ s1 \in Seq(Pollfd \cup {Junk}) /\ Len(s1) = Len(s)
           /\ \A j \in 1..(last - 1) : s1[j] = pop.event_set[IF j = i THEN last ELSE j]
      <4>1. i \in 1..Len(s) /\ s[last] \in Pollfd \cup {Junk}
        BY <2>4, <3>3, <3>6
      <4>2. s1 \in Seq(Pollfd \cup {Junk}) /\ Len(s1) = Len(s)
        <5> HIDE DEF i, last
        <5> QED BY <3>3, <4>1, ExceptSeq
      <4>3. ASSUME NEW j \in 1..(last - 1)
            PROVE  s1[j] = pop.event_set[IF j = i THEN last ELSE j]
        <5>1. j \in 1..last /\ j # last /\ j \in DOMAIN s
          BY <1>1, <3>3
        <5>2. CASE j = i
          <6>1. s1[j] = s[last] /\ last # i
            BY <5>1, <5>2
          <6> QED BY <3>6, <3>7, <5>2, <6>1
        <5>3. CASE j # i
          <6>1. s1[j] = s[j]
            BY <5>1, <5>3
          <6> QED BY <3>7, <5>1, <5>3, <6>1
        <5> QED BY <5>2, <5>3
      <4> QED BY <4>2, <4>3
    <3>24. \A k \in DOMAIN pop.event_set : k # i => s1[k] = pop.event_set[k]
      BY <3>3, <3>23
    <3>11. ASSUME NEW d \in Dir
           PROVE  /\ b1[d] \in Seq(Event \cup {Null, Junk}) /\ Len(b1[d]) = Len(pop.back[d])
                  /\ DOMAIN b1[d] = DOMAIN pop.back[d]
                  /\ \A j \in DOMAIN b1[d] : b1[d][j] = IF j = i THEN b[d][last] ELSE b[d][j]
      <4> DEFINE u == b[d]
                 T == Event \cup {Null, Junk}
                 v == b[d][last]
                 w == [u EXCEPT ![i] = v]
      <4>1. u \in Seq(T) /\ i \in 1..Len(u) /\ b1[d] = w /\ Len(u) = Len(pop.back[d])
            /\ DOMAIN u = DOMAIN pop.back[d]
        BY <1>1, <2>1, <3>4
      <4>2. v \in T
        BY <3>4, <3>6
      <4> HIDE DEF u, v, T, b1, i
      <4>3. w \in Seq(T) /\ Len(w) = Len(u) /\ DOMAIN w = DOMAIN u
        BY <4>1, <4>2, ExceptSeq
      <4>4. \A k \in DOMAIN u : w[k] = IF k = i THEN v ELSE u[k]
        OBVIOUS
      <4> HIDE DEF w
      <4> QED BY <4>1, <4>3, <4>4 DEF u, v, T
    <3>12. b1 \in [Dir -> Seq(Event \cup {Null, Junk})]
      <4>1. b1 = [d \in Dir |-> b1[d]]
        OBVIOUS
      <4> HIDE DEF b1
      <4> QED BY <3>11, <4>1
    <3>13. gd \in Nat /\ gd + 1 \in 1..Len(x) /\ x[gd + 1] = last
      <4>1. Held(pop, last, added)
        BY <3>6, HeldLemma
      <4> QED BY <4>1 DEF Held
    <3>14. i # last => /\ x1 \in Seq(Nat) /\ Len(x1) = Len(x)
                       /\ \A n \in 1..Len(x) : x1[n] = IF n = gd + 1 THEN i ELSE x0[n]
      <4> SUFFICES ASSUME i # last
                   PROVE  /\ x1 \in Seq(Nat) /\ Len(x1) = Len(x)
                          /\ \A n \in 1..Len(x) : x1[n] = IF n = gd + 1 THEN i ELSE x0[n]
        OBVIOUS
      <4>1. s[last] = pop.event_set[last]
        BY <3>6, <3>7
      <4>2. x1 = [x0 EXCEPT ![gd + 1] = i]
        BY <4>1
      <4>3. gd + 1 \in 1..Len(x0) /\ i \in Nat
        BY <2>1, <3>8, <3>13
      <4> HIDE DEF gd, i, x1
      <4> QED BY <3>8, <4>2, <4>3, ExceptSeq
    <3>15. /\ r \in PollRecord /\ r.nfds = last - 1 /\ r.event_count = pop.event_count
           /\ r.event_set = (IF i = last THEN s ELSE s1) /\ r.back = (IF i = last THEN b ELSE b1)
           /\ r.idxplus1_by_fd = (IF i = last THEN x0 ELSE x1)
      <4>1. last - 1 \in Nat
        BY <1>1, <3>6
      <4>2. CASE i = last
        <5>1. r = [left EXCEPT !.idxplus1_by_fd = x0, !.nfds = last - 1]
          BY <3>9, <4>2
        <5> HIDE DEF r, i
        <5> QED BY <1>1, <3>2, <3>3, <3>5, <3>8, <4>1, <4>2, <5>1 DEF PollRecord
      <4>3. CASE i # last
        <5>1. r = [left EXCEPT !.idxplus1_by_fd = x1, !.nfds = last - 1, !.event_set = s1, !.back = b1]
          BY <3>9, <4>3
        <5> HIDE DEF r, i, s1, b1, x1
        <5> QED BY <1>1, <3>2, <3>10, <3>12, <3>14, <4>1, <4>3, <5>1 DEF PollRecord
      <4> QED BY <4>2, <4>3
    <3> HIDE DEF r, s1, b1, x1
    <3>16. ASSUME NEW d \in Dir
           PROVE  /\ Len(r.back[d]) = Len(pop.back[d])
                  /\ DOMAIN r.back[d] = DOMAIN pop.back[d]
                  /\ \A j \in 1..(last - 1) : r.back[d][j] = pop.back[d][IF j = i THEN last ELSE j]
                  /\ \A k \in DOMAIN r.back[d] :
                       r.back[d][k] \in Event => \E j \in DOMAIN pop.back[d] : r.back[d][k] = pop.back[d][j]
      <4>1. p[d] \notin Event \/ p[d] = pop.back[d][i]
        BY EventLemma DEF p
      <4>2. i \in DOMAIN pop.back[d] /\ last \in DOMAIN pop.back[d]
            /\ \A j \in 1..last : j \in DOMAIN pop.back[d]
        BY <1>1, <2>1, <3>6, SMTT(30)
      <4>3. DOMAIN r.back[d] = DOMAIN pop.back[d] /\ Len(r.back[d]) = Len(pop.back[d])
        BY <3>4, <3>11, <3>15
      <4>4. ASSUME NEW j \in 1..(last - 1)
            PROVE  r.back[d][j] = pop.back[d][IF j = i THEN last ELSE j]
        <5>1. j \in 1..last /\ j # last /\ j \in DOMAIN pop.back[d]
          BY <1>1, <4>2
        <5> HIDE DEF i
        <5>2. CASE i = last
          BY <3>4, <3>15, <5>1, <5>2
        <5>3. CASE i # last
          BY <3>4, <3>11, <3>15, <4>2, <5>1, <5>3
        <5> QED BY <5>2, <5>3
      <4>5. ASSUME NEW k \in DOMAIN r.back[d], r.back[d][k] \in Event
            PROVE  \E j \in DOMAIN pop.back[d] : r.back[d][k] = pop.back[d][j]
        <5>1. k \in DOMAIN pop.back[d]
          BY <4>3
        <5> HIDE DEF i
        <5>2. \A j \in DOMAIN pop.back[d] : b[d][j] \in Event =>
                 \E h \in DOMAIN pop.back[d] : b[d][j] = pop.back[d][h]
          BY <3>4, <4>1, <4>2
        <5>3. r.back[d][k] = b[d][k] \/ r.back[d][k] = b[d][last]
          BY <3>11, <3>15, <5>1
        <5> QED BY <4>2, <4>5, <5>1, <5>2, <5>3
      <4> QED BY <4>3, <4>4, <4>5
    <3>17. /\ Len(r.idxplus1_by_fd) = Len(x)
           /\ \A n \in 1..Len(x) :
                r.idxplus1_by_fd[n] = IF i # last /\ n = gd + 1 THEN i
                                      ELSE IF n = fd + 1 THEN 0 ELSE x[n]
      <4> HIDE DEF i, gd, fd
      <4> QED BY <3>8, <3>14, <3>15
    <3>18. /\ Len(r.event_set) = Len(pop.event_set)
           /\ \A j \in 1..(last - 1) : r.event_set[j] = pop.event_set[IF j = i THEN last ELSE j]
      <4>1. CASE i = last
        <5>1. \A j \in 1..(last - 1) : j \in 1..last /\ j # last
          BY <1>1
        <5> HIDE DEF i
        <5> QED BY <3>3, <3>7, <3>15, <4>1, <5>1
      <4>2. CASE i # last
        <5> HIDE DEF i
        <5> QED BY <3>3, <3>10, <3>15, <4>2
      <4> QED BY <4>1, <4>2
    <3>19. IsMoved(r, pop, i)
      <4>1. pop.event_set[i].fd = fd
        BY <2>1 DEF q
      <4> HIDE DEF i, fd
      <4> QED BY <3>15, <3>16, <3>17, <3>18, <4>1 DEF IsMoved
    <3>20. \A f \in added : ev_fd[f] # pop.event_set[i].fd => f \in less
      BY <2>1 DEF q
    <3> HIDE DEF less
    <3>21. PollGood(r, less)
      <4> HIDE DEF i
      <4> QED BY <2>1, <3>15, <3>19, <3>20, MovedGood
    <3>25. PollAbove(r, pop, i)
      <4>1. \A k \in DOMAIN pop.event_set : k > i => r.event_set[k] = pop.event_set[k]
        <5>1. \A k \in DOMAIN pop.event_set : k > i => k # i
          BY <1>1, <2>1
        <5> HIDE DEF i
        <5> QED BY <3>15, <3>23, <3>24, <5>1
      <4>2. ASSUME NEW d \in Dir, NEW k \in DOMAIN pop.back[d], k > i
            PROVE  r.back[d][k] = pop.back[d][k]
        <5>1. k # i
          BY <1>1, <2>1, <4>2
        <5>2. DOMAIN b[d] = DOMAIN pop.back[d] /\ DOMAIN b1[d] = DOMAIN pop.back[d]
          BY <3>4, <3>11
        <5>3. b[d][k] = pop.back[d][k]
          BY <3>4, <5>1, <5>2
        <5>4. b1[d][k] = b[d][k]
          BY <3>11, <5>1, <5>2
        <5> HIDE DEF i
        <5> QED BY <3>15, <5>3, <5>4
      <4>3. 0 <= i /\ i <= i
        BY <2>1
      <4>4. \A n \in 1..Len(x) : r.idxplus1_by_fd[n] = x[n] \/ r.idxplus1_by_fd[n] <= i
        <5> HIDE DEF i, gd, fd, x, last
        <5> QED BY <3>17, <4>3
      <4> HIDE DEF i
      <4> QED BY <4>1, <4>2, <4>4 DEF PollAbove
    <3>26. PollPuts(r, pop, e, Null)
      <4> SUFFICES ASSUME NEW hd \in Fd, NEW d \in Dir
                   PROVE  PollSlot(r, hd, d) =
                            IF hd = fd /\ d \in dirs THEN Null ELSE PollSlot(pop, hd, d)
        BY DEF PollPuts, less
      <4>1. PollSlot(r, hd, d) = IF hd = pop.event_set[i].fd THEN Null ELSE PollSlot(pop, hd, d)
        BY <2>1, <3>19, MovedSlots
      <4>2. pop.event_set[i].fd = fd
        BY <2>1 DEF q
      <4> HIDE DEF i, fd, dirs
      <4> QED BY <3>22, <4>1, <4>2
    <3> QED BY <3>1, <3>15, <3>17, <3>21, <3>25, <3>26 DEF less
  <2> QED BY <2>7, <2>8
<1> QED BY <1>4, <1>5

(* A pointer leads to an event that was added, of the descriptor and the   *)
(* direction, and the place asks for it.                                   *)
LEMMA PollSlotLemma ==
  ASSUME NEW pop, NEW added \in SUBSET Event, PollGood(pop, added), NEW fd \in Fd, NEW d \in Dir,
         NEW e, e = PollSlot(pop, fd, d), e # Null
  PROVE  /\ e \in added /\ ev_fd[e] = fd /\ d \in ev_events[e]
         /\ fd < Len(pop.idxplus1_by_fd)
         /\ \E i \in 1..pop.nfds : /\ i = pop.idxplus1_by_fd[fd + 1]
                                   /\ pop.event_set[i].fd = fd /\ d \in pop.event_set[i].events
                                   /\ e = pop.back[d][i]
<1> DEFINE i == pop.idxplus1_by_fd[fd + 1]
           l == Len(pop.idxplus1_by_fd)
<1>1. fd < l /\ i # 0 /\ e = pop.back[d][i]
  BY DEF PollSlot
<1>2. fd \in Nat /\ l \in Nat
  BY EventLemma, PollBounds
<1>3. fd + 1 \in 1..l
  BY <1>1, <1>2
<1>4. IsLed(pop, fd + 1)
  BY <1>3, LedLemma
<1>5. i \in 1..pop.nfds /\ pop.event_set[i].fd = fd
  BY <1>1, <1>2, <1>4 DEF IsLed
<1>6. Held(pop, i, added)
  BY <1>5, HeldLemma
<1> HIDE DEF i
<1>7. /\ d \in pop.event_set[i].events
      /\ e \in added /\ ev_fd[e] = fd /\ d \in ev_events[e]
  BY <1>1, <1>5, <1>6 DEF Held
<1> QED BY <1>1, <1>5, <1>7 DEF i

(* An event that the arrays lead to is at all pointers it wants.           *)
LEMMA PollWatchedLemma ==
  ASSUME NEW pop, NEW added \in SUBSET Event, PollGood(pop, added), NEW e \in Event
  PROVE  PollWatched(pop, e) <=> \A d \in ev_events[e] : PollSlot(pop, ev_fd[e], d) = e
<1> DEFINE fd == ev_fd[e]
           i == pop.idxplus1_by_fd[fd + 1]
<1>1. fd \in Fd /\ ev_events[e] \subseteq Dir /\ ev_events[e] # {} /\ e # Null
  BY EventLemma
<1>2. ASSUME PollWatched(pop, e), NEW d \in ev_events[e] PROVE PollSlot(pop, fd, d) = e
  <2>1. i # 0
    BY <1>2, PollBounds DEF PollWatched
  <2> QED BY <1>2, <2>1 DEF PollWatched, PollSlot
<1>3. ASSUME \A d \in ev_events[e] : PollSlot(pop, fd, d) = e PROVE PollWatched(pop, e)
  <2>1. ASSUME NEW d \in ev_events[e]
        PROVE  /\ fd < Len(pop.idxplus1_by_fd) /\ i \in 1..pop.nfds /\ pop.event_set[i].fd = fd
               /\ d \in pop.event_set[i].events /\ pop.back[d][i] = e
    <3>1. d \in Dir /\ e = PollSlot(pop, fd, d)
      BY <1>1, <1>3
    <3> HIDE DEF fd
    <3> QED BY <3>1, <1>1, PollSlotLemma
  <2> QED BY <1>1, <2>1 DEF PollWatched
<1> QED BY <1>2, <1>3

(* What a dispatch has yet to look at, from place j to place n, lies in    *)
(* the arrays and holds the pointers of its descriptor, whose own place is *)
(* not behind it.                                                          *)
PollAhead(pop, j, n) ==
  /\ n <= pop.event_count
  /\ \A i \in j..n :
       /\ pop.event_set[i] \in Pollfd
       /\ pop.event_set[i].fd < Len(pop.idxplus1_by_fd)
       /\ pop.idxplus1_by_fd[pop.event_set[i].fd + 1] <= i
       /\ \A d \in Dir : pop.back[d][i] = PollSlot(pop, pop.event_set[i].fd, d)

(* The answers tell of every pointer whether its descriptor is ready.      *)
PollTells(r, n, ready) ==
  \A fd \in Fd, d \in Dir :
    PollSlot(r, fd, d) # Null =>
      (d \in Seen(ready[fd]) <=> \E i \in 1..n : /\ r.event_set[i].fd = fd
                                                /\ d \in Seen(r.event_set[i].revents))

(* After the answers of poll all places are ahead, each with a descriptor  *)
(* of its own, and they tell what is ready.                                *)
LEMMA PollWaitedAhead ==
  ASSUME NEW pop, NEW added \in SUBSET Event, PollGood(pop, added), NEW ready \in [Fd -> What]
  PROVE  /\ PollAhead(PollWaited(pop, ready), 1, pop.nfds)
         /\ \A i, k \in 1..pop.nfds :
              PollWaited(pop, ready).event_set[i].fd = PollWaited(pop, ready).event_set[k].fd => i = k
         /\ PollTells(PollWaited(pop, ready), pop.nfds, ready)
<1> DEFINE r == PollWaited(pop, ready)
           n == pop.nfds
<1>1. /\ PollGood(r, added) /\ r.nfds = n
      /\ \A k \in 1..n : /\ r.event_set[k].fd = pop.event_set[k].fd
                         /\ r.event_set[k].events = pop.event_set[k].events
                         /\ r.event_set[k].revents =
                              ready[r.event_set[k].fd] \cap (r.event_set[k].events \cup {"hup"})
  BY PollWaitedGood
<1> HIDE DEF r
<1>2. n \in Nat /\ n <= r.event_count
  BY <1>1, PollBounds
<1>3. ASSUME NEW i \in 1..n PROVE Held(r, i, added) /\ i \in Nat /\ i # 0
  <2>1. i \in 1..r.nfds
    BY <1>1
  <2> HIDE DEF n
  <2> QED BY <2>1, <1>1, <1>2, HeldLemma
<1>4. PollAhead(r, 1, n)
  <2> SUFFICES ASSUME NEW i \in 1..n
               PROVE  /\ r.event_set[i] \in Pollfd
                      /\ r.event_set[i].fd < Len(r.idxplus1_by_fd)
                      /\ r.idxplus1_by_fd[r.event_set[i].fd + 1] = i
                      /\ i <= i
                      /\ \A d \in Dir : r.back[d][i] = PollSlot(r, r.event_set[i].fd, d)
    BY <1>2 DEF PollAhead
  <2>1. Held(r, i, added) /\ i \in Nat /\ i # 0
    BY <1>3
  <2>2. /\ r.event_set[i] \in Pollfd /\ r.idxplus1_by_fd[r.event_set[i].fd + 1] = i
        /\ r.event_set[i].fd \in Nat /\ r.event_set[i].fd + 1 \in 1..Len(r.idxplus1_by_fd)
    BY <2>1 DEF Held
  <2>3. Len(r.idxplus1_by_fd) \in Nat
    BY <1>1, PollBounds
  <2>4. r.event_set[i].fd < Len(r.idxplus1_by_fd)
    BY <2>2, <2>3
  <2> QED BY <2>1, <2>2, <2>4 DEF PollSlot
<1>5. ASSUME NEW i \in 1..n, NEW k \in 1..n, r.event_set[i].fd = r.event_set[k].fd PROVE i = k
  BY <1>3, <1>5, SMTT(30) DEF Held
<1>6. PollTells(r, n, ready)
  <2> SUFFICES ASSUME NEW fd \in Fd, NEW d \in Dir, PollSlot(r, fd, d) # Null
               PROVE  d \in Seen(ready[fd]) <=> \E i \in 1..n : /\ r.event_set[i].fd = fd
                                                              /\ d \in Seen(r.event_set[i].revents)
    BY DEF PollTells
  <2>1. PICK i \in 1..n : r.event_set[i].fd = fd /\ d \in r.event_set[i].events
    <3> DEFINE e == PollSlot(r, fd, d)
    <3>1. \E i \in 1..r.nfds : r.event_set[i].fd = fd /\ d \in r.event_set[i].events
      BY <1>1, PollSlotLemma
    <3> QED BY <1>1, <3>1
  <2>2. d # "hup"
    BY DEF Dir
  <2>3. r.event_set[i].revents = ready[fd] \cap (r.event_set[i].events \cup {"hup"})
    BY <1>1, <2>1
  <2>4. d \in Seen(ready[fd]) <=> d \in Seen(r.event_set[i].revents)
    BY <2>1, <2>2, <2>3 DEF Seen
  <2>5. \A k \in 1..n : r.event_set[k].fd = fd => k = i
    BY <1>5, <2>1
  <2> QED BY <2>1, <2>4, <2>5
<1> QED BY <1>4, <1>5, <1>6 DEF r

(* A deletion that leaves no place behind j to the descriptor keeps what   *)
(* is ahead, although the last place may have moved.                       *)
LEMMA PollDeletedAhead ==
  ASSUME NEW pop, NEW added \in SUBSET Event, PollGood(pop, added), NEW e \in Event,
         PollFinds(pop, e), NEW j \in Nat, NEW n \in Nat, PollAhead(pop, j + 1, n),
         pop.idxplus1_by_fd[ev_fd[e] + 1] <= j,
         \A i \in (j + 1)..n : pop.event_set[i].fd # ev_fd[e]
  PROVE  /\ PollAhead(PollDeleted(pop, e), j + 1, n)
         /\ \A i \in (j + 1)..n : PollDeleted(pop, e).event_set[i] = pop.event_set[i]
         /\ \A f \in Event : PollFinds(pop, f) /\ pop.idxplus1_by_fd[ev_fd[f] + 1] <= j =>
                            PollDeleted(pop, e).idxplus1_by_fd[ev_fd[f] + 1] <= j
<1> DEFINE r == PollDeleted(pop, e)
           x == pop.idxplus1_by_fd
           y == r.idxplus1_by_fd
           l == Len(x)
           h == x[ev_fd[e] + 1]
<1>1. /\ r.event_count = pop.event_count /\ Len(y) = l
      /\ PollPuts(r, pop, e, Null) /\ PollAbove(r, pop, h)
  BY PollDeletedGood
<1>2. /\ pop.event_count \in Nat /\ l \in Nat /\ x \in Seq(Nat)
      /\ pop.event_set \in Seq(Pollfd \cup {Junk})
      /\ pop.event_count <= Len(pop.event_set) /\ Len(pop.event_set) \in Nat
      /\ \A d \in Dir : /\ pop.back[d] \in Seq(Event \cup {Null, Junk})
                        /\ pop.event_count <= Len(pop.back[d]) /\ Len(pop.back[d]) \in Nat
  BY PollBounds
<1>3. h \in Nat /\ h <= j
  <2>1. ev_fd[e] + 1 \in 1..l
    BY <1>2, EventLemma DEF PollFinds
  <2> QED BY <2>1, <1>2
<1> HIDE DEF r, h, x
<1>4. n <= pop.event_count
  BY DEF PollAhead
<1>5. ASSUME NEW i \in (j + 1)..n
      PROVE  /\ i \in Nat /\ i > h /\ i > j /\ i \in DOMAIN pop.event_set
             /\ \A d \in Dir : i \in DOMAIN pop.back[d]
  <2>1. i \in Nat /\ i > h /\ i > j /\ 1 <= i /\ i <= pop.event_count
    BY <1>2, <1>3, <1>4
  <2>2. i \in 1..Len(pop.event_set)
    BY ONLY <2>1, <1>2
  <2>3. ASSUME NEW d \in Dir PROVE i \in 1..Len(pop.back[d])
    <3>1. pop.event_count <= Len(pop.back[d]) /\ Len(pop.back[d]) \in Nat /\ pop.event_count \in Nat
      BY <1>2
    <3> QED BY ONLY <2>1, <3>1
  <2> QED BY <1>2, <2>1, <2>2, <2>3
<1>6. ASSUME NEW i \in (j + 1)..n
      PROVE  r.event_set[i] = pop.event_set[i] /\ \A d \in Dir : r.back[d][i] = pop.back[d][i]
  BY <1>1, <1>5 DEF PollAbove
<1>7. ASSUME NEW k \in 1..l PROVE y[k] = x[k] \/ (y[k] \in Int /\ y[k] <= j)
  <2>1. y[k] = x[k] \/ y[k] <= h
    BY <1>1 DEF PollAbove, x
  <2>2. y[k] \in Nat
    <3>1. PollGood(r, added \ {e})
      BY PollDeletedGood DEF r
    <3>2. y \in Seq(Nat)
      BY <3>1, PollBounds
    <3> QED BY <3>2, <1>1
  <2> QED BY <2>1, <2>2, <1>3
<1>8. ASSUME NEW i \in (j + 1)..n
      PROVE  /\ r.event_set[i] \in Pollfd
             /\ r.event_set[i].fd < Len(y)
             /\ y[r.event_set[i].fd + 1] <= i
             /\ \A d \in Dir : r.back[d][i] = PollSlot(r, r.event_set[i].fd, d)
  <2> DEFINE fd == pop.event_set[i].fd
  <2>1. /\ pop.event_set[i] \in Pollfd /\ fd < l /\ x[fd + 1] <= i /\ fd # ev_fd[e]
        /\ \A d \in Dir : pop.back[d][i] = PollSlot(pop, fd, d)
    BY DEF PollAhead, x
  <2>2. fd \in Fd /\ fd \in Nat
    BY <2>1, EventLemma DEF Pollfd
  <2>3. fd + 1 \in 1..l
    BY <1>2, <2>1, <2>2, SMTT(30) DEF x
  <2> HIDE DEF fd, l
  <2>4. y[fd + 1] <= i
    BY <1>5, <1>7, <2>1, <2>3
  <2>5. \A d \in Dir : PollSlot(r, fd, d) = PollSlot(pop, fd, d)
    BY <1>1, <2>1, <2>2 DEF PollPuts
  <2> QED BY <1>1, <1>6, <2>1, <2>4, <2>5 DEF fd
<1>9. PollAhead(r, j + 1, n)
  BY <1>1, <1>4, <1>8 DEF PollAhead
<1>10. ASSUME NEW f \in Event, PollFinds(pop, f), x[ev_fd[f] + 1] <= j
       PROVE  y[ev_fd[f] + 1] <= j
  <2>1. ev_fd[f] + 1 \in 1..l
    BY <1>2, <1>10, EventLemma DEF PollFinds, x
  <2> HIDE DEF l
  <2> QED BY <1>7, <1>10, <2>1
<1> QED BY <1>6, <1>9, <1>10 DEF r, x

-----------------------------------------------------------------------------
(* event.c above them *)

(* Whichever back end it is. *)
Good(base, added) ==
  /\ evsel = "poll" => PollGood(base, added)
  /\ evsel = "select" => SelectGood(base, added)
  /\ evsel = "epoll" => EpollGood(base, added)

(* The places of a dispatch of poll lie in its arrays. *)
InMemory == evsel = "poll" /\ InLoop => at >= 1 /\ upto <= evbase.event_count

(* The inductive invariant. *)
IInv ==
  /\ evsel \in {"poll", "select", "epoll"}
  /\ Good(evbase, inserted)
  /\ InMemory
  /\ inserted \subseteq Event
  /\ active \in [Event -> SUBSET Dir]
  /\ at \in Nat /\ upto \in Nat

(* The inductive invariant has the two properties in it.                   *)
LEMMA InvariantHolds == IInv => TypeOK /\ TablesAgree
<1> SUFFICES ASSUME IInv PROVE TypeOK /\ TablesAgree
  OBVIOUS
<1>1. CASE evsel = "poll"
  BY <1>1 DEF IInv, Good, PollGood, TypeOK, TablesAgree
<1>2. CASE evsel = "select"
  BY <1>2 DEF IInv, Good, SelectGood, TypeOK, TablesAgree
<1>3. CASE evsel = "epoll"
  BY <1>3 DEF IInv, Good, EpollGood, TypeOK, TablesAgree
<1> QED BY <1>1, <1>2, <1>3 DEF IInv

(* It holds after event_init, whichever back end that chose,               *)
LEMMA InitGood == Init => IInv
<1> SUFFICES ASSUME Init PROVE IInv
  OBVIOUS
<1>1. Good(evbase, {})
  BY PollInitGood, SelectInitGood, EpollInitGood DEF Init, Good
<1>2. active \in [Event -> SUBSET Dir]
  BY DEF Init
<1> QED BY <1>1, <1>2 DEF Init, IInv, InMemory, InLoop

(* after an event_add that succeeds,                                       *)
LEMMA AddGood ==
  ASSUME IInv, NEW e \in Event, Add(e)
  PROVE  IInv'
<1>1. /\ evbase' = Added(e) /\ inserted' = inserted \cup {e} /\ evsel' = evsel /\ active' = active
      /\ at' = at /\ upto' = upto /\ ~ InLoop
  BY DEF Add, Adds
<1>2. Good(Added(e), inserted \cup {e})
  <2>1. CASE evsel = "poll"
    BY <2>1, PollAddedGood DEF IInv, Good, Added
  <2>2. CASE evsel = "select"
    BY <2>2, SelectAddedGood DEF IInv, Good, Added
  <2>3. CASE evsel = "epoll"
    BY <2>3, EpollAddedGood DEF IInv, Good, Added
  <2> QED BY <2>1, <2>2, <2>3 DEF IInv
<1>3. Good(evbase, inserted)'
  BY <1>1, <1>2 DEF Good
<1> QED BY <1>1, <1>3 DEF IInv, InMemory, InLoop

(* after one that fails, at any of its allocations,                        *)
LEMMA AddFailsGood ==
  ASSUME IInv, NEW e \in Event, AddFails(e)
  PROVE  IInv'
<1>1. /\ evbase' \in Failures(e) /\ inserted' = inserted \cup {e} /\ evsel' = evsel /\ active' = active
      /\ at' = at /\ upto' = upto /\ ~ InLoop
  BY DEF AddFails, Adds
<1>2. Good(evbase', inserted)
  <2>1. CASE evsel = "poll"
    BY <1>1, <2>1, PollFailuresGood DEF IInv, Good, Failures
  <2>2. CASE evsel = "select"
    <3>1. evbase' = evbase
      BY <1>1, <2>2 DEF Failures, SelectFailures
    <3> QED BY <2>2, <3>1 DEF IInv, Good
  <2>3. CASE evsel = "epoll"
    <3>1. evbase' = evbase \/ evbase' = EpollRoomy(evbase, ev_fd[e])
      BY <1>1, <2>3 DEF Failures, EpollFailures
    <3>2. ev_fd[e] \in Fd
      BY EventLemma
    <3> QED BY <2>3, <3>1, <3>2, EpollRoomyGood DEF IInv, Good
  <2> QED BY <2>1, <2>2, <2>3 DEF IInv
<1>3. Good(evbase', inserted \cup {e})
  <2>1. inserted \subseteq inserted \cup {e}
    OBVIOUS
  <2> QED BY <1>2, <2>1, PollMore, SelectMore, EpollMore DEF Good
<1>4. Good(evbase, inserted)'
  BY <1>1, <1>3 DEF Good
<1> QED BY <1>1, <1>4 DEF IInv, InMemory, InLoop

(* What poll may be asked to delete without looking behind its table. *)
MayDelete(base, e) == evsel = "poll" => PollFinds(base, e)

(* A deletion leaves the structure good, and the bounds of poll.           *)
LEMMA DeletedGood ==
  ASSUME IInv, NEW base, NEW added \in SUBSET Event, Good(base, added),
         NEW e \in Event, MayDelete(base, e)
  PROVE  /\ Good(Deleted(base, e), added \ {e})
         /\ evsel = "poll" => /\ Deleted(base, e).event_count = base.event_count
                              /\ \A f : PollFinds(base, f) => PollFinds(Deleted(base, e), f)
<1>1. CASE evsel = "poll"
  <2>1. Deleted(base, e) = PollDeleted(base, e) /\ PollGood(base, added) /\ PollFinds(base, e)
    BY <1>1 DEF Good, Deleted, MayDelete
  <2>2. /\ PollGood(PollDeleted(base, e), added \ {e})
        /\ PollDeleted(base, e).event_count = base.event_count
        /\ Len(PollDeleted(base, e).idxplus1_by_fd) = Len(base.idxplus1_by_fd)
    BY <2>1, PollDeletedGood
  <2> QED BY <1>1, <2>1, <2>2 DEF Good, PollFinds
<1>2. CASE evsel = "select"
  BY <1>2, SelectDeletedGood DEF Good, Deleted
<1>3. CASE evsel = "epoll"
  BY <1>3, EpollDeletedGood DEF Good, Deleted
<1> QED BY <1>1, <1>2, <1>3 DEF IInv

(* after event_del,                                                        *)
LEMMA DelGood ==
  ASSUME IInv, NEW e \in Event, Del(e)
  PROVE  IInv'
<1>1. /\ inserted' = inserted \ {e} /\ evsel' = evsel /\ at' = at /\ upto' = upto /\ ~ InLoop
      /\ active' = [active EXCEPT ![e] = {}]
      /\ evbase' = IF e \in inserted THEN Deleted(evbase, e) ELSE evbase
      /\ e \in inserted => MayDelete(evbase, e)
  BY DEF Del, MayDelete
<1>2. Good(evbase', inserted \ {e})
  <2>1. CASE e \in inserted
    <3>1. inserted \in SUBSET Event /\ Good(evbase, inserted)
      BY DEF IInv
    <3> QED BY <1>1, <2>1, <3>1, DeletedGood
  <2>2. CASE e \notin inserted
    <3>1. inserted \ {e} = inserted
      BY <2>2
    <3> QED BY <1>1, <2>2, <3>1 DEF IInv
  <2> QED BY <2>1, <2>2
<1>3. Good(evbase, inserted)'
  BY <1>1, <1>2 DEF Good
<1>4. active' \in [Event -> SUBSET Dir]
  BY <1>1 DEF IInv
<1> QED BY <1>1, <1>3, <1>4 DEF IInv, InMemory, InLoop

(* after the system call of a dispatch,                                    *)
LEMMA WaitGood ==
  ASSUME IInv, Wait
  PROVE  IInv'
<1>1. /\ evbase' \in Waited /\ at' = 1 /\ upto' = Places(evbase') /\ evsel' = evsel
      /\ inserted' = inserted /\ active' = active
  BY DEF Wait
<1>2. \A ready \in [Fd -> Conditions] : ready \in [Fd -> What]
  <2>1. \A c \in Conditions : c \in What
    <3> SUFFICES ASSUME NEW c \in Conditions PROVE c \in What
      OBVIOUS
    <3>1. c \in SUBSET Dir \/ c = {"hup"}
      BY DEF Conditions
    <3> QED BY <3>1 DEF What
  <2> QED BY <2>1
<1>3. CASE evsel = "poll"
  <2>1. PICK ready \in [Fd -> Conditions] : evbase' = PollWaited(evbase, ready)
    BY <1>1, <1>3 DEF Waited
  <2>2. ready \in [Fd -> What] /\ PollGood(evbase, inserted) /\ inserted \in SUBSET Event
    BY <1>2, <1>3 DEF IInv, Good
  <2>3. PollGood(evbase', inserted)
    BY <2>1, <2>2, PollWaitedGood
  <2>4. upto' = evbase'.nfds
    BY <1>1, <1>3 DEF Places, PollPlaces
  <2>5. upto' \in Nat /\ upto' <= evbase'.event_count
    BY <2>3, <2>4, PollBounds
  <2> QED BY <1>1, <1>3, <2>3, <2>5 DEF IInv, Good, InMemory
<1>4. CASE evsel = "select"
  <2>1. PICK ready \in [Fd -> Conditions] : evbase' = SelectWaited(evbase, ready)
    BY <1>1, <1>4 DEF Waited
  <2> DEFINE o == [d \in Dir |-> {fd \in evbase.fdset[d] : d \in Seen(ready[fd])}]
  <2>2. SelectGood(evbase, inserted)
    BY <1>4 DEF IInv, Good
  <2>3. o \in [Dir -> SUBSET Fd]
    BY <2>2 DEF SelectGood, SelectType
  <2>4. evbase' = [evbase EXCEPT !.out = o]
    BY <2>1 DEF SelectWaited
  <2> HIDE DEF o
  <2>5. SelectGood(evbase', inserted)
    BY <2>2, <2>3, <2>4, SelectOutGood
  <2>6. upto' = evbase'.event_fds + 1
    BY <1>1, <1>4 DEF Places, SelectPlaces
  <2>7. upto' \in Nat
    BY <2>5, <2>6 DEF SelectGood, SelectType
  <2> QED BY <1>1, <1>4, <2>5, <2>7 DEF IInv, Good, InMemory
<1>5. CASE evsel = "epoll"
  <2> DEFINE R(ready) == {fd \in Fd : evbase.interest[fd] # {} /\ Ready(evbase, ready, fd) # {}}
             E == [fd : Fd, what : What]
  <2>1. PICK ready \in [Fd -> Conditions] :
          \E order \in SetToSeqs(R(ready)) : evbase' = EpollWaited(evbase, ready, order)
    BY <1>1, <1>5 DEF Waited
  <2>2. PICK order \in SetToSeqs(R(ready)) : evbase' = EpollWaited(evbase, ready, order)
    BY <2>1
  <2>3. EpollGood(evbase, inserted)
    BY <1>5 DEF IInv, Good
  <2>4. IsFiniteSet(Fd)
    <3> DEFINE g == [e \in Event |-> ev_fd[e]]
    <3>1. g \in Surjection(Event, Fd)
      BY DEF Surjection, Fd
    <3> QED BY <3>1, EventAssumption, FS_Surjection
  <2>5. IsFiniteSet(R(ready))
    BY <2>4, FS_Subset
  <2> DEFINE n == Cardinality(R(ready))
             s == [i \in DOMAIN order |-> [fd |-> order[i], what |-> Ready(evbase, ready, order[i])]]
  <2>6. n \in Nat
    BY <2>5, FS_CardinalityType
  <2>7. order \in [1..n -> R(ready)]
    BY DEF SetToSeqs
  <2>8. ASSUME NEW fd \in Fd PROVE Ready(evbase, ready, fd) \in What
    <3>1. ready[fd] \in What
      BY <1>2
    <3>2. Ready(evbase, ready, fd) \subseteq ready[fd]
      BY DEF Ready
    <3> QED BY <3>1, <3>2 DEF What
  <2> HIDE DEF n
  <2>9. s \in [1..n -> E]
    <3>1. \A i \in 1..n : order[i] \in Fd
      BY <2>7
    <3> QED BY <2>7, <2>8, <3>1
  <2>10. s \in Seq(E)
    BY <2>6, <2>9
  <2>11. evbase' = [evbase EXCEPT !.events = s]
    BY <2>2 DEF EpollWaited
  <2> HIDE DEF s, E
  <2>12. EpollGood(evbase', inserted)
    BY <2>3, <2>10, <2>11, EpollEventsGood DEF E
  <2>13. upto' = Len(evbase'.events)
    BY <1>1, <1>5 DEF Places, EpollPlaces
  <2>14. upto' \in Nat
    BY <2>12, <2>13 DEF EpollGood, EpollType
  <2> QED BY <1>1, <1>5, <2>12, <2>14 DEF IInv, Good, InMemory
<1> QED BY <1>3, <1>4, <1>5 DEF IInv

(* What poll finds has a place in its table.                               *)
LEMMA FoundMayBeDeleted ==
  ASSUME IInv, InLoop, at <= upto, NEW d \in Dir, Found(at, d) \in Event
  PROVE  MayDelete(evbase, Found(at, d))
<1> SUFFICES ASSUME evsel = "poll" PROVE PollFinds(evbase, Found(at, d))
  BY DEF MayDelete
<1>1. PollGood(evbase, inserted) /\ at \in Nat /\ at >= 1 /\ upto \in Nat /\ upto <= evbase.event_count
  BY DEF IInv, Good, InMemory
<1>2. Found(at, d) = evbase.back[d][at]
  <2>1. Found(at, d) = IF d \in Seen(evbase.event_set[at].revents) THEN evbase.back[d][at] ELSE Null
    BY DEF Found, PollFound
  <2>2. Found(at, d) # Null
    BY EventLemma
  <2> QED BY <2>1, <2>2
<1>3. at \in DOMAIN evbase.back[d]
  BY <1>1, PollBounds
<1> QED BY <1>1, <1>2, <1>3 DEF PollGood, PollKnown

(* after each turn of its loop, which may delete the events found,         *)
LEMMA TurnGood ==
  ASSUME IInv, Turn
  PROVE  IInv'
<1> DEFINE r == Found(at, "in")
           w == Found(at, "out")
           goes(e) == e \in Event \ Persist
           ins1 == IF goes(r) THEN inserted \ {r} ELSE inserted
           ins2 == IF goes(w) /\ w # r THEN ins1 \ {w} ELSE ins1
           b1 == WithoutRead
           b2 == WithoutBoth
<1>1. /\ InLoop /\ at <= upto /\ evbase' = b2 /\ at' = at + 1 /\ upto' = upto /\ evsel' = evsel
      /\ inserted' = inserted \ (Here \ Persist)
      /\ active' = [e \in Event |->
           IF e \notin Here THEN active[e]
           ELSE IF e \in Persist THEN active[e] \cup Res(e)
           ELSE Res(e)]
  BY DEF Turn
<1>2. b1 = IF goes(r) THEN Deleted(evbase, r) ELSE evbase
  BY DEF WithoutRead
<1>3. b2 = IF goes(w) /\ w # r THEN Deleted(b1, w) ELSE b1
  BY DEF WithoutBoth
<1>4. "in" \in Dir /\ "out" \in Dir /\ \A d \in Dir : d = "in" \/ d = "out"
  BY DEF Dir
<1>5. inserted' = ins2
  <2>1. Here = {r, w} \ {Null}
    <3>1. {Found(at, d) : d \in Dir} = {r, w}
      BY <1>4
    <3> QED BY <3>1 DEF Here
  <2>2. inserted \subseteq Event /\ Null \notin Event
    BY EventAssumption DEF IInv
  <2> HIDE DEF r, w
  <2> QED BY <1>1, <2>1, <2>2
<1>6. /\ goes(r) => MayDelete(evbase, r)
      /\ goes(w) => MayDelete(evbase, w)
  BY <1>1, <1>4, FoundMayBeDeleted
<1> HIDE DEF r, w, b1, b2
<1>7. Good(evbase, inserted) /\ inserted \in SUBSET Event /\ ins1 \in SUBSET Event
  BY DEF IInv
<1>8. /\ Good(b1, ins1)
      /\ evsel = "poll" => b1.event_count = evbase.event_count
      /\ goes(w) => MayDelete(b1, w)
  <2>1. CASE goes(r)
    <3>1. r \in Event /\ MayDelete(evbase, r) /\ b1 = Deleted(evbase, r) /\ ins1 = inserted \ {r}
      BY <1>2, <1>6, <2>1
    <3>2. /\ Good(b1, ins1)
          /\ evsel = "poll" => /\ b1.event_count = evbase.event_count
                               /\ \A f : PollFinds(evbase, f) => PollFinds(b1, f)
      BY <1>7, <3>1, DeletedGood
    <3> QED BY <1>6, <3>2 DEF MayDelete
  <2>2. CASE ~ goes(r)
    <3>1. b1 = evbase /\ ins1 = inserted
      BY <1>2, <2>2
    <3> QED BY <1>6, <1>7, <3>1
  <2> QED BY <2>1, <2>2
<1> HIDE DEF ins1
<1>9. /\ Good(b2, ins2)
      /\ evsel = "poll" => b2.event_count = evbase.event_count
  <2>1. CASE goes(w) /\ w # r
    <3>1. w \in Event /\ MayDelete(b1, w) /\ b2 = Deleted(b1, w) /\ ins2 = ins1 \ {w}
      BY <1>3, <1>8, <2>1
    <3>2. /\ Good(b2, ins2)
          /\ evsel = "poll" => b2.event_count = b1.event_count
      BY <1>7, <1>8, <3>1, DeletedGood
    <3> QED BY <1>8, <3>2
  <2>2. CASE ~ (goes(w) /\ w # r)
    <3>1. b2 = b1 /\ ins2 = ins1
      BY <1>3, <2>2
    <3> QED BY <1>8, <3>1
  <2> QED BY <2>1, <2>2
<1> HIDE DEF ins2
<1>10. Good(evbase, inserted)'
  BY <1>1, <1>5, <1>9 DEF Good
<1>11. active' \in [Event -> SUBSET Dir]
  <2>1. active \in [Event -> SUBSET Dir] /\ \A e \in Event : Res(e) \subseteq Dir
    BY DEF IInv, Res
  <2>2. ASSUME NEW e \in Event
        PROVE  (IF e \notin Here THEN active[e]
                ELSE IF e \in Persist THEN active[e] \cup Res(e) ELSE Res(e)) \in SUBSET Dir
    BY <2>1
  <2> QED BY <1>1, <2>2
<1>12. inserted' \subseteq Event
  BY <1>1, <1>7
<1>13. InMemory' /\ at' \in Nat /\ upto' \in Nat
  <2>1. at \in Nat /\ upto \in Nat /\ (evsel = "poll" => upto <= evbase.event_count)
    BY <1>1 DEF IInv, InMemory
  <2> QED BY <1>1, <1>9, <2>1 DEF InMemory
<1> QED BY <1>1, <1>10, <1>11, <1>12, <1>13 DEF IInv

(* after its end,                                                          *)
LEMMA ReturnGood ==
  ASSUME IInv, Return
  PROVE  IInv'
<1>1. /\ evbase' = Forgot /\ at' = 0 /\ upto' = 0 /\ evsel' = evsel /\ inserted' = inserted
      /\ active' = active
  BY DEF Return
<1>2. Good(Forgot, inserted)
  <2>1. CASE evsel = "poll"
    BY <2>1, PollForgotGood DEF IInv, Good, Forgot
  <2>2. CASE evsel = "select"
    <3> DEFINE o == [d \in Dir |-> {}]
    <3>1. o \in [Dir -> SUBSET Fd] /\ Forgot = [evbase EXCEPT !.out = o]
      BY <2>2 DEF Forgot
    <3> HIDE DEF o
    <3>2. SelectGood(Forgot, inserted)
      BY <2>2, <3>1, SelectOutGood DEF IInv, Good
    <3> QED BY <2>2, <3>2 DEF Good
  <2>3. CASE evsel = "epoll"
    <3>1. <<>> \in Seq([fd : Fd, what : What]) /\ Forgot = [evbase EXCEPT !.events = <<>>]
      BY <2>3 DEF Forgot
    <3>2. EpollGood(Forgot, inserted)
      BY <2>3, <3>1, EpollEventsGood DEF IInv, Good
    <3> QED BY <2>3, <3>2 DEF Good
  <2> QED BY <2>1, <2>2, <2>3 DEF IInv
<1>3. Good(evbase, inserted)'
  BY <1>1, <1>2 DEF Good
<1> QED BY <1>1, <1>3 DEF IInv, InMemory, InLoop

(* and when the callback of an event is called.                            *)
LEMMA RunGood ==
  ASSUME IInv, NEW e \in Event, Run(e)
  PROVE  IInv'
<1>1. UNCHANGED <<evsel, evbase, inserted, at, upto>> /\ active' = [active EXCEPT ![e] = {}]
  BY DEF Run
<1> QED BY <1>1 DEF IInv, Good, InMemory, InLoop

(* So it is inductive.                                                     *)
LEMMA StepGood == IInv /\ [Next]_vars => IInv'
<1> SUFFICES ASSUME IInv, [Next]_vars PROVE IInv'
  OBVIOUS
<1>1. CASE UNCHANGED vars
  BY <1>1 DEF vars, IInv, Good, InMemory, InLoop
<1>2. ASSUME NEW e \in Event, Add(e) \/ AddFails(e) \/ Del(e) \/ Run(e) PROVE IInv'
  BY <1>2, AddGood, AddFailsGood, DelGood, RunGood
<1>3. CASE Wait \/ Turn \/ Return
  BY <1>3, WaitGood, TurnGood, ReturnGood
<1> QED BY <1>1, <1>2, <1>3 DEF Next

(* The inductive invariant holds: the structure of the back end is good at *)
(* every step of event_add, event_del and of a dispatch, and what a        *)
(* dispatch of poll has yet to look at lies within its arrays.             *)
THEOREM BackendsInvariant == Spec => []IInv
BY InitGood, StepGood, PTL DEF Spec

(* Type correctness: every place in use of poll.c, select.c and epoll.c    *)
(* lies in their arrays, through the growth of these and allocations that  *)
(* fail, for every set of events and all sizes.                            *)
THEOREM BackendsTypeCorrect == Spec => []TypeOK
BY BackendsInvariant, InvariantHolds, PTL

(* The tables agree with each other, with what the kernel is told and with *)
(* the inserted events, at every turn of a dispatch.                       *)
THEOREM BackendsTablesAgree == Spec => []TablesAgree
BY BackendsInvariant, InvariantHolds, PTL

-----------------------------------------------------------------------------
(* The contract of EvDemux.  One view of the three structures: pointers    *)
(* that lead from descriptors to events, and places that tell which        *)
(* descriptor is ready for what.                                           *)

Slot(base, fd, d) ==
  CASE evsel = "poll"   -> PollSlot(base, fd, d)
    [] evsel = "select" -> SelectSlot(base, fd, d)
    [] evsel = "epoll"  -> EpollSlot(base, fd, d)

FdAt(base, i) ==
  CASE evsel = "poll"   -> base.event_set[i].fd
    [] evsel = "select" -> i - 1
    [] evsel = "epoll"  -> base.events[i].fd

SeenAt(base, i) ==
  CASE evsel = "poll"   -> Seen(base.event_set[i].revents)
    [] evsel = "select" -> {d \in Dir : i - 1 \in base.out[d]}
    [] evsel = "epoll"  -> Seen(base.events[i].what)

(* What Found and Watched say of any structure. *)
FoundIn(base, i, d) ==
  CASE evsel = "poll"   -> PollFound(base, i, d)
    [] evsel = "select" -> SelectFound(base, i, d)
    [] evsel = "epoll"  -> EpollFound(base, i, d)

WatchedIn(base, e) ==
  CASE evsel = "poll"   -> PollWatched(base, e)
    [] evsel = "select" -> SelectWatched(base, e)
    [] evsel = "epoll"  -> EpollWatched(base, e)

(* All the pointers e wants lead to it. *)
Holds(base, e) == \A d \in ev_events[e] : Slot(base, ev_fd[e], d) = e

(* The same pointers lead from the same descriptors. *)
Keeps(r, base) == \A fd \in Fd, d \in Dir : Slot(r, fd, d) = Slot(base, fd, d)

(* The pointers of e have become v, and no others have changed. *)
Puts(r, base, e, v) ==
  \A fd \in Fd, d \in Dir :
    Slot(r, fd, d) = IF fd = ev_fd[e] /\ d \in ev_events[e] THEN v ELSE Slot(base, fd, d)

(* No pointer leads to an event of D any more. *)
Drops(r, base, D) ==
  \A fd \in Fd, d \in Dir :
    Slot(r, fd, d) = IF Slot(base, fd, d) \in D THEN Null ELSE Slot(base, fd, d)

(* The places from j to n can be looked at, and each has a descriptor of   *)
(* its own.                                                                *)
Ahead(base, j, n) ==
  /\ evsel = "poll" => PollAhead(base, j, n)
  /\ evsel = "select" => n = base.event_fds + 1
  /\ evsel = "epoll" => /\ n = Len(base.events)
                        /\ \A i \in j..n : base.events[i].fd < Len(base.fds)
  /\ \A i, k \in j..n : FdAt(base, i) = FdAt(base, k) => i = k

(* The places tell of every pointer whether its descriptor is ready.       *)
Tells(r, n, seen) ==
  \A fd \in Fd, d \in Dir :
    Slot(r, fd, d) # Null =>
      (d \in seen[fd] <=> \E i \in 1..n : FdAt(r, i) = fd /\ d \in SeenAt(r, i))

(* The place of the descriptor of e, in the arrays of poll, is not behind  *)
(* place j.                                                                *)
Behind(base, e, j) == evsel = "poll" => base.idxplus1_by_fd[ev_fd[e] + 1] <= j

Sel == evsel \in {"poll", "select", "epoll"}

(* A pointer leads to an event that was added, of the descriptor and the   *)
(* direction.                                                              *)
LEMMA SlotLemma ==
  ASSUME Sel, NEW base, NEW added \in SUBSET Event, Good(base, added), NEW fd \in Fd, NEW d \in Dir,
         NEW e, e = Slot(base, fd, d), e # Null
  PROVE  e \in added /\ ev_fd[e] = fd /\ d \in ev_events[e]
<1>1. CASE evsel = "poll"
  BY <1>1, PollSlotLemma DEF Good, Slot
<1>2. CASE evsel = "select"
  BY <1>2, SelectSlotLemma DEF Good, Slot
<1>3. CASE evsel = "epoll"
  BY <1>3, EpollSlotLemma DEF Good, Slot
<1> QED BY <1>1, <1>2, <1>3 DEF Sel

(* An event is watched when all pointers it wants lead to it.              *)
LEMMA WatchedLemma ==
  ASSUME Sel, NEW base, NEW added \in SUBSET Event, Good(base, added), NEW e \in Event
  PROVE  WatchedIn(base, e) <=> Holds(base, e)
<1>1. CASE evsel = "poll"
  <2>1. PollWatched(base, e) <=> \A d \in ev_events[e] : PollSlot(base, ev_fd[e], d) = e
    BY <1>1, PollWatchedLemma DEF Good
  <2> QED BY <1>1, <2>1 DEF WatchedIn, Holds, Slot
<1>2. CASE evsel = "select"
  <2>1. SelectWatched(base, e) <=> \A d \in ev_events[e] : SelectSlot(base, ev_fd[e], d) = e
    BY <1>2, SelectWatchedLemma DEF Good
  <2> QED BY <1>2, <2>1 DEF WatchedIn, Holds, Slot
<1>3. CASE evsel = "epoll"
  <2>1. EpollWatched(base, e) <=> \A d \in ev_events[e] : EpollSlot(base, ev_fd[e], d) = e
    BY <1>3, EpollWatchedLemma DEF Good
  <2> QED BY <1>3, <2>1 DEF WatchedIn, Holds, Slot
<1> QED BY <1>1, <1>2, <1>3 DEF Sel

(* event_add writes the pointers of the event,                             *)
LEMMA AddedPuts ==
  ASSUME Sel, NEW added \in SUBSET Event, Good(evbase, added), NEW e \in Event
  PROVE  Puts(Added(e), evbase, e, e)
<1>1. CASE evsel = "poll"
  BY <1>1, PollAddedGood, ZenonT(30) DEF Good, Added, Puts, PollPuts, Slot
<1>2. CASE evsel = "select"
  BY <1>2, SelectAddedGood, ZenonT(30) DEF Good, Added, Puts, SelectPuts, Slot
<1>3. CASE evsel = "epoll"
  BY <1>3, EpollAddedGood, ZenonT(30) DEF Good, Added, Puts, EpollPuts, Slot
<1> QED BY <1>1, <1>2, <1>3 DEF Sel

(* none when it fails,                                                     *)
LEMMA FailuresKeep ==
  ASSUME Sel, NEW added \in SUBSET Event, Good(evbase, added), NEW e \in Event, NEW r \in Failures(e)
  PROVE  Keeps(r, evbase)
<1>1. CASE evsel = "poll"
  BY <1>1, PollFailuresGood DEF Good, Failures, Keeps, PollKeeps, Slot
<1>2. CASE evsel = "select"
  <2>1. r = evbase
    BY <1>2 DEF Failures, SelectFailures
  <2> QED BY <2>1 DEF Keeps
<1>3. CASE evsel = "epoll"
  <2>1. r = evbase \/ r = EpollRoomy(evbase, ev_fd[e])
    BY <1>3 DEF Failures, EpollFailures
  <2>2. ev_fd[e] \in Fd
    BY EventLemma
  <2>3. EpollKeeps(r, evbase)
    <3>1. CASE r = evbase
      BY <3>1 DEF EpollKeeps
    <3>2. CASE r = EpollRoomy(evbase, ev_fd[e])
      BY <1>3, <2>2, <3>2, EpollRoomyGood DEF Good
    <3> QED BY <2>1, <3>1, <3>2
  <2> QED BY <1>3, <2>3 DEF Keeps, EpollKeeps, Slot
<1> QED BY <1>1, <1>2, <1>3 DEF Sel

(* and event_del clears them,                                              *)
LEMMA DeletedPuts ==
  ASSUME Sel, NEW base, NEW added \in SUBSET Event, Good(base, added), NEW e \in Event,
         MayDelete(base, e)
  PROVE  Puts(Deleted(base, e), base, e, Null)
<1>1. CASE evsel = "poll"
  BY <1>1, PollDeletedGood, ZenonT(30) DEF Good, MayDelete, Deleted, Puts, PollPuts, Slot
<1>2. CASE evsel = "select"
  <2>1. SelectPuts(SelectDeleted(base, e), base, e, Null)
    BY <1>2, SelectDeletedGood DEF Good
  <2> QED BY <1>2, <2>1 DEF Deleted, Puts, SelectPuts, Slot
<1>3. CASE evsel = "epoll"
  BY <1>3, EpollDeletedGood, ZenonT(30) DEF Good, Deleted, Puts, EpollPuts, Slot
<1> QED BY <1>1, <1>2, <1>3 DEF Sel

(* which drops the event alone when all its pointers led to it.            *)
LEMMA DeletedDrops ==
  ASSUME Sel, NEW base, NEW added \in SUBSET Event, Good(base, added), NEW e \in Event,
         MayDelete(base, e), Holds(base, e)
  PROVE  Drops(Deleted(base, e), base, {e})
<1> SUFFICES ASSUME NEW fd \in Fd, NEW d \in Dir
             PROVE  Slot(Deleted(base, e), fd, d) = IF Slot(base, fd, d) = e THEN Null ELSE Slot(base, fd, d)
  BY DEF Drops
<1>1. Slot(Deleted(base, e), fd, d) = IF fd = ev_fd[e] /\ d \in ev_events[e] THEN Null ELSE Slot(base, fd, d)
  BY DeletedPuts DEF Puts
<1>2. fd = ev_fd[e] /\ d \in ev_events[e] => Slot(base, fd, d) = e
  BY DEF Holds
<1>3. Slot(base, fd, d) = e => fd = ev_fd[e] /\ d \in ev_events[e]
  BY SlotLemma, EventLemma
<1> QED BY <1>1, <1>2, <1>3

(* A place leads to what the pointers of its descriptor lead to, for the   *)
(* directions that were seen.                                              *)
LEMMA FoundLemma ==
  ASSUME Sel, NEW base, NEW added, Good(base, added), NEW j \in Nat, j >= 1, NEW n \in Nat,
         Ahead(base, j, n), NEW i \in j..n, NEW d \in Dir
  PROVE  /\ FoundIn(base, i, d) = IF d \in SeenAt(base, i) THEN Slot(base, FdAt(base, i), d) ELSE Null
         /\ d \in SeenAt(base, i) => FdAt(base, i) \in Fd
<1>1. CASE evsel = "poll"
  <2>1. base.event_set[i] \in Pollfd /\ base.back[d][i] = PollSlot(base, base.event_set[i].fd, d)
    BY <1>1 DEF Ahead, PollAhead
  <2> QED BY <1>1, <2>1 DEF FoundIn, PollFound, SeenAt, FdAt, Slot, Pollfd
<1>2. CASE evsel = "select"
  <2> DEFINE l == base.event_fdsz * NFDBITS
  <2>1. /\ base.event_fds \in Nat /\ base.event_fds < l /\ l \in Nat
        /\ DOMAIN base.by_fd[d] = 1..l /\ base.out[d] \subseteq Fd
    BY <1>2, SelectAssumption DEF Good, SelectGood, SelectType
  <2>2. n = base.event_fds + 1
    BY <1>2 DEF Ahead
  <2> HIDE DEF l
  <2>3. i \in 1..l /\ (i - 1) + 1 = i
    BY <2>1, <2>2
  <2>4. i - 1 \notin base.fdset[d] => base.by_fd[d][i] = Null
    BY <1>2, <2>1, <2>3 DEF Good, SelectGood, SelectAgrees
  <2> QED BY <1>2, <2>1, <2>3, <2>4 DEF FoundIn, SelectFound, SeenAt, FdAt, Slot, SelectSlot
<1>3. CASE evsel = "epoll"
  <2>1. base.events[i].fd < Len(base.fds) /\ n = Len(base.events)
    BY <1>3 DEF Ahead
  <2>2. base.events[i].fd \in Fd
    <3> DEFINE s == base.events
               E == [fd : Fd, what : What]
    <3>1. s \in Seq(E)
      BY <1>3 DEF Good, EpollGood, EpollType
    <3>2. n = Len(s)
      BY <2>1
    <3> HIDE DEF s, E
    <3>3. i \in 1..Len(s)
      BY <3>1, <3>2
    <3>4. s[i] \in E
      BY <3>1, <3>3
    <3> QED BY <3>4 DEF s, E
  <2> QED BY <1>3, <2>1, <2>2 DEF FoundIn, EpollFound, SeenAt, FdAt, Slot, EpollSlot
<1> QED BY <1>1, <1>2, <1>3 DEF Sel

(* The places from j to n tell the same. *)
SamePlaces(r, base, j, n) ==
  \A i \in j..n : FdAt(r, i) = FdAt(base, i) /\ SeenAt(r, i) = SeenAt(base, i)

(* The deletion of an event of a place that was looked at keeps what is    *)
(* ahead: in poll the last place may move, but not to one ahead.           *)
LEMMA DeletedAhead ==
  ASSUME Sel, NEW base, NEW added \in SUBSET Event, Good(base, added), NEW e \in Event,
         MayDelete(base, e), NEW j \in Nat, NEW n \in Nat, Ahead(base, j + 1, n),
         Behind(base, e, j), \A i \in (j + 1)..n : FdAt(base, i) # ev_fd[e]
  PROVE  /\ Ahead(Deleted(base, e), j + 1, n)
         /\ SamePlaces(Deleted(base, e), base, j + 1, n)
         /\ \A f \in Event : MayDelete(base, f) /\ Behind(base, f, j) => Behind(Deleted(base, e), f, j)
<1> DEFINE r == Deleted(base, e)
<1>1. \A i, k \in (j + 1)..n : FdAt(base, i) = FdAt(base, k) => i = k
  BY DEF Ahead
<1>2. CASE evsel = "poll"
  <2>1. /\ PollGood(base, added) /\ PollFinds(base, e) /\ PollAhead(base, j + 1, n)
        /\ base.idxplus1_by_fd[ev_fd[e] + 1] <= j
        /\ \A i \in (j + 1)..n : base.event_set[i].fd # ev_fd[e]
        /\ r = PollDeleted(base, e)
    BY <1>2 DEF Good, MayDelete, Ahead, Behind, FdAt, Deleted
  <2> HIDE DEF r
  <2>2. /\ PollAhead(r, j + 1, n)
        /\ \A i \in (j + 1)..n : r.event_set[i] = base.event_set[i]
        /\ \A f \in Event : PollFinds(base, f) /\ base.idxplus1_by_fd[ev_fd[f] + 1] <= j =>
                            r.idxplus1_by_fd[ev_fd[f] + 1] <= j
    BY <2>1, PollDeletedAhead
  <2>3. SamePlaces(r, base, j + 1, n)
    BY <1>2, <2>2 DEF SamePlaces, FdAt, SeenAt
  <2>4. Ahead(r, j + 1, n)
    BY <1>1, <1>2, <2>2, <2>3 DEF Ahead, SamePlaces
  <2> QED BY <1>2, <2>2, <2>3, <2>4 DEF MayDelete, Behind, r
<1>3. CASE evsel = "select"
  <2>1. r.event_fds = base.event_fds /\ r.out = base.out
    BY <1>3, SelectDeletedGood DEF Good, Deleted
  <2> HIDE DEF r
  <2>2. SamePlaces(r, base, j + 1, n)
    BY <1>3, <2>1 DEF SamePlaces, FdAt, SeenAt
  <2>3. Ahead(r, j + 1, n)
    BY <1>1, <1>3, <2>1, <2>2 DEF Ahead, SamePlaces
  <2> QED BY <1>3, <2>2, <2>3 DEF Behind, r
<1>4. CASE evsel = "epoll"
  <2>1. r.events = base.events /\ Len(r.fds) = Len(base.fds)
    BY <1>4, EpollDeletedGood DEF Good, Deleted
  <2> HIDE DEF r
  <2>2. SamePlaces(r, base, j + 1, n)
    BY <1>4, <2>1 DEF SamePlaces, FdAt, SeenAt
  <2>3. Ahead(r, j + 1, n)
    BY <1>1, <1>4, <2>1, <2>2 DEF Ahead, SamePlaces
  <2> QED BY <1>4, <2>2, <2>3 DEF Behind, r
<1> QED BY <1>2, <1>3, <1>4 DEF Sel

(* The end of a dispatch changes no pointers. *)
LEMMA ForgotKeeps ==
  ASSUME Sel, NEW added \in SUBSET Event, Good(evbase, added)
  PROVE  Keeps(Forgot, evbase)
<1>1. CASE evsel = "poll"
  BY <1>1, PollForgotGood DEF Good, Forgot, Keeps, PollKeeps, Slot
<1>2. CASE evsel = "select"
  <2> DEFINE o == [d \in Dir |-> {}]
  <2>1. o \in [Dir -> SUBSET Fd] /\ Forgot = [evbase EXCEPT !.out = o]
    BY <1>2 DEF Forgot
  <2> HIDE DEF o
  <2>2. SelectKeeps(Forgot, evbase)
    BY <1>2, <2>1, SelectOutGood DEF Good
  <2> QED BY <1>2, <2>2 DEF Keeps, SelectKeeps, Slot
<1>3. CASE evsel = "epoll"
  <2>1. <<>> \in Seq([fd : Fd, what : What]) /\ Forgot = [evbase EXCEPT !.events = <<>>]
    BY <1>3 DEF Forgot
  <2>2. EpollKeeps(Forgot, evbase)
    BY <1>3, <2>1, EpollEventsGood DEF Good
  <2> QED BY <1>3, <2>2 DEF Keeps, EpollKeeps, Slot
<1> QED BY <1>1, <1>2, <1>3 DEF Sel

(* What the kernel may say is what a descriptor may be ready for. *)
LEMMA ConditionsLemma == [Fd -> Conditions] \subseteq [Fd -> What]
<1>1. ASSUME NEW c \in Conditions PROVE c \in What
  <2>1. c \in SUBSET Dir \/ c = {"hup"}
    BY DEF Conditions
  <2> QED BY <2>1 DEF What
<1> QED BY <1>1

(* After the system call every place is ahead, and the places tell of      *)
(* every pointer whether its descriptor is ready: in poll,                 *)
LEMMA PollWaitTells ==
  ASSUME evsel = "poll", NEW added \in SUBSET Event, Good(evbase, added),
         NEW ready \in [Fd -> Conditions], NEW seen, seen = [fd \in Fd |-> Seen(ready[fd])],
         NEW r, r = PollWaited(evbase, ready)
  PROVE  /\ Ahead(r, 1, Places(r)) /\ Keeps(r, evbase) /\ Tells(r, Places(r), seen)
<1> DEFINE n == evbase.nfds
<1>1. PollGood(evbase, added) /\ ready \in [Fd -> What]
  BY ConditionsLemma DEF Good
<1>2. PollKeeps(r, evbase) /\ Places(r) = n
  BY <1>1, PollWaitedGood DEF Places, PollPlaces
<1>3. /\ PollAhead(r, 1, n)
      /\ \A i, k \in 1..n : r.event_set[i].fd = r.event_set[k].fd => i = k
      /\ PollTells(r, n, ready)
  BY <1>1, PollWaitedAhead
<1> HIDE DEF n
<1>4. Ahead(r, 1, n)
  BY <1>3 DEF Ahead, FdAt
<1>5. Keeps(r, evbase)
  BY <1>2 DEF Keeps, PollKeeps, Slot
<1>6. Tells(r, n, seen)
  BY <1>3 DEF Tells, PollTells, Slot, FdAt, SeenAt
<1> QED BY <1>2, <1>4, <1>5, <1>6

(* in select,                                                              *)
LEMMA SelectWaitTells ==
  ASSUME evsel = "select", NEW added \in SUBSET Event, Good(evbase, added),
         NEW ready \in [Fd -> Conditions], NEW seen, seen = [fd \in Fd |-> Seen(ready[fd])],
         NEW r, r = SelectWaited(evbase, ready)
  PROVE  /\ Ahead(r, 1, Places(r)) /\ Keeps(r, evbase) /\ Tells(r, Places(r), seen)
<1> DEFINE o == [d \in Dir |-> {fd \in evbase.fdset[d] : d \in Seen(ready[fd])}]
<1>1. SelectGood(evbase, added)
  BY DEF Good
<1>2. o \in [Dir -> SUBSET Fd] /\ \A d \in Dir : evbase.fdset[d] \subseteq Fd
  BY <1>1 DEF SelectGood, SelectType
<1>3. r = [evbase EXCEPT !.out = o]
  BY DEF SelectWaited
<1>4. \A d \in Dir, fd \in Fd : fd \in o[d] <=> fd \in evbase.fdset[d] /\ d \in seen[fd]
  BY <1>2
<1> HIDE DEF o
<1>5. SelectGood(r, added) /\ SelectKeeps(r, evbase) /\ r.out = o
  BY <1>1, <1>2, <1>3, SelectOutGood
<1> DEFINE m == r.event_fds
<1>6. Places(r) = m + 1 /\ m \in Nat
  BY <1>5 DEF Places, SelectPlaces, SelectGood, SelectType
<1>7. Ahead(r, 1, m + 1)
  BY <1>6 DEF Ahead, FdAt
<1>8. Keeps(r, evbase)
  BY <1>5 DEF Keeps, SelectKeeps, Slot
<1>9. Tells(r, m + 1, seen)
  <2> SUFFICES ASSUME NEW fd \in Fd, NEW d \in Dir, Slot(r, fd, d) # Null
               PROVE  d \in seen[fd] <=> \E i \in 1..(m + 1) : FdAt(r, i) = fd /\ d \in SeenAt(r, i)
    BY DEF Tells
  <2>1. SelectSlot(evbase, fd, d) # Null /\ SelectSlot(r, fd, d) # Null
    BY <1>5 DEF Slot, SelectKeeps
  <2>2. fd \in evbase.fdset[d] /\ fd \in r.fdset[d]
    BY <2>1 DEF SelectSlot
  <2>3. fd <= m /\ fd \in Nat
    BY <1>5, <2>2, EventLemma DEF SelectGood, SelectAgrees
  <2> HIDE DEF m
  <2>4. fd + 1 \in 1..(m + 1) /\ (fd + 1) - 1 = fd
    BY <1>6, <2>3
  <2>5. \A i \in 1..(m + 1) : FdAt(r, i) = i - 1 /\ (d \in SeenAt(r, i) <=> i - 1 \in o[d])
    BY <1>5 DEF FdAt, SeenAt
  <2>6. d \in seen[fd] <=> fd \in o[d]
    BY <1>4, <2>2
  <2> QED BY <2>4, <2>5, <2>6
<1> QED BY <1>6, <1>7, <1>8, <1>9

(* and in epoll, which returns the descriptors in any order.               *)
LEMMA EpollWaitTells ==
  ASSUME evsel = "epoll", NEW added \in SUBSET Event, Good(evbase, added),
         NEW ready \in [Fd -> Conditions], NEW seen, seen = [fd \in Fd |-> Seen(ready[fd])],
         NEW R, R = {fd \in Fd : evbase.interest[fd] # {} /\ Ready(evbase, ready, fd) # {}},
         NEW order \in SetToSeqs(R), NEW r, r = EpollWaited(evbase, ready, order)
  PROVE  /\ Ahead(r, 1, Places(r)) /\ Keeps(r, evbase) /\ Tells(r, Places(r), seen)
<1> DEFINE n == Cardinality(R)
           E == [fd : Fd, what : What]
           s == [i \in DOMAIN order |-> [fd |-> order[i], what |-> Ready(evbase, ready, order[i])]]
<1>1. EpollGood(evbase, added) /\ ready \in [Fd -> What]
  BY ConditionsLemma DEF Good
<1>2. IsFiniteSet(R) /\ n \in Nat
  <2> DEFINE g == [e \in Event |-> ev_fd[e]]
  <2>1. g \in Surjection(Event, Fd)
    BY DEF Surjection, Fd
  <2>2. IsFiniteSet(Fd)
    BY <2>1, EventAssumption, FS_Surjection
  <2> QED BY <2>2, FS_Subset, FS_CardinalityType
<1>3. order \in [1..n -> R] /\ \A i, k \in 1..n : order[i] = order[k] => i = k
  <2>1. order \in [1..n -> R] /\ \A i, k \in 1..n : i # k => order[i] # order[k]
    BY DEF SetToSeqs
  <2> HIDE DEF n
  <2> QED BY <2>1
<1> HIDE DEF n
<1>4. \A fd \in R : \E i \in 1..n : order[i] = fd
  <2>1. order \in Injection(1..n, R)
    BY <1>3 DEF Injection, IsInjective
  <2>2. Cardinality(1..n) = n
    <3>1. 1 \in Int /\ n \in Int
      BY <1>2
    <3>2. Cardinality(1..n) = IF 1 > n THEN 0 ELSE n - 1 + 1
      BY <3>1, FS_Interval
    <3> QED BY <1>2, <3>2
  <2>3. order \in Surjection(1..n, R)
    BY <1>2, <2>1, <2>2, FS_Injection DEF n
  <2> QED BY <2>3 DEF Surjection
<1>5. ASSUME NEW fd \in Fd PROVE Ready(evbase, ready, fd) \in What
  <2>1. ready[fd] \in What
    BY <1>1
  <2>2. Ready(evbase, ready, fd) \subseteq ready[fd]
    BY DEF Ready
  <2> QED BY <2>1, <2>2 DEF What
<1>6. \A i \in 1..n : /\ order[i] \in R /\ order[i] \in Fd
                      /\ s[i] \in E
                      /\ s[i].fd = order[i] /\ s[i].what = Ready(evbase, ready, order[i])
  <2>1. \A i \in 1..n : order[i] \in R /\ order[i] \in Fd
    BY <1>3
  <2> QED BY <1>3, <1>5, <2>1
<1>7. s \in [1..n -> E]
  BY <1>3, <1>6
<1>8. r = [evbase EXCEPT !.events = s]
  BY DEF EpollWaited
<1> HIDE DEF s, E
<1>9. s \in Seq(E) /\ Len(s) = n
  <2>1. s \in Seq(E)
    BY <1>2, <1>7
  <2>2. DOMAIN s = 1..n
    BY <1>7
  <2> QED BY <1>2, <2>1, <2>2
<1>10. EpollKeeps(r, evbase) /\ r.events = s /\ r.fds = evbase.fds
  <2>1. s \in Seq([fd : Fd, what : What])
    BY <1>9 DEF E
  <2>2. /\ EpollKeeps([evbase EXCEPT !.events = s], evbase)
        /\ [evbase EXCEPT !.events = s].events = s
        /\ [evbase EXCEPT !.events = s].fds = evbase.fds
    BY <1>1, <2>1, EpollEventsGood
  <2> QED BY <1>8, <2>2
<1>11. Places(r) = n
  BY <1>9, <1>10 DEF Places, EpollPlaces
<1>12. \A i \in 1..n : FdAt(r, i) = order[i] /\ SeenAt(r, i) = Seen(Ready(evbase, ready, order[i]))
  BY <1>6, <1>10 DEF FdAt, SeenAt
<1>13. Ahead(r, 1, n)
  <2>1. ASSUME NEW i \in 1..n PROVE r.events[i].fd < Len(r.fds)
    <3>1. order[i] \in Fd /\ evbase.interest[order[i]] # {} /\ r.events[i].fd = order[i]
      BY <1>6, <1>10
    <3>2. order[i] < Len(evbase.fds)
      BY <1>1, <3>1 DEF EpollGood, EpollAgrees
    <3> QED BY <1>10, <3>1, <3>2
  <2>2. n = Len(r.events)
    BY <1>9, <1>10
  <2> QED BY <1>3, <1>12, <2>1, <2>2 DEF Ahead
<1>14. Keeps(r, evbase)
  BY <1>10 DEF Keeps, EpollKeeps, Slot
<1>15. Tells(r, n, seen)
  <2> SUFFICES ASSUME NEW fd \in Fd, NEW d \in Dir, Slot(r, fd, d) # Null
               PROVE  d \in seen[fd] <=> \E i \in 1..n : FdAt(r, i) = fd /\ d \in SeenAt(r, i)
    BY DEF Tells
  <2>1. EpollSlot(evbase, fd, d) # Null
    BY <1>10 DEF Slot, EpollKeeps
  <2>2. d \in evbase.interest[fd]
    BY <1>1, <2>1, EpollSlotLemma
  <2>3. d # "hup"
    BY DEF Dir
  <2>4. d \in Seen(Ready(evbase, ready, fd)) <=> d \in Seen(ready[fd])
    BY <2>2, <2>3 DEF Seen, Ready
  <2>5. d \in Seen(Ready(evbase, ready, fd)) => fd \in R
    BY <2>2 DEF Seen
  <2>6. seen[fd] = Seen(ready[fd])
    OBVIOUS
  <2> QED BY <1>4, <1>12, <2>4, <2>5, <2>6
<1> QED BY <1>11, <1>13, <1>14, <1>15

(* Whichever it is, some descriptors were found ready.                     *)
LEMMA WaitTells ==
  ASSUME IInv, Wait
  PROVE  \E seen \in [Fd -> SUBSET Dir] :
           Ahead(evbase', 1, upto') /\ Keeps(evbase', evbase) /\ Tells(evbase', upto', seen)
<1>1. evbase' \in Waited /\ evsel' = evsel
  BY DEF Wait
<1>2. upto' = Places(evbase')
  BY DEF Wait
<1>3. inserted \in SUBSET Event /\ Good(evbase, inserted) /\ Sel
  BY DEF IInv, Sel
<1> DEFINE seen(ready) == [fd \in Fd |-> Seen(ready[fd])]
           Told1(s) == Ahead(evbase', 1, upto') /\ Keeps(evbase', evbase) /\ Tells(evbase', upto', s)
<1>4. \E ready \in [Fd -> Conditions] : Told1(seen(ready))
  <2>1. CASE evsel = "poll"
    <3>1. PICK ready \in [Fd -> Conditions] : evbase' = PollWaited(evbase, ready)
      BY <1>1, <2>1 DEF Waited
    <3> QED BY <1>2, <1>3, <2>1, <3>1, PollWaitTells
  <2>2. CASE evsel = "select"
    <3>1. PICK ready \in [Fd -> Conditions] : evbase' = SelectWaited(evbase, ready)
      BY <1>1, <2>2 DEF Waited
    <3> QED BY <1>2, <1>3, <2>2, <3>1, SelectWaitTells
  <2>3. CASE evsel = "epoll"
    <3> DEFINE R(ready) == {fd \in Fd : evbase.interest[fd] # {} /\ Ready(evbase, ready, fd) # {}}
    <3>1. PICK ready \in [Fd -> Conditions] :
            \E order \in SetToSeqs(R(ready)) : evbase' = EpollWaited(evbase, ready, order)
      BY <1>1, <2>3 DEF Waited
    <3>2. PICK order \in SetToSeqs(R(ready)) : evbase' = EpollWaited(evbase, ready, order)
      BY <3>1
    <3> QED BY <1>2, <1>3, <2>3, <3>2, EpollWaitTells
  <2> QED BY <1>3, <2>1, <2>2, <2>3 DEF Sel
<1>5. PICK ready \in [Fd -> Conditions] : Told1(seen(ready))
  BY <1>4
<1>6. seen(ready) \in [Fd -> SUBSET Dir]
  BY DEF Seen
<1> QED BY <1>5, <1>6

(* An event that one of its pointers leads to, all lead to. *)
WholeIn(base) ==
  \A e \in Event : \A d \in ev_events[e] : Slot(base, ev_fd[e], d) = e => Holds(base, e)

(* What the places from j to n say of an event. *)
ReportedIn(base, j, n, e) == {d \in Dir : \E i \in j..n : FoundIn(base, i, d) = e}

(* No two events that are inserted want the same, the pointers are whole,  *)
(* and what a dispatch has yet to report waits for no callback.            *)
Apart == \A e, f \in inserted : Rivals(e, f) => e = f

Looking ==
  InLoop => /\ Ahead(evbase, at, upto)
            /\ \A e \in Event : Reported(e) # {} => active[e] = {}

DemuxInv == Apart /\ WholeIn(evbase) /\ Looking

(* The variables of EvDemux. *)
Shown == {e \in Event : Watched(e)}
Reports == [e \in Event |-> Reported(e)]

Refines == Demux!Next \/ UNCHANGED <<Shown, Reports, InLoop, active>>

(* An event is reported for the directions that were seen of its           *)
(* descriptor and whose pointers lead to it.                               *)
LEMMA ReportedLemma ==
  ASSUME Sel, NEW base, NEW added \in SUBSET Event, Good(base, added), NEW j \in Nat, j >= 1,
         NEW n \in Nat, Ahead(base, j, n), NEW e \in Event, NEW d \in Dir
  PROVE  d \in ReportedIn(base, j, n, e) <=>
           \E i \in j..n : /\ FdAt(base, i) = ev_fd[e] /\ d \in SeenAt(base, i)
                           /\ Slot(base, ev_fd[e], d) = e
<1>1. ASSUME NEW i \in j..n
      PROVE  FoundIn(base, i, d) = e <=> /\ FdAt(base, i) = ev_fd[e] /\ d \in SeenAt(base, i)
                                         /\ Slot(base, ev_fd[e], d) = e
  <2>1. /\ FoundIn(base, i, d) = IF d \in SeenAt(base, i) THEN Slot(base, FdAt(base, i), d) ELSE Null
        /\ d \in SeenAt(base, i) => FdAt(base, i) \in Fd
    BY FoundLemma
  <2>2. e # Null
    BY EventLemma
  <2>3. d \in SeenAt(base, i) /\ Slot(base, FdAt(base, i), d) = e => FdAt(base, i) = ev_fd[e]
    BY <2>1, <2>2, SlotLemma
  <2> QED BY <2>1, <2>2, <2>3
<1> QED BY <1>1 DEF ReportedIn

(* The variables of EvDemux in terms of pointers and places,               *)
LEMMA Views ==
  ASSUME IInv
  PROVE  /\ Shown = {e \in Event : Holds(evbase, e)}
         /\ Shown \subseteq inserted
         /\ \A e \in Event : \A d \in ev_events[e] : Slot(evbase, ev_fd[e], d) = e => e \in inserted
         /\ \A e \in Event : Reported(e) = IF InLoop THEN ReportedIn(evbase, at, upto, e) ELSE {}
         /\ Sel /\ inserted \in SUBSET Event /\ Good(evbase, inserted)
<1>1. Sel /\ inserted \in SUBSET Event /\ Good(evbase, inserted)
  BY DEF IInv, Sel
<1>2. \A e \in Event : Watched(e) <=> WatchedIn(evbase, e)
  BY DEF Watched, WatchedIn
<1>3. Shown = {e \in Event : Holds(evbase, e)}
  BY <1>1, <1>2, WatchedLemma DEF Shown
<1>4. \A e \in Event : \A d \in ev_events[e] : Slot(evbase, ev_fd[e], d) = e => e \in inserted
  BY <1>1, SlotLemma, EventLemma
<1>5. Shown \subseteq inserted
  BY <1>3, <1>4, EventLemma DEF Holds
<1>6. \A i, d : Found(i, d) = FoundIn(evbase, i, d)
  BY DEF Found, FoundIn
<1>7. \A e \in Event : Reported(e) = IF InLoop THEN ReportedIn(evbase, at, upto, e) ELSE {}
  BY <1>6 DEF Reported, ReportedIn
<1> QED BY <1>1, <1>3, <1>4, <1>5, <1>7

(* also after a step.                                                      *)
LEMMA ViewsNext ==
  ASSUME IInv, IInv', evsel' = evsel
  PROVE  /\ Shown' = {e \in Event : Holds(evbase', e)}
         /\ Reports' = [e \in Event |-> IF at' # 0 THEN ReportedIn(evbase', at', upto', e) ELSE {}]
         /\ \A e \in Event : Reported(e)' = IF at' # 0 THEN ReportedIn(evbase', at', upto', e) ELSE {}
         /\ WholeIn(evbase)' <=> WholeIn(evbase')
         /\ Ahead(evbase, at, upto)' <=> Ahead(evbase', at', upto')
         /\ inserted' \in SUBSET Event /\ Good(evbase', inserted') /\ at' \in Nat /\ upto' \in Nat
<1>1. Sel /\ inserted' \in SUBSET Event /\ at' \in Nat /\ upto' \in Nat
  BY DEF IInv, Sel
<1>2. Good(evbase', inserted')
  BY DEF IInv, Good
<1>3. \A e \in Event : Watched(e)' <=> WatchedIn(evbase', e)
  BY DEF Watched, WatchedIn
<1>4. Shown' = {e \in Event : Holds(evbase', e)}
  BY <1>1, <1>2, <1>3, WatchedLemma DEF Shown
<1>5. \A i, d : Found(i, d)' = FoundIn(evbase', i, d)
  BY DEF Found, FoundIn
<1>6. \A e \in Event : Reported(e)' = IF at' # 0 THEN ReportedIn(evbase', at', upto', e) ELSE {}
  BY <1>5 DEF Reported, ReportedIn, InLoop
<1>7. Reports' = [e \in Event |-> IF at' # 0 THEN ReportedIn(evbase', at', upto', e) ELSE {}]
  BY <1>6 DEF Reports
<1>8. WholeIn(evbase)' <=> WholeIn(evbase')
  BY DEF WholeIn, Holds, Slot
<1>9. Ahead(evbase, at, upto)' <=> Ahead(evbase', at', upto')
  BY DEF Ahead, FdAt
<1> QED BY <1>1, <1>2, <1>4, <1>6, <1>7, <1>8, <1>9

(* A structure with the same pointers watches the same events. *)
LEMMA KeepsViews ==
  ASSUME NEW r, NEW base, Keeps(r, base)
  PROVE  /\ \A e \in Event : Holds(r, e) <=> Holds(base, e)
         /\ WholeIn(base) => WholeIn(r)
<1>1. \A e \in Event : \A d \in ev_events[e] : Slot(r, ev_fd[e], d) = Slot(base, ev_fd[e], d)
  BY EventLemma DEF Keeps
<1>2. \A e \in Event : Holds(r, e) <=> Holds(base, e)
  BY <1>1 DEF Holds
<1> QED BY <1>1, <1>2 DEF WholeIn

(* At first nothing is watched.                                            *)
LEMMA InitRefines == Init => DemuxInv /\ Demux!Init
<1> SUFFICES ASSUME Init PROVE DemuxInv /\ Demux!Init
  OBVIOUS
<1>1. inserted = {} /\ ~ InLoop /\ active = [e \in Event |-> {}]
  BY DEF Init, InLoop
<1>2. IInv
  BY InitGood
<1>3. Shown = {} /\ \A e \in Event : \A d \in ev_events[e] : Slot(evbase, ev_fd[e], d) # e
  BY <1>1, <1>2, Views
<1>4. \A e \in Event : Reported(e) = {}
  BY <1>1, <1>2, Views
<1>5. DemuxInv
  BY <1>1, <1>3 DEF DemuxInv, Apart, WholeIn, Looking
<1>6. Demux!Init
  BY <1>1, <1>3, <1>4 DEF Demux!Init, Demux!Nothing, Shown, InLoop
<1> QED BY <1>5, <1>6

(* event_add is Add of EvDemux: only the pointers of the event are         *)
(* written, and no other event has one of them.                            *)
LEMMA AddRefines ==
  ASSUME IInv, IInv', DemuxInv, NEW e \in Event, Add(e)
  PROVE  DemuxInv' /\ Refines
<1>1. /\ evbase' = Added(e) /\ inserted' = inserted \cup {e} /\ evsel' = evsel /\ active' = active
      /\ at' = at /\ upto' = upto /\ at = 0 /\ ~ InLoop /\ ~ InLoop'
      /\ e \notin inserted /\ active[e] = {} /\ \A f \in inserted : ~ Rivals(e, f)
  BY DEF Add, Adds, InLoop
<1>2. Puts(evbase', evbase, e, e)
  BY <1>1, AddedPuts, Views
<1>3. ASSUME NEW f \in Event, f # e, NEW d \in ev_events[f]
      PROVE  /\ Slot(evbase', ev_fd[f], d) = f => Slot(evbase, ev_fd[f], d) = f
             /\ f \in inserted => Slot(evbase', ev_fd[f], d) = Slot(evbase, ev_fd[f], d)
  <2>1. ev_fd[f] \in Fd /\ d \in Dir
    BY EventLemma
  <2>2. f \in inserted => ~ (ev_fd[f] = ev_fd[e] /\ d \in ev_events[e])
    BY <1>1 DEF Rivals
  <2> QED BY <1>2, <1>3, <2>1, <2>2 DEF Puts
<1>4. Holds(evbase', e)
  BY <1>2, EventLemma DEF Holds, Puts
<1>5. ASSUME NEW f \in Event, f # e PROVE Holds(evbase', f) <=> Holds(evbase, f)
  <2>1. Holds(evbase', f) => Holds(evbase, f)
    BY <1>3, <1>5 DEF Holds
  <2>2. Holds(evbase, f) => f \in inserted
    BY Views
  <2>3. Holds(evbase, f) => Holds(evbase', f)
    BY <1>3, <1>5, <2>2 DEF Holds
  <2> QED BY <2>1, <2>3
<1>6. WholeIn(evbase')
  <2> SUFFICES ASSUME NEW f \in Event, NEW d \in ev_events[f], Slot(evbase', ev_fd[f], d) = f
               PROVE  Holds(evbase', f)
    BY DEF WholeIn
  <2> QED BY <1>3, <1>4, <1>5 DEF DemuxInv, WholeIn
<1>7. Shown' = Shown \cup {e}
  BY <1>1, <1>4, <1>5, Views, ViewsNext
<1>8. Apart'
  BY <1>1 DEF DemuxInv, Apart, Rivals
<1>9. DemuxInv'
  BY <1>1, <1>6, <1>8, ViewsNext DEF DemuxInv, Looking
<1>10. Reports' = Reports
  BY <1>1, Views, ViewsNext DEF Reports
<1>11. e \notin Shown /\ \A f \in Shown : ~ Rivals(e, f)
  BY <1>1, Views
<1>12. InLoop' = InLoop
  BY <1>1 DEF InLoop
<1>13. Demux!Add(e)
  BY <1>1, <1>7, <1>10, <1>11, <1>12 DEF Demux!Add, Demux!Rivals, Rivals, Shown, Reports
<1> QED BY <1>9, <1>13 DEF Refines, Demux!Next

(* One that fails is not seen.                                             *)
LEMMA AddFailsRefines ==
  ASSUME IInv, IInv', DemuxInv, NEW e \in Event, AddFails(e)
  PROVE  DemuxInv' /\ Refines
<1>1. /\ evbase' \in Failures(e) /\ inserted' = inserted \cup {e} /\ evsel' = evsel /\ active' = active
      /\ at' = at /\ upto' = upto /\ at = 0 /\ ~ InLoop /\ ~ InLoop'
      /\ \A f \in inserted : ~ Rivals(e, f)
  BY DEF AddFails, Adds, InLoop
<1>2. Keeps(evbase', evbase)
  BY <1>1, FailuresKeep, Views
<1>3. Apart'
  BY <1>1 DEF DemuxInv, Apart, Rivals
<1>4. DemuxInv'
  BY <1>1, <1>2, <1>3, KeepsViews, ViewsNext DEF DemuxInv, Looking
<1>5. Shown' = Shown
  BY <1>1, <1>2, KeepsViews, Views, ViewsNext
<1>6. Reports' = Reports
  BY <1>1, Views, ViewsNext DEF Reports
<1>7. InLoop' = InLoop
  BY <1>1 DEF InLoop
<1> QED BY <1>1, <1>4, <1>5, <1>6, <1>7 DEF Refines

(* event_del is Del, also of an event whose addition failed: the pointers  *)
(* it would have are not those of another one.                             *)
LEMMA DelRefines ==
  ASSUME IInv, IInv', DemuxInv, NEW e \in Event, Del(e)
  PROVE  DemuxInv' /\ Refines
<1>1. /\ inserted' = inserted \ {e} /\ evsel' = evsel
      /\ at' = at /\ upto' = upto /\ at = 0 /\ ~ InLoop /\ ~ InLoop'
      /\ active' = [active EXCEPT ![e] = {}]
      /\ evbase' = IF e \in inserted THEN Deleted(evbase, e) ELSE evbase
      /\ e \in inserted => MayDelete(evbase, e)
  BY DEF Del, MayDelete, InLoop
<1>2. ASSUME e \in inserted PROVE WholeIn(evbase') /\ Shown' = Shown \ {e}
  <2>1. Puts(evbase', evbase, e, Null)
    BY <1>1, <1>2, DeletedPuts, Views
  <2>2. ASSUME NEW f \in Event, f # e, NEW d \in ev_events[f]
        PROVE  /\ Slot(evbase', ev_fd[f], d) = f => Slot(evbase, ev_fd[f], d) = f
               /\ f \in inserted => Slot(evbase', ev_fd[f], d) = Slot(evbase, ev_fd[f], d)
    <3>1. ev_fd[f] \in Fd /\ d \in Dir /\ f # Null
      BY EventLemma
    <3>2. f \in inserted => ~ (ev_fd[f] = ev_fd[e] /\ d \in ev_events[e])
      BY <1>2, <2>2 DEF DemuxInv, Apart, Rivals
    <3> QED BY <2>1, <2>2, <3>1, <3>2 DEF Puts
  <2>3. \A d \in ev_events[e] : Slot(evbase', ev_fd[e], d) # e
    BY <2>1, EventLemma DEF Puts
  <2>4. ASSUME NEW f \in Event, f # e PROVE Holds(evbase', f) <=> Holds(evbase, f)
    <3>1. Holds(evbase', f) => Holds(evbase, f)
      BY <2>2, <2>4 DEF Holds
    <3>2. Holds(evbase, f) => f \in inserted
      BY Views
    <3>3. Holds(evbase, f) => Holds(evbase', f)
      BY <2>2, <2>4, <3>2 DEF Holds
    <3> QED BY <3>1, <3>3
  <2>5. ~ Holds(evbase', e)
    BY <2>3, EventLemma DEF Holds
  <2>6. WholeIn(evbase')
    <3> SUFFICES ASSUME NEW f \in Event, NEW d \in ev_events[f], Slot(evbase', ev_fd[f], d) = f
                 PROVE  Holds(evbase', f)
      BY DEF WholeIn
    <3> QED BY <2>2, <2>3, <2>4 DEF DemuxInv, WholeIn
  <2>7. Shown' = Shown \ {e}
    BY <1>1, <2>4, <2>5, Views, ViewsNext
  <2> QED BY <2>6, <2>7
<1>3. ASSUME e \notin inserted PROVE WholeIn(evbase') /\ Shown' = Shown \ {e}
  <2>1. evbase' = evbase /\ e \notin Shown
    BY <1>1, <1>3, Views
  <2>2. Shown' = Shown
    BY <1>1, <2>1, Views, ViewsNext
  <2> QED BY <2>1, <2>2 DEF DemuxInv
<1>4. WholeIn(evbase') /\ Shown' = Shown \ {e}
  BY <1>2, <1>3
<1>5. DemuxInv'
  BY <1>1, <1>4, ViewsNext DEF DemuxInv, Apart, Looking
<1>6. Reports' = Reports
  BY <1>1, Views, ViewsNext DEF Reports
<1>7. InLoop' = InLoop
  BY <1>1 DEF InLoop
<1>8. Demux!Del(e)
  BY <1>1, <1>4, <1>6, <1>7 DEF Demux!Del, Shown, Reports
<1> QED BY <1>5, <1>8 DEF Refines, Demux!Next

(* The callback of an event is Run.                                        *)
LEMMA RunRefines ==
  ASSUME IInv, IInv', DemuxInv, NEW e \in Event, Run(e)
  PROVE  DemuxInv' /\ Refines
<1>1. /\ UNCHANGED <<evsel, evbase, inserted, at, upto>> /\ active' = [active EXCEPT ![e] = {}]
      /\ active[e] # {} /\ ~ InLoop /\ ~ InLoop' /\ at = 0
  BY DEF Run, InLoop
<1>2. Shown' = Shown /\ Reports' = Reports
  BY <1>1, Views, ViewsNext DEF Reports
<1>3. DemuxInv'
  BY <1>1, ViewsNext DEF DemuxInv, Apart, Looking
<1>4. InLoop' = InLoop
  BY <1>1 DEF InLoop
<1>5. Demux!Run(e)
  BY <1>1, <1>2, <1>4 DEF Demux!Run, Shown, Reports
<1> QED BY <1>3, <1>5 DEF Refines, Demux!Next

(* The system call of a dispatch is Wait: every event that is watched is   *)
(* reported for what its descriptor is ready for, and no other.            *)
LEMMA WaitRefines ==
  ASSUME IInv, IInv', DemuxInv, Wait
  PROVE  DemuxInv' /\ Refines
<1>1. /\ ~ InLoop /\ InLoop' /\ at' = 1 /\ evsel' = evsel /\ inserted' = inserted /\ active' = active
      /\ \A e \in Event : active[e] = {}
  BY DEF Wait, InLoop
<1>2. PICK seen \in [Fd -> SUBSET Dir] :
        Ahead(evbase', 1, upto') /\ Keeps(evbase', evbase) /\ Tells(evbase', upto', seen)
  BY WaitTells
<1>3. Sel /\ WholeIn(evbase') /\ Good(evbase', inserted') /\ inserted' \in SUBSET Event /\ upto' \in Nat
  BY <1>1, <1>2, KeepsViews, Views, ViewsNext DEF DemuxInv
<1>4. Shown' = Shown
  BY <1>1, <1>2, KeepsViews, Views, ViewsNext
<1>5. ASSUME NEW e \in Event
      PROVE  ReportedIn(evbase', 1, upto', e) =
               IF e \in Shown THEN ev_events[e] \cap seen[ev_fd[e]] ELSE {}
  <2> DEFINE fd == ev_fd[e]
             s == evbase'
  <2>1. fd \in Fd /\ ev_events[e] \subseteq Dir /\ e # Null
    BY EventLemma
  <2>2. e \in Shown <=> Holds(s, e)
    BY <1>1, <1>4, ViewsNext
  <2>3. ASSUME NEW d \in Dir
        PROVE  d \in ReportedIn(s, 1, upto', e) <=> Slot(s, fd, d) = e /\ d \in seen[fd]
    <3>1. d \in ReportedIn(s, 1, upto', e) <=>
            \E i \in 1..upto' : FdAt(s, i) = fd /\ d \in SeenAt(s, i) /\ Slot(s, fd, d) = e
      <4>1. 1 \in Nat /\ 1 >= 1
        OBVIOUS
      <4> QED BY <1>2, <1>3, <4>1, ReportedLemma
    <3>2. Slot(s, fd, d) = e =>
            (d \in seen[fd] <=> \E i \in 1..upto' : FdAt(s, i) = fd /\ d \in SeenAt(s, i))
      BY <1>2, <2>1 DEF Tells
    <3> QED BY <3>1, <3>2
  <2>4. ASSUME NEW d \in Dir, Slot(s, fd, d) = e PROVE d \in ev_events[e] /\ Holds(s, e)
    <3>1. d \in ev_events[e]
      BY <1>3, <2>1, <2>4, SlotLemma
    <3> QED BY <1>3, <2>4, <3>1 DEF WholeIn
  <2>5. ReportedIn(s, 1, upto', e) \subseteq Dir
    BY DEF ReportedIn
  <2> HIDE DEF fd, s
  <2>6. CASE Holds(s, e)
    <3>1. \A d \in ev_events[e] : Slot(s, fd, d) = e
      BY <2>6 DEF Holds, fd
    <3> QED BY <2>1, <2>2, <2>3, <2>4, <2>5, <2>6, <3>1 DEF s, fd
  <2>7. CASE ~ Holds(s, e)
    BY <2>2, <2>3, <2>4, <2>5, <2>7 DEF s, fd
  <2> QED BY <2>6, <2>7
<1>6. Reports' = [e \in Event |-> IF e \in Shown THEN ev_events[e] \cap seen[ev_fd[e]] ELSE {}]
  BY <1>1, <1>5, ViewsNext
<1>7. DemuxInv'
  BY <1>1, <1>2, <1>3, ViewsNext DEF DemuxInv, Apart, Looking
<1>8. Demux!Wait
  <2>1. Demux!Fd = Fd /\ Demux!Dir = Dir
    BY DEF Demux!Fd, Fd, Demux!Dir, Dir
  <2> QED BY <1>1, <1>4, <1>6, <2>1 DEF Demux!Wait, Shown, Reports
<1> QED BY <1>7, <1>8 DEF Refines, Demux!Next

(* The end of a dispatch is Done: every place was looked at.               *)
LEMMA ReturnRefines ==
  ASSUME IInv, IInv', DemuxInv, Return
  PROVE  DemuxInv' /\ Refines
<1>1. /\ evbase' = Forgot /\ at' = 0 /\ upto' = 0 /\ evsel' = evsel /\ inserted' = inserted
      /\ active' = active /\ InLoop /\ ~ InLoop' /\ at > upto
  BY DEF Return, InLoop
<1>2. Keeps(evbase', evbase)
  BY <1>1, ForgotKeeps, Views
<1>3. Shown' = Shown
  BY <1>1, <1>2, KeepsViews, Views, ViewsNext
<1>4. \A i \in at..upto : FALSE
  BY <1>1 DEF IInv
<1>5. Reports = [e \in Event |-> {}]
  BY <1>4 DEF Reports, Reported
<1>6. Reports' = Reports
  BY <1>1, <1>5, ViewsNext
<1>7. DemuxInv'
  BY <1>1, <1>2, KeepsViews, ViewsNext DEF DemuxInv, Apart, Looking
<1>8. Demux!Done
  BY <1>1, <1>3, <1>5, <1>6 DEF Demux!Done, Demux!Nothing, Shown, Reports
<1> QED BY <1>7, <1>8 DEF Refines, Demux!Next

(* What a place leads to was added, has the descriptor of the place, and   *)
(* all its pointers lead to it.                                            *)
LEMMA HereLemma ==
  ASSUME IInv, DemuxInv, InLoop, at <= upto, NEW d \in Dir, NEW e, e = Found(at, d), e # Null
  PROVE  /\ e \in Event /\ ev_fd[e] = FdAt(evbase, at)
         /\ d \in SeenAt(evbase, at) /\ Slot(evbase, ev_fd[e], d) = e
         /\ Holds(evbase, e) /\ Behind(evbase, e, at) /\ MayDelete(evbase, e)
<1>1. Sel /\ inserted \in SUBSET Event /\ Good(evbase, inserted)
  BY DEF IInv, Sel
<1>2. at \in Nat /\ upto \in Nat /\ at >= 1 /\ at \in at..upto
  BY DEF IInv, InLoop
<1>3. Ahead(evbase, at, upto) /\ WholeIn(evbase)
  BY DEF DemuxInv, Looking
<1>4. e = FoundIn(evbase, at, d)
  BY DEF Found, FoundIn
<1>5. /\ d \in SeenAt(evbase, at) /\ FdAt(evbase, at) \in Fd
      /\ e = Slot(evbase, FdAt(evbase, at), d)
  BY <1>1, <1>2, <1>3, <1>4, FoundLemma
<1>6. e \in inserted /\ ev_fd[e] = FdAt(evbase, at) /\ d \in ev_events[e]
  BY <1>1, <1>5, SlotLemma
<1>7. e \in Event
  BY <1>1, <1>6
<1>8. Holds(evbase, e)
  BY <1>3, <1>5, <1>6, <1>7 DEF WholeIn
<1>9. Behind(evbase, e, at)
  BY <1>2, <1>3, <1>6 DEF Behind, Ahead, PollAhead, FdAt
<1>10. MayDelete(evbase, e)
  BY <1>7, FoundMayBeDeleted
<1> QED BY <1>5, <1>6, <1>7, <1>8, <1>9, <1>10

(* The deletion of an event of the place whose turn it is, in a structure  *)
(* that is like r0 but for the pointers to the events of D.                *)
LEMMA DropsOne ==
  ASSUME IInv, NEW base, NEW added \in SUBSET Event, Good(base, added), NEW e \in Event,
         MayDelete(base, e), Holds(base, e), NEW j \in Nat, NEW n \in Nat,
         Ahead(base, j + 1, n), Behind(base, e, j), \A i \in (j + 1)..n : FdAt(base, i) # ev_fd[e]
  PROVE  /\ Good(Deleted(base, e), added \ {e})
         /\ Drops(Deleted(base, e), base, {e})
         /\ Ahead(Deleted(base, e), j + 1, n)
         /\ SamePlaces(Deleted(base, e), base, j + 1, n)
         /\ \A f \in Event : f # e /\ Holds(base, f) => Holds(Deleted(base, e), f)
         /\ \A f \in Event : MayDelete(base, f) => MayDelete(Deleted(base, e), f)
         /\ \A f \in Event : MayDelete(base, f) /\ Behind(base, f, j) => Behind(Deleted(base, e), f, j)
<1> DEFINE r == Deleted(base, e)
<1>1. Sel
  BY DEF IInv, Sel
<1>2. /\ Good(r, added \ {e})
      /\ evsel = "poll" => \A f : PollFinds(base, f) => PollFinds(r, f)
  BY DeletedGood
<1>3. Drops(r, base, {e})
  BY <1>1, DeletedDrops
<1>4. /\ Ahead(r, j + 1, n)
      /\ SamePlaces(r, base, j + 1, n)
      /\ \A f \in Event : MayDelete(base, f) /\ Behind(base, f, j) => Behind(r, f, j)
  BY <1>1, DeletedAhead
<1> HIDE DEF r
<1>5. ASSUME NEW f \in Event, f # e, Holds(base, f) PROVE Holds(r, f)
  BY <1>3, <1>5, EventLemma DEF Holds, Drops
<1>6. \A f \in Event : MayDelete(base, f) => MayDelete(r, f)
  BY <1>2 DEF MayDelete
<1> QED BY <1>2, <1>3, <1>4, <1>5, <1>6 DEF r

(* Drops after drops.                                                      *)
LEMMA DropsMore ==
  ASSUME NEW base, NEW r1, NEW r2, NEW D1 \in SUBSET Event, NEW D2 \in SUBSET Event,
         Drops(r1, base, D1), Drops(r2, r1, D2)
  PROVE  Drops(r2, base, D1 \cup D2)
<1>1. Null \notin D2
  BY EventAssumption
<1> QED BY <1>1 DEF Drops

(* A turn of the loop drops the events of its place that are not           *)
(* persistent, and leaves what is ahead.                                   *)
LEMMA TurnDrops ==
  ASSUME IInv, DemuxInv, Turn
  PROVE  /\ Drops(evbase', evbase, Here \ Persist)
         /\ Ahead(evbase', at + 1, upto)
         /\ SamePlaces(evbase', evbase, at + 1, upto)
<1> DEFINE r == Found(at, "in")
           w == Found(at, "out")
           goes(e) == e \in Event \ Persist
           D1 == IF goes(r) THEN {r} ELSE {}
           D2 == IF goes(w) /\ w # r THEN {w} ELSE {}
           b1 == WithoutRead
           b2 == WithoutBoth
           ins1 == inserted \ D1
           j == at
           n == upto
<1>1. InLoop /\ at <= upto /\ evbase' = b2
  BY DEF Turn
<1>2. b1 = IF goes(r) THEN Deleted(evbase, r) ELSE evbase
  BY DEF WithoutRead
<1>3. b2 = IF goes(w) /\ w # r THEN Deleted(b1, w) ELSE b1
  BY DEF WithoutBoth
<1>4. "in" \in Dir /\ "out" \in Dir /\ \A d \in Dir : d = "in" \/ d = "out"
  BY DEF Dir
<1>5. Sel /\ inserted \in SUBSET Event /\ Good(evbase, inserted) /\ j \in Nat /\ n \in Nat
  BY DEF IInv, Sel
<1>6. /\ Ahead(evbase, j + 1, n)
      /\ \A i \in (j + 1)..n : FdAt(evbase, i) # FdAt(evbase, j)
  <2>1. Ahead(evbase, j, n) /\ j <= n
    BY <1>1 DEF DemuxInv, Looking
  <2> HIDE DEF j, n
  <2>2. j \in j..n /\ \A i \in (j + 1)..n : i \in j..n /\ i # j
    BY <1>5, <2>1
  <2>3. Ahead(evbase, j + 1, n)
    BY <2>1, <2>2 DEF Ahead, PollAhead
  <2> QED BY <2>1, <2>2, <2>3 DEF Ahead
<1>7. ASSUME NEW d \in Dir, NEW e, e = Found(at, d), goes(e)
      PROVE  /\ e \in Event /\ ev_fd[e] = FdAt(evbase, j) /\ Holds(evbase, e)
             /\ Behind(evbase, e, j) /\ MayDelete(evbase, e)
  <2>1. e # Null
    BY <1>7, EventLemma
  <2> QED BY <1>1, <1>7, <2>1, HereLemma
<1>8. Here \ Persist = D1 \cup D2
  <2>1. {Found(at, d) : d \in Dir} = {r, w}
    BY <1>4
  <2>2. Here = {r, w} \ {Null}
    BY <2>1 DEF Here
  <2>3. \A d \in Dir : Found(at, d) = Null \/ Found(at, d) \in Event
    BY <1>1, HereLemma
  <2>4. (r = Null \/ r \in Event) /\ (w = Null \/ w \in Event)
    BY <1>4, <2>3
  <2> HIDE DEF r, w
  <2> QED BY <2>2, <2>4, EventAssumption
<1>9. /\ goes(r) => /\ r \in Event /\ ev_fd[r] = FdAt(evbase, j) /\ Holds(evbase, r)
                    /\ Behind(evbase, r, j) /\ MayDelete(evbase, r)
      /\ goes(w) => /\ w \in Event /\ ev_fd[w] = FdAt(evbase, j) /\ Holds(evbase, w)
                    /\ Behind(evbase, w, j) /\ MayDelete(evbase, w)
  BY <1>4, <1>7
<1> HIDE DEF r, w, b1, b2, j, n
<1>10. /\ Good(b1, ins1) /\ Drops(b1, evbase, D1) /\ Ahead(b1, j + 1, n)
       /\ SamePlaces(b1, evbase, j + 1, n)
       /\ goes(w) /\ w # r => Holds(b1, w) /\ Behind(b1, w, j) /\ MayDelete(b1, w)
  <2>1. CASE goes(r)
    <3>1. b1 = Deleted(evbase, r) /\ ins1 = inserted \ {r} /\ D1 = {r}
      BY <1>2, <2>1
    <3>2. r \in Event /\ \A i \in (j + 1)..n : FdAt(evbase, i) # ev_fd[r]
      BY <1>6, <1>9, <2>1
    <3>3. /\ Good(b1, inserted \ {r})
          /\ Drops(b1, evbase, {r})
          /\ Ahead(b1, j + 1, n)
          /\ SamePlaces(b1, evbase, j + 1, n)
          /\ \A f \in Event : f # r /\ Holds(evbase, f) => Holds(b1, f)
          /\ \A f \in Event : MayDelete(evbase, f) => MayDelete(b1, f)
          /\ \A f \in Event : MayDelete(evbase, f) /\ Behind(evbase, f, j) => Behind(b1, f, j)
      BY <1>5, <1>6, <1>9, <2>1, <3>1, <3>2, DropsOne
    <3> QED BY <1>9, <3>1, <3>3
  <2>2. CASE ~ goes(r)
    <3>1. b1 = evbase /\ ins1 = inserted /\ D1 = {}
      BY <1>2, <2>2
    <3> QED BY <1>5, <1>6, <1>9, <3>1 DEF Drops, SamePlaces
  <2> QED BY <2>1, <2>2
<1>11. ins1 \in SUBSET Event /\ D1 \in SUBSET Event /\ D2 \in SUBSET Event
  BY <1>5
<1> HIDE DEF ins1, D1
<1>12. /\ Drops(b2, b1, D2) /\ Ahead(b2, j + 1, n) /\ SamePlaces(b2, b1, j + 1, n)
  <2>1. CASE goes(w) /\ w # r
    <3>1. b2 = Deleted(b1, w) /\ D2 = {w} /\ w \in Event
      BY <1>3, <2>1
    <3>2. \A i \in (j + 1)..n : FdAt(b1, i) # ev_fd[w]
      BY <1>6, <1>9, <1>10, <2>1 DEF SamePlaces
    <3> QED BY <1>5, <1>10, <1>11, <2>1, <3>1, <3>2, DropsOne
  <2>2. CASE ~ (goes(w) /\ w # r)
    <3>1. b2 = b1 /\ D2 = {}
      BY <1>3, <2>2
    <3> QED BY <1>10, <3>1 DEF Drops, SamePlaces
  <2> QED BY <2>1, <2>2
<1> HIDE DEF D2
<1>13. Drops(b2, evbase, D1 \cup D2)
  BY <1>10, <1>11, <1>12, DropsMore
<1>14. SamePlaces(b2, evbase, j + 1, n)
  BY <1>10, <1>12 DEF SamePlaces
<1> QED BY <1>1, <1>8, <1>12, <1>13, <1>14 DEF j, n

(* What a turn does to what is watched and what is yet to be reported.     *)
LEMMA TurnReports ==
  ASSUME IInv, IInv', DemuxInv, Turn
  PROVE  /\ Shown' = Shown \ (Here \ Persist)
         /\ WholeIn(evbase')
         /\ \A e \in Event :
              /\ Reported(e)' = IF e \in Here THEN {} ELSE Reported(e)
              /\ e \in Here => Reported(e) = Res(e)
<1> DEFINE s == evbase
           t == evbase'
           D == Here \ Persist
           j == at
           n == upto
<1>1. /\ InLoop /\ at # 0 /\ j <= n /\ at' = j + 1 /\ upto' = n /\ evsel' = evsel
  BY DEF Turn, InLoop
<1>2. /\ Sel /\ inserted \in SUBSET Event /\ Good(s, inserted) /\ j \in Nat /\ n \in Nat
      /\ j >= 1 /\ j + 1 \in Nat /\ j + 1 >= 1 /\ Ahead(s, j, n) /\ WholeIn(s)
  BY <1>1 DEF IInv, Sel, DemuxInv, Looking
<1>3. Drops(t, s, D) /\ Ahead(t, j + 1, n) /\ SamePlaces(t, s, j + 1, n)
  BY TurnDrops
<1>4. inserted' \in SUBSET Event /\ Good(t, inserted')
  BY <1>1, ViewsNext
<1>5. ASSUME NEW e \in Event
      PROVE  /\ Reported(e) = ReportedIn(s, j, n, e)
             /\ Reported(e)' = ReportedIn(t, j + 1, n, e)
             /\ e \in Shown <=> Holds(s, e)
             /\ e \in Shown' <=> Holds(t, e)
  <2>1. Reported(e) = ReportedIn(s, j, n, e)
    BY <1>1, Views
  <2>2. at' # 0
    BY <1>1, <1>2
  <2>3. Reported(e)' = ReportedIn(t, j + 1, n, e)
    BY <1>1, <2>2, ViewsNext
  <2> QED BY <1>1, <2>1, <2>3, Views, ViewsNext
<1>6. ASSUME NEW e \in Event, NEW d \in Dir
      PROVE  Slot(t, ev_fd[e], d) = e <=> Slot(s, ev_fd[e], d) = e /\ e \notin D
  BY <1>3, EventLemma DEF Drops
<1>7. ASSUME NEW e \in Event PROVE Holds(t, e) <=> Holds(s, e) /\ e \notin D
  BY <1>6, EventLemma DEF Holds
<1>8. ASSUME NEW e \in Here
      PROVE  e \in Event /\ ev_fd[e] = FdAt(s, j)
  <2>1. PICK d \in Dir : e = Found(at, d) /\ e # Null
    BY DEF Here
  <2> QED BY <1>1, <2>1, HereLemma
<1>9. \A e : e \in Shown' => e \in Event
  BY DEF Shown
<1>10. Shown' = Shown \ D
  BY <1>5, <1>7 DEF Shown
<1>11. WholeIn(t)
  <2> SUFFICES ASSUME NEW e \in Event, NEW d \in ev_events[e], Slot(t, ev_fd[e], d) = e
               PROVE  Holds(t, e)
    BY DEF WholeIn
  <2> QED BY <1>2, <1>6, <1>7, EventLemma DEF WholeIn
<1>12. ASSUME NEW e \in Event, NEW d \in Dir
       PROVE  /\ d \in ReportedIn(s, j, n, e) <=>
                   \E i \in j..n : /\ FdAt(s, i) = ev_fd[e] /\ d \in SeenAt(s, i)
                                   /\ Slot(s, ev_fd[e], d) = e
              /\ d \in ReportedIn(t, j + 1, n, e) <=>
                   \E i \in (j + 1)..n : /\ FdAt(t, i) = ev_fd[e] /\ d \in SeenAt(t, i)
                                         /\ Slot(t, ev_fd[e], d) = e
  BY <1>2, <1>3, <1>4, ReportedLemma
<1>13. ASSUME NEW e \in Event, NEW d \in Dir
       PROVE  d \in Res(e) <=> /\ FdAt(s, j) = ev_fd[e] /\ d \in SeenAt(s, j)
                               /\ Slot(s, ev_fd[e], d) = e
  <2>1. Found(j, d) = FoundIn(s, j, d)
    BY DEF Found, FoundIn
  <2>2. j \in j..n
    BY <1>1, <1>2
  <2>3. /\ FoundIn(s, j, d) = IF d \in SeenAt(s, j) THEN Slot(s, FdAt(s, j), d) ELSE Null
        /\ d \in SeenAt(s, j) => FdAt(s, j) \in Fd
    BY <1>2, <2>2, FoundLemma
  <2>4. e # Null
    BY EventLemma
  <2>5. d \in SeenAt(s, j) /\ Slot(s, FdAt(s, j), d) = e => FdAt(s, j) = ev_fd[e]
    BY <1>2, <2>3, <2>4, SlotLemma
  <2> QED BY <2>1, <2>3, <2>4, <2>5 DEF Res
<1>14. ASSUME NEW e \in Event PROVE e \in Here <=> Res(e) # {}
  BY EventLemma DEF Here, Res
<1>15. j \in j..n /\ \A i : i \in j..n <=> i = j \/ i \in (j + 1)..n
  <2> HIDE DEF j, n
  <2> QED BY <1>1, <1>2
<1>16. ASSUME NEW i \in (j + 1)..n
       PROVE  /\ FdAt(s, i) # FdAt(s, j) /\ FdAt(t, i) = FdAt(s, i) /\ SeenAt(t, i) = SeenAt(s, i)
  <2>1. i \in j..n
    BY <1>15
  <2>2. i # j
    <3> HIDE DEF j, n
    <3> QED BY <1>2
  <2> QED BY <1>2, <1>3, <1>15, <2>1, <2>2 DEF Ahead, SamePlaces
<1>17. ASSUME NEW e \in Event
       PROVE  /\ ReportedIn(s, j, n, e) \subseteq Dir /\ ReportedIn(t, j + 1, n, e) \subseteq Dir
              /\ Res(e) \subseteq Dir
  BY DEF ReportedIn, Res
<1> HIDE DEF s, t, j, n
<1>18. ASSUME NEW e \in Here
       PROVE  ReportedIn(t, j + 1, n, e) = {} /\ ReportedIn(s, j, n, e) = Res(e)
  <2>1. e \in Event /\ \A i \in (j + 1)..n : FdAt(s, i) # ev_fd[e] /\ FdAt(t, i) # ev_fd[e]
    BY <1>8, <1>16
  <2>2. ASSUME NEW d \in Dir
        PROVE  d \notin ReportedIn(t, j + 1, n, e) /\ (d \in ReportedIn(s, j, n, e) <=> d \in Res(e))
    BY <1>12, <1>13, <1>15, <2>1
  <2> QED BY <1>17, <2>1, <2>2
<1>19. ASSUME NEW e \in Event, e \notin Here
       PROVE  ReportedIn(t, j + 1, n, e) = ReportedIn(s, j, n, e)
  <2>1. ASSUME NEW d \in Dir
        PROVE  d \in ReportedIn(t, j + 1, n, e) <=> d \in ReportedIn(s, j, n, e)
    <3>1. ~ (FdAt(s, j) = ev_fd[e] /\ d \in SeenAt(s, j) /\ Slot(s, ev_fd[e], d) = e)
      BY <1>13, <1>14, <1>19
    <3>2. Slot(t, ev_fd[e], d) = e <=> Slot(s, ev_fd[e], d) = e
      BY <1>6, <1>19
    <3> QED BY <1>12, <1>15, <1>16, <3>1, <3>2
  <2> QED BY <1>17, <2>1
<1> QED BY <1>5, <1>10, <1>11, <1>18, <1>19 DEF t

(* A turn of the loop is Report, of the events its place leads to; one     *)
(* whose place leads to none is not seen.                                  *)
LEMMA TurnRefines ==
  ASSUME IInv, IInv', DemuxInv, Turn
  PROVE  DemuxInv' /\ Refines
<1>1. /\ InLoop /\ at' = at + 1 /\ upto' = upto /\ evsel' = evsel
      /\ inserted' = inserted \ (Here \ Persist)
      /\ active' = [e \in Event |->
           IF e \notin Here THEN active[e]
           ELSE IF e \in Persist THEN active[e] \cup Res(e)
           ELSE Res(e)]
  BY DEF Turn
<1>2. /\ Shown' = Shown \ (Here \ Persist)
      /\ WholeIn(evbase')
      /\ \A e \in Event : /\ Reported(e)' = IF e \in Here THEN {} ELSE Reported(e)
                          /\ e \in Here => Reported(e) = Res(e)
  BY TurnReports
<1>3. InLoop' /\ Ahead(evbase', at', upto')
  BY <1>1, TurnDrops DEF IInv, InLoop
<1>4. ASSUME NEW e \in Here PROVE e \in Event /\ Res(e) # {}
  <2>1. PICK d \in Dir : e = Found(at, d) /\ e # Null
    BY DEF Here
  <2>2. e \in Event
    <3>1. at <= upto
      BY DEF Turn
    <3> QED BY <1>1, <2>1, <3>1, HereLemma
  <2> QED BY <2>1, <2>2 DEF Res
<1>5. \A e \in Event : Reported(e) # {} => active[e] = {}
  BY <1>1 DEF DemuxInv, Looking
<1>6. \A e \in Event : active'[e] = IF e \in Here THEN active[e] \cup Reported(e) ELSE active[e]
  BY <1>1, <1>2, <1>4, <1>5
<1>7. Apart'
  BY <1>1 DEF DemuxInv, Apart, Rivals
<1>8. Looking'
  <2>1. \A e \in Event : Reported(e)' # {} => active'[e] = {}
    BY <1>2, <1>5, <1>6
  <2> QED BY <1>1, <1>3, <2>1, ViewsNext DEF Looking
<1>9. DemuxInv'
  BY <1>1, <1>2, <1>7, <1>8, ViewsNext DEF DemuxInv
<1>10. InLoop' = InLoop
  BY <1>1, <1>3 DEF InLoop
<1>11. /\ active' = [e \in Event |-> IF e \in Here THEN active[e] \cup Reports[e] ELSE active[e]]
       /\ Reports' = [e \in Event |-> IF e \in Here THEN {} ELSE Reports[e]]
  BY <1>1, <1>2, <1>6 DEF Reports
<1>12. CASE Here = {}
  <2>1. active' = active /\ Reports' = Reports /\ Shown' = Shown
    BY <1>2, <1>11, <1>12 DEF IInv, Reports
  <2> QED BY <1>9, <1>10, <2>1 DEF Refines
<1>13. CASE Here # {}
  <2>1. Here \in (SUBSET {e \in Event : Reports[e] # {}}) \ {{}}
    BY <1>2, <1>4, <1>13 DEF Reports
  <2>2. Demux!Report
    BY <1>1, <1>2, <1>10, <1>11, <2>1 DEF Demux!Report, Shown, Reports
  <2> QED BY <1>9, <2>2 DEF Refines, Demux!Next
<1> QED BY <1>12, <1>13

(* Every step of the back ends is one of EvDemux, or not seen.             *)
LEMMA StepRefines == IInv /\ IInv' /\ DemuxInv /\ [Next]_vars => DemuxInv' /\ Refines
<1> SUFFICES ASSUME IInv, IInv', DemuxInv, [Next]_vars PROVE DemuxInv' /\ Refines
  OBVIOUS
<1>1. ASSUME UNCHANGED vars PROVE DemuxInv' /\ Refines
  <2>1. /\ evsel' = evsel /\ evbase' = evbase /\ inserted' = inserted /\ active' = active
        /\ at' = at /\ upto' = upto
    BY <1>1 DEF vars
  <2>2. InLoop' = InLoop
    BY <2>1 DEF InLoop
  <2>3. /\ \A i, d : Found(i, d)' = Found(i, d)
        /\ \A e : Watched(e)' = Watched(e)
    BY <2>1 DEF Found, Watched
  <2>4. \A e : Reported(e)' = Reported(e)
    BY <2>1, <2>2, <2>3 DEF Reported
  <2>5. Shown' = Shown /\ Reports' = Reports
    BY <2>3, <2>4 DEF Shown, Reports
  <2>6. WholeIn(evbase)' <=> WholeIn(evbase)
    BY <2>1 DEF WholeIn, Holds, Slot
  <2>7. Ahead(evbase, at, upto)' <=> Ahead(evbase, at, upto)
    BY <2>1 DEF Ahead, FdAt
  <2>8. DemuxInv'
    BY <2>1, <2>2, <2>4, <2>6, <2>7 DEF DemuxInv, Apart, Looking
  <2> QED BY <2>1, <2>2, <2>5, <2>8 DEF Refines
<1>2. ASSUME NEW e \in Event, Add(e) \/ AddFails(e) \/ Del(e) \/ Run(e) PROVE DemuxInv' /\ Refines
  BY <1>2, AddRefines, AddFailsRefines, DelRefines, RunRefines
<1>3. CASE Wait \/ Turn \/ Return
  BY <1>3, WaitRefines, TurnRefines, ReturnRefines
<1> QED BY <1>1, <1>2, <1>3 DEF Next

(* Each back end, whichever event_init took, implements EvDemux: with poll,*)
(* select and epoll an event is watched from an addition that succeeds to  *)
(* its deletion, a dispatch makes it active once for what its descriptor   *)
(* was ready for, and passes none over although poll's deletions move the  *)
(* places that the loop of the dispatch goes through.                      *)
THEOREM BackendsImplementDemux == Spec => ImplementsDemux
<1>1. Init => Demux!Init /\ DemuxInv
  BY InitRefines
<1>2. IInv /\ IInv' /\ DemuxInv /\ [Next]_vars => DemuxInv' /\ [Demux!Next]_(Demux!vars)
  BY StepRefines DEF Refines, Demux!vars, Shown, Reports
<1> QED BY <1>1, <1>2, BackendsInvariant, PTL DEF Spec, ImplementsDemux, Demux!Spec
================================================================================
