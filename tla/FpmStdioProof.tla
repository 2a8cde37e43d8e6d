---------------------------- MODULE FpmStdioProof ----------------------------
(***************************************************************************)
(* Theorems about the pipes and the output of workers, for any number of   *)
(* children and descriptors, any size of the buffer and any words.         *)
(***************************************************************************)
EXTENDS FpmStdio, SequenceTheorems, FiniteSetTheorems, WellFoundedInduction, TLAPS

(* Every set of naturals that is not empty has a least element. *)
LEMMA LeastLemma ==
  ASSUME NEW T, T \subseteq Nat, T # {}
  PROVE  \E x \in T : \A y \in T : x <= y
<1> DEFINE R == {ss \in Nat \X Nat : ss[1] < ss[2]}
<1>1. IsWellFoundedOn(R, Nat)
  BY NatLessThanWellFounded DEF OpToRel
<1>2. \A y \in Nat, z \in Nat : <<y, z>> \in R <=> y < z
  OBVIOUS
<1> HIDE DEF R
<1>3. PICK x \in T : \A y \in T : ~ (<<y, x>> \in R)
  BY <1>1, WFMin
<1>4. ASSUME NEW y \in T PROVE x <= y
  <2>1. x \in Nat /\ y \in Nat /\ ~ (y < x)
    BY <1>2, <1>3
  <2> QED BY <2>1
<1> QED BY <1>4

(* The least of a set of descriptors is one of them. *)
LEMMA MinLemma ==
  ASSUME NEW T, T \subseteq Nat, T # {}
  PROVE  Min(T) \in T /\ \A y \in T : Min(T) <= y
BY LeastLemma DEF Min

-----------------------------------------------------------------------------
(* Ends and tables of descriptors. *)

Table == [Fd -> End \cup {NoEnd}]

(* The ends of a child. *)
Own(e, c) == \E s \in Stream : e \in {Rd(c, s), Wr(c, s)}

LEMMA EndsLemma ==
  ASSUME NEW c \in Child, NEW s \in Stream
  PROVE  /\ Rd(c, s) \in End /\ Wr(c, s) \in End
         /\ Rd(c, s) # NoEnd /\ Wr(c, s) # NoEnd
         /\ Rd(c, s)[1] = c /\ Wr(c, s)[1] = c
         /\ Rd(c, s)[2] = s /\ Wr(c, s)[2] = s
         /\ \A d \in Child, u \in Stream :
              /\ Rd(c, s) # Wr(d, u)
              /\ Rd(c, s) = Rd(d, u) => c = d /\ s = u
              /\ Wr(c, s) = Wr(d, u) => c = d /\ s = u
BY DEF Rd, Wr, End, NoEnd

LEMMA EndIs == \A e \in End : /\ e # NoEnd /\ e[1] \in Child /\ e[2] \in Stream
                              /\ e = Rd(e[1], e[2]) \/ e = Wr(e[1], e[2])
BY SMTT(30) DEF End, NoEnd, Rd, Wr

LEMMA FdLemma == Fd \subseteq Nat /\ IsFiniteSet(Fd) /\ -1 \notin Fd /\ MaxFd \in Nat
<1>1. MaxFd \in Nat
  BY StdioAssumption
<1>2. IsFiniteSet(Fd)
  BY <1>1, FS_Interval DEF Fd
<1> QED BY <1>1, <1>2 DEF Fd

LEMMA ClosedLemma ==
  ASSUME NEW t \in Table, NEW ns
  PROVE  /\ Closed(t, ns) \in Table
         /\ \A n \in Fd : Closed(t, ns)[n] = IF n \in ns THEN NoEnd ELSE t[n]
BY DEF Closed, Table

(* What pipe() does to a table: two numbers that were not in use are, or it has not *)
(* the room for two.                                                                *)
Opened(t, u, c, s) ==
  \E r \in Fd, w \in Fd : /\ r # w /\ t[r] = NoEnd /\ t[w] = NoEnd
                          /\ u = [t EXCEPT ![r] = Rd(c, s), ![w] = Wr(c, s)]

LEMMA PipeLemma ==
  ASSUME NEW t \in Table, NEW c \in Child, NEW s \in Stream
  PROVE  /\ Pipe(t, c, s) \in Table
         /\ Pipe(t, c, s) = t \/ Opened(t, Pipe(t, c, s), c, s)
         /\ Cardinality(Unused(t)) >= 2 =>
              /\ Opened(t, Pipe(t, c, s), c, s)
              /\ Cardinality(Unused(Pipe(t, c, s))) = Cardinality(Unused(t)) - 2
<1>1. IsFiniteSet(Unused(t)) /\ Cardinality(Unused(t)) \in Nat /\ Unused(t) \subseteq Nat
  BY FdLemma, FS_Subset, FS_CardinalityType DEF Unused
<1>2. CASE Cardinality(Unused(t)) < 2
  BY <1>1, <1>2 DEF Pipe
<1>3. CASE ~ (Cardinality(Unused(t)) < 2)
  <2> DEFINE U == Unused(t)
             r == Min(U)
             w == Min(U \ {r})
             p == [t EXCEPT ![r] = Rd(c, s), ![w] = Wr(c, s)]
  <2>1. U # {}
    BY <1>1, <1>3, FS_EmptySet
  <2>2. r \in U
    BY <2>1, <1>1, MinLemma
  <2>3. IsFiniteSet(U \ {r}) /\ Cardinality(U \ {r}) = Cardinality(U) - 1
    BY <1>1, <2>2, FS_RemoveElement
  <2>4. U \ {r} # {}
    BY <1>1, <1>3, <2>3, FS_EmptySet
  <2>5. w \in U \ {r}
    <3>1. U \ {r} \subseteq Nat
      BY <1>1
    <3> QED BY <3>1, <2>4, MinLemma
  <2>6. Cardinality((U \ {r}) \ {w}) = Cardinality(U) - 2
    <3>1. Cardinality((U \ {r}) \ {w}) = Cardinality(U \ {r}) - 1
      BY <2>3, <2>5, FS_RemoveElement
    <3> QED BY <3>1, <2>3, <1>1
  <2>7. Pipe(t, c, s) = p
    BY <1>3 DEF Pipe
  <2> HIDE DEF r, w
  <2>8. r \in Fd /\ w \in Fd /\ r # w /\ t[r] = NoEnd /\ t[w] = NoEnd
    BY <2>2, <2>5 DEF Unused
  <2>9. p \in Table /\ \A n \in Fd : p[n] = IF n = r THEN Rd(c, s) ELSE IF n = w THEN Wr(c, s) ELSE t[n]
    BY <2>8, EndsLemma DEF Table
  <2>10. Unused(p) = (U \ {r}) \ {w}
    <3>1. Rd(c, s) # NoEnd /\ Wr(c, s) # NoEnd
      BY EndsLemma
    <3> HIDE DEF p
    <3> QED BY <2>8, <2>9, <3>1 DEF Unused
  <2>11. Opened(t, p, c, s)
    BY <2>8 DEF Opened
  <2> QED BY <2>7, <2>9, <2>10, <2>11, <2>6
<1> QED BY <1>2, <1>3, <1>1

(* Closed twice or not, what fpm_stdio_prepare_pipes opened is gone again. *)
NoOwn(t, c) == \A n \in Fd : ~ Own(t[n], c)

AtMostOnce(t, c) == \A n \in Fd, m \in Fd : Own(t[n], c) /\ t[n] = t[m] => n = m

Adds(t, u, c) == \A n \in Fd : u[n] = t[n] \/ (t[n] = NoEnd /\ Own(u[n], c))

Places == [Stream -> [rd : Fd \cup {-1}, wr : Fd \cup {-1}]]

LEMMA NumbersLemma ==
  ASSUME NEW t \in Table, NEW c \in Child
  PROVE  /\ Numbers(t, c) \in Places
         /\ \A s \in Stream, n \in Fd :
              /\ Numbers(t, c)[s].rd = n => t[n] = Rd(c, s)
              /\ Numbers(t, c)[s].wr = n => t[n] = Wr(c, s)
         /\ \A s \in Stream :
              /\ (\E n \in Fd : t[n] = Rd(c, s)) => Numbers(t, c)[s].rd \in Fd
              /\ (\E n \in Fd : t[n] = Wr(c, s)) => Numbers(t, c)[s].wr \in Fd
<1> DEFINE At(e) == IF \E n \in Fd : t[n] = e THEN CHOOSE n \in Fd : t[n] = e ELSE -1
<1>1. Numbers(t, c) = [s \in Stream |-> [rd |-> At(Rd(c, s)), wr |-> At(Wr(c, s))]]
  BY DEF Numbers
<1>2. ASSUME NEW e
      PROVE  /\ At(e) \in Fd \cup {-1}
             /\ (\E n \in Fd : t[n] = e) => At(e) \in Fd
             /\ \A n \in Fd : At(e) = n => t[n] = e
  <2>1. CASE \E n \in Fd : t[n] = e
    BY <2>1
  <2>2. CASE ~ \E n \in Fd : t[n] = e
    BY <2>2, FdLemma
  <2> QED BY <2>1, <2>2
<1> HIDE DEF At
<1>3. ASSUME NEW s \in Stream
      PROVE  Numbers(t, c)[s].rd = At(Rd(c, s)) /\ Numbers(t, c)[s].wr = At(Wr(c, s))
  <2>1. Numbers(t, c)[s] = [rd |-> At(Rd(c, s)), wr |-> At(Wr(c, s))]
    BY <1>1
  <2> QED BY <2>1
<1>4. Numbers(t, c) \in Places
  BY <1>1, <1>2 DEF Places
<1>5. ASSUME NEW s \in Stream, NEW n \in Fd
      PROVE  /\ Numbers(t, c)[s].rd = n => t[n] = Rd(c, s)
             /\ Numbers(t, c)[s].wr = n => t[n] = Wr(c, s)
  <2>1. Numbers(t, c)[s].rd = At(Rd(c, s)) /\ Numbers(t, c)[s].wr = At(Wr(c, s))
    BY <1>3
  <2> QED BY <2>1, <1>2
<1>6. ASSUME NEW s \in Stream
      PROVE  /\ (\E n \in Fd : t[n] = Rd(c, s)) => Numbers(t, c)[s].rd \in Fd
             /\ (\E n \in Fd : t[n] = Wr(c, s)) => Numbers(t, c)[s].wr \in Fd
  <2>1. Numbers(t, c)[s].rd = At(Rd(c, s)) /\ Numbers(t, c)[s].wr = At(Wr(c, s))
    BY <1>3
  <2> QED BY <2>1, <1>2
<1> QED BY <1>4, <1>5, <1>6

LEMMA ClearedLemma ==
  ASSUME NEW t \in Table, NEW u \in Table, NEW c \in Child,
         NoOwn(t, c), AtMostOnce(u, c), Adds(t, u, c)
  PROVE  Closed(u, AllOf(Numbers(u, c))) = t
<1> DEFINE ns == AllOf(Numbers(u, c))
<1>1. ASSUME NEW n \in Fd, Own(u[n], c) PROVE n \in ns
  <2>1. PICK s \in Stream : u[n] \in {Rd(c, s), Wr(c, s)}
    BY <1>1 DEF Own
  <2>2. CASE u[n] = Rd(c, s)
    <3>1. Numbers(u, c)[s].rd \in Fd /\ u[Numbers(u, c)[s].rd] = Rd(c, s)
      BY <2>2, NumbersLemma
    <3>2. Numbers(u, c)[s].rd = n
      BY <3>1, <2>2, <1>1 DEF AtMostOnce
    <3> QED BY <3>2 DEF AllOf
  <2>3. CASE u[n] = Wr(c, s)
    <3>1. Numbers(u, c)[s].wr \in Fd /\ u[Numbers(u, c)[s].wr] = Wr(c, s)
      BY <2>3, NumbersLemma
    <3>2. Numbers(u, c)[s].wr = n
      BY <3>1, <2>3, <1>1 DEF AtMostOnce
    <3> QED BY <3>2 DEF AllOf
  <2> QED BY <2>1, <2>2, <2>3
<1>2. ASSUME NEW n \in Fd, n \in ns PROVE Own(u[n], c)
  <2>1. PICK s \in Stream : n \in {Numbers(u, c)[s].rd, Numbers(u, c)[s].wr}
    BY <1>2 DEF AllOf
  <2> QED BY <2>1, NumbersLemma DEF Own
<1> HIDE DEF ns
<1>3. ASSUME NEW n \in Fd PROVE Closed(u, ns)[n] = t[n]
  BY <1>1, <1>2, ClosedLemma DEF NoOwn, Adds
<1>4. Closed(u, ns) \in Table
  BY ClosedLemma
<1> QED BY <1>3, <1>4 DEF ns, Table

(* One pipe, and both. *)
LEMMA OpenedLemma ==
  ASSUME NEW t \in Table, NEW u, NEW c \in Child, NEW s \in Stream, Opened(t, u, c, s),
         AtMostOnce(t, c), \A n \in Fd : t[n] \notin {Rd(c, s), Wr(c, s)}
  PROVE  /\ Adds(t, u, c) /\ AtMostOnce(u, c)
         /\ \A n \in Fd : u[n] # t[n] => u[n] \in {Rd(c, s), Wr(c, s)}
         /\ \E n \in Fd : u[n] = Rd(c, s)
         /\ \E n \in Fd : u[n] = Wr(c, s)
<1>1. PICK r \in Fd, w \in Fd : /\ r # w /\ t[r] = NoEnd /\ t[w] = NoEnd
                                /\ u = [t EXCEPT ![r] = Rd(c, s), ![w] = Wr(c, s)]
  BY DEF Opened
<1>2. /\ u[r] = Rd(c, s) /\ u[w] = Wr(c, s)
      /\ \A n \in Fd : n # r /\ n # w => u[n] = t[n]
  BY <1>1 DEF Table
<1>3. Adds(t, u, c)
  BY <1>1, <1>2 DEF Adds, Own
<1>4. AtMostOnce(u, c)
  <2>1. Rd(c, s) # Wr(c, s)
    BY EndsLemma
  <2> QED BY <1>2, <2>1 DEF AtMostOnce
<1> QED BY <1>1, <1>2, <1>3, <1>4

LEMMA NoOwnLemma ==
  ASSUME NEW t \in Table, NEW c \in Child, NoOwn(t, c)
  PROVE  /\ AtMostOnce(t, c) /\ Adds(t, t, c)
         /\ \A s \in Stream, n \in Fd : t[n] \notin {Rd(c, s), Wr(c, s)}
BY DEF NoOwn, AtMostOnce, Adds, Own

LEMMA BothPipesLemma ==
  ASSUME NEW t \in Table, NEW c \in Child, NoOwn(t, c),
         NEW u, u \in {t, Pipe(t, c, "out"), Pipe(Pipe(t, c, "out"), c, "err")}
  PROVE  u \in Table /\ Adds(t, u, c) /\ AtMostOnce(u, c)
<1> DEFINE one == Pipe(t, c, "out")
           two == Pipe(one, c, "err")
<1>1. /\ one \in Table /\ Adds(t, one, c) /\ AtMostOnce(one, c)
      /\ \A n \in Fd : one[n] \notin {Rd(c, "err"), Wr(c, "err")}
  <2>1. one \in Table /\ (one = t \/ Opened(t, one, c, "out"))
    BY PipeLemma DEF Stream
  <2> HIDE DEF one
  <2>2. CASE one = t
    BY <2>1, <2>2, NoOwnLemma DEF Stream
  <2>3. CASE Opened(t, one, c, "out")
    <3>1. /\ AtMostOnce(t, c)
          /\ \A s \in Stream, n \in Fd : t[n] \notin {Rd(c, s), Wr(c, s)}
      BY NoOwnLemma
    <3>2. /\ Adds(t, one, c) /\ AtMostOnce(one, c)
          /\ \A n \in Fd : one[n] # t[n] => one[n] \in {Rd(c, "out"), Wr(c, "out")}
      BY <2>3, <3>1, OpenedLemma DEF Stream
    <3>3. ASSUME NEW n \in Fd PROVE one[n] \notin {Rd(c, "err"), Wr(c, "err")}
      <4>1. CASE one[n] = t[n]
        BY <4>1, <3>1 DEF Stream
      <4>2. CASE one[n] # t[n]
        <5>1. one[n] \in {Rd(c, "out"), Wr(c, "out")}
          BY <4>2, <3>2
        <5> QED BY <5>1, EndsLemma DEF Stream
      <4> QED BY <4>1, <4>2
    <3> QED BY <2>1, <3>2, <3>3
  <2> QED BY <2>1, <2>2, <2>3
<1> HIDE DEF one
<1>2. two \in Table /\ Adds(t, two, c) /\ AtMostOnce(two, c)
  <2>1. two \in Table /\ (two = one \/ Opened(one, two, c, "err"))
    BY <1>1, PipeLemma DEF Stream
  <2> HIDE DEF two
  <2>2. CASE Opened(one, two, c, "err")
    <3>1. Adds(one, two, c) /\ AtMostOnce(two, c)
      BY <1>1, <2>2, OpenedLemma DEF Stream
    <3>2. Adds(t, two, c)
      <4>1. ASSUME NEW n \in Fd PROVE two[n] = t[n] \/ (t[n] = NoEnd /\ Own(two[n], c))
        BY <3>1, <1>1 DEF Adds
      <4> QED BY <4>1 DEF Adds
    <3> QED BY <2>1, <3>1, <3>2
  <2> QED BY <2>1, <2>2, <1>1
<1> QED BY <1>1, <1>2, NoOwnLemma DEF one, two

Prepared(t, u, d, c) ==
  /\ u \in Table /\ d \in Places
  /\ \A s \in Stream : /\ d[s].rd \in Fd /\ u[d[s].rd] = Rd(c, s)
                       /\ d[s].wr \in Fd /\ u[d[s].wr] = Wr(c, s)
  /\ \A n \in Fd : \/ u[n] = t[n]
                   \/ t[n] = NoEnd /\ \E s \in Stream : \/ u[n] = Rd(c, s) /\ d[s].rd = n
                                                        \/ u[n] = Wr(c, s) /\ d[s].wr = n

LEMMA PreparedLemma ==
  ASSUME NEW t \in Table, NEW c \in Child, NoOwn(t, c), BothFit(t),
         NEW v, v = Pipe(Pipe(t, c, "out"), c, "err")
  PROVE  Prepared(t, v, Numbers(v, c), c)
<1> DEFINE one == Pipe(t, c, "out")
           u   == Pipe(one, c, "err")
           d   == Numbers(u, c)
<1>1. u \in Table /\ Adds(t, u, c) /\ AtMostOnce(u, c)
  BY BothPipesLemma
<1>2. d \in Places
  BY <1>1, NumbersLemma
<1>3. one \in Table /\ Opened(t, one, c, "out") /\ Opened(one, u, c, "err")
  <2>1. Cardinality(Unused(t)) \in Nat
    <3>1. IsFiniteSet(Unused(t))
      BY FdLemma, FS_Subset DEF Unused
    <3> QED BY <3>1, FS_CardinalityType
  <2>2. /\ one \in Table /\ Opened(t, one, c, "out")
        /\ Cardinality(Unused(one)) = Cardinality(Unused(t)) - 2
    BY <2>1, PipeLemma DEF BothFit, Stream
  <2> HIDE DEF one
  <2>3. Cardinality(Unused(one)) >= 2
    BY <2>1, <2>2 DEF BothFit
  <2>4. Opened(one, u, c, "err")
    BY <2>2, <2>3, PipeLemma DEF Stream
  <2> QED BY <2>2, <2>4
<1>4. ASSUME NEW s \in Stream
      PROVE  (\E n \in Fd : u[n] = Rd(c, s)) /\ (\E n \in Fd : u[n] = Wr(c, s))
  <2> HIDE DEF u, one
  <2>1. /\ AtMostOnce(t, c)
        /\ \A n \in Fd : t[n] \notin {Rd(c, "out"), Wr(c, "out")}
    BY NoOwnLemma DEF Stream
  <2>2. /\ AtMostOnce(one, c)
        /\ \A n \in Fd : one[n] # t[n] => one[n] \in {Rd(c, "out"), Wr(c, "out")}
        /\ \E n \in Fd : one[n] = Rd(c, "out")
        /\ \E n \in Fd : one[n] = Wr(c, "out")
    BY <1>3, <2>1, OpenedLemma DEF Stream
  <2>3. ASSUME NEW n \in Fd PROVE one[n] \notin {Rd(c, "err"), Wr(c, "err")}
    <3>1. CASE one[n] = t[n]
      BY <3>1, NoOwnLemma DEF Stream
    <3>2. CASE one[n] # t[n]
      <4>1. one[n] \in {Rd(c, "out"), Wr(c, "out")}
        BY <3>2, <2>2
      <4> QED BY <4>1, EndsLemma DEF Stream
    <3> QED BY <3>1, <3>2
  <2>4. /\ Adds(one, u, c)
        /\ \E n \in Fd : u[n] = Rd(c, "err")
        /\ \E n \in Fd : u[n] = Wr(c, "err")
    BY <1>3, <2>2, <2>3, OpenedLemma DEF Stream
  <2>5. \A n \in Fd : one[n] \in {Rd(c, "out"), Wr(c, "out")} => u[n] = one[n]
    <3>1. "out" \in Stream /\ Rd(c, "out") # NoEnd /\ Wr(c, "out") # NoEnd
      BY EndsLemma DEF Stream
    <3> QED BY <2>4, <3>1 DEF Adds
  <2>6. CASE s = "out"
    BY <2>6, <2>2, <2>5
  <2>7. CASE s = "err"
    BY <2>7, <2>4
  <2> QED BY <2>6, <2>7 DEF Stream
<1> HIDE DEF u
<1>5. ASSUME NEW s \in Stream
      PROVE  /\ d[s].rd \in Fd /\ u[d[s].rd] = Rd(c, s)
             /\ d[s].wr \in Fd /\ u[d[s].wr] = Wr(c, s)
  BY <1>1, <1>4, NumbersLemma
<1> HIDE DEF d
<1>6. ASSUME NEW n \in Fd
      PROVE  \/ u[n] = t[n]
             \/ t[n] = NoEnd /\ \E s \in Stream :
                  \/ u[n] = Rd(c, s) /\ d[s].rd = n
                  \/ u[n] = Wr(c, s) /\ d[s].wr = n
  <2>1. CASE u[n] # t[n]
    <3>1. t[n] = NoEnd /\ Own(u[n], c)
      BY <2>1, <1>1 DEF Adds
    <3>2. PICK s \in Stream : u[n] \in {Rd(c, s), Wr(c, s)}
      BY <3>1 DEF Own
    <3>3. u[n] = Rd(c, s) => d[s].rd = n
      BY <1>1, <1>5, <3>1 DEF AtMostOnce
    <3>4. u[n] = Wr(c, s) => d[s].wr = n
      BY <1>1, <1>5, <3>1 DEF AtMostOnce
    <3> QED BY <3>1, <3>2, <3>3, <3>4
  <2> QED BY <2>1
<1>7. Prepared(t, u, d, c)
  <2>1. \A s \in Stream : /\ d[s].rd \in Fd /\ u[d[s].rd] = Rd(c, s)
                          /\ d[s].wr \in Fd /\ u[d[s].wr] = Wr(c, s)
    BY <1>5
  <2>2. \A n \in Fd :
          \/ u[n] = t[n]
          \/ t[n] = NoEnd /\ \E s \in Stream : \/ u[n] = Rd(c, s) /\ d[s].rd = n
                                               \/ u[n] = Wr(c, s) /\ d[s].wr = n
    BY <1>6
  <2>3. u \in Table /\ d \in Places
    BY <1>1, <1>2
  <2> QED BY <2>1, <2>2, <2>3 DEF Prepared
<1> QED BY <1>7 DEF d, u

-----------------------------------------------------------------------------
(* Sequences that are cut. *)

LEMMA CutLemma ==
  ASSUME NEW S, NEW b \in Seq(S), NEW k \in 0..Len(b)
  PROVE  /\ SubSeq(b, 1, k) \in Seq(S) /\ Len(SubSeq(b, 1, k)) = k
         /\ SubSeq(b, k + 1, Len(b)) \in Seq(S) /\ Len(SubSeq(b, k + 1, Len(b))) = Len(b) - k
         /\ SubSeq(b, 1, k) \o SubSeq(b, k + 1, Len(b)) = b
<1> DEFINE n == Len(b)
<1>1. n \in Nat
  BY LenProperties
<1>2. \A i \in 1..n : b[i] \in S
  BY ElementOfSeq
<1>3. k \in 0..n
  OBVIOUS
<1>4. SubSeq(b, 1, n) = b
  BY SubSeqFull
<1>5. SubSeq(b, 1, k) \o SubSeq(b, k + 1, n) = b
  <2>1. 1 \in 1..Len(b) + 1 /\ k \in 1 - 1..Len(b) /\ Len(b) \in k..Len(b)
    <3> HIDE DEF n
    <3>1. 1 \in 1..n + 1 /\ k \in 1 - 1..n /\ n \in k..n
      BY ONLY <1>1, <1>3
    <3> QED BY <3>1 DEF n
  <2>2. SubSeq(b, 1, k) \o SubSeq(b, k + 1, Len(b)) = SubSeq(b, 1, Len(b))
    BY <2>1, ConcatAdjacentSubSeq
  <2> QED BY <2>2, <1>4
<1> HIDE DEF n
<1>6. /\ 1 \in Int /\ k \in Int /\ k + 1 \in Int /\ n \in Int
      /\ \A i \in 1..k : i \in 1..n
      /\ \A i \in k + 1..n : i \in 1..n
      /\ (IF 1 <= k THEN k - 1 + 1 ELSE 0) = k
      /\ (IF k + 1 <= n THEN n - (k + 1) + 1 ELSE 0) = n - k
  BY ONLY <1>1, <1>3
<1>7. SubSeq(b, 1, k) \in Seq(S) /\ Len(SubSeq(b, 1, k)) = k
  <2>1. \A i \in 1..k : b[i] \in S
    BY <1>2, <1>6
  <2>2. SubSeq(b, 1, k) \in Seq(S) /\ Len(SubSeq(b, 1, k)) = IF 1 <= k THEN k - 1 + 1 ELSE 0
    BY <2>1, <1>6, SubSeqProperties
  <2> QED BY <2>2, <1>6
<1>8. SubSeq(b, k + 1, n) \in Seq(S) /\ Len(SubSeq(b, k + 1, n)) = n - k
  <2>1. \A i \in k + 1..n : b[i] \in S
    BY <1>2, <1>6
  <2>2. /\ SubSeq(b, k + 1, n) \in Seq(S)
        /\ Len(SubSeq(b, k + 1, n)) = IF k + 1 <= n THEN n - (k + 1) + 1 ELSE 0
    BY <2>1, <1>6, SubSeqProperties
  <2> QED BY <2>2, <1>6
<1> QED BY <1>5, <1>7, <1>8 DEF n

(* What is printed is what the buffer begins with; there is room behind what is left. *)
Printed(b, in, m, rest) ==
  /\ m \in Seq(Char) /\ rest \in Seq(Char) /\ m \o rest = b
  /\ Len(rest) < BufSize
  /\ ~ in /\ b # <<>> => m # <<>>

LEMMA MessageLemma ==
  ASSUME NEW b \in Seq(Char), NEW in \in BOOLEAN, Len(b) <= BufSize
  PROVE  Printed(b, in, Message(b, in), SubSeq(b, Len(Message(b, in)) + 1, Len(b)))
<1> DEFINE m == Message(b, in)
           n == Len(b)
           L == {i \in 1..n : b[i] = "nl"}
<1>1. n \in Nat /\ DOMAIN b = 1..n /\ BufSize \in Nat /\ BufSize # 0 /\ n <= BufSize
  BY LenProperties, StdioAssumption
<1>2. n = 0 => b = <<>>
  BY EmptySeq
<1>3. PICK k \in 0..n : m = SubSeq(b, 1, k) /\ (k = 0 => n # BufSize /\ (in \/ b = <<>>))
  <2>1. CASE "nl" \in Range(b)
    <3>1. L # {} /\ L \subseteq Nat
      BY <2>1, <1>1 DEF Range
    <3>2. Min(L) \in L
      BY <3>1, MinLemma
    <3>3. m = SubSeq(b, 1, Min(L))
      BY <2>1, <1>1 DEF Message
    <3> DEFINE j == Min(L)
    <3> HIDE DEF j, n, m
    <3>4. j \in 1..n
      BY <3>2 DEF j
    <3>5. j \in 0..n /\ j # 0
      BY ONLY <3>4, <1>1
    <3> QED BY <3>3, <3>5 DEF j
  <2>2. CASE "nl" \notin Range(b) /\ MustPrint(b, in)
    <3>1. m = SubSeq(b, 1, n)
      BY <2>2, SubSeqFull DEF Message
    <3> HIDE DEF m, n
    <3>2. n \in 0..n /\ (n = 0 => n # BufSize)
      BY ONLY <1>1
    <3> QED BY <1>2, <3>1, <3>2
  <2>3. CASE "nl" \notin Range(b) /\ ~ MustPrint(b, in)
    <3>1. m = SubSeq(b, 1, 0)
      BY <2>3, SubSeqEmpty DEF Message
    <3>2. in /\ n # BufSize
      BY <2>3 DEF MustPrint
    <3> HIDE DEF m, n
    <3>3. 0 \in 0..n
      BY ONLY <1>1
    <3> QED BY <3>1, <3>2, <3>3
  <2> QED BY <2>1, <2>2, <2>3
<1>4. /\ m \in Seq(Char) /\ Len(m) = k
      /\ SubSeq(b, k + 1, Len(b)) \in Seq(Char) /\ Len(SubSeq(b, k + 1, Len(b))) = n - k
      /\ m \o SubSeq(b, k + 1, Len(b)) = b
  <2> HIDE DEF m
  <2> QED BY <1>3, CutLemma, ZenonT(30)
<1> DEFINE rest == SubSeq(b, Len(m) + 1, Len(b))
<1>5. rest \in Seq(Char) /\ Len(rest) = n - k /\ m \o rest = b
  <2> HIDE DEF m
  <2> QED BY <1>4
<1> HIDE DEF rest, m, n
<1>6. n - k < BufSize
  <2>1. k \in 0..n /\ (k = 0 => n # BufSize)
    BY <1>3
  <2> QED BY ONLY <2>1, <1>1
<1>7. ~ in /\ b # <<>> => m # <<>>
  <2>1. m = <<>> => k = 0
    BY <1>4, EmptySeq
  <2> QED BY <2>1, <1>3
<1>8. Printed(b, in, m, rest)
  BY <1>4, <1>5, <1>6, <1>7 DEF Printed
<1> QED BY <1>8 DEF m, rest

-----------------------------------------------------------------------------
(* The stages of a child follow the place the master is at: it prepares, reads, buries one. *)
Stages ==
  /\ pc = "fork" <=> fresh # NoChild
  /\ pc = "close" => victim # NoChild
  /\ pc \in {"make", "fork", "loop"} => victim = NoChild
  /\ \A c \in Child : /\ stage[c] = "prepared" <=> c = fresh
                      /\ stage[c] = "closing" <=> c = victim
                      /\ stage[c] = "linked" <=> proc[c] # "none"

Live(c) == stage[c] \in {"linked", "closing"}

(* Each descriptor in use is known to one child, under the end it is. *)
Known ==
  \A n \in Fd : tab[n] # NoEnd => \E c \in Child, s \in Stream :
    \/ tab[n] = Rd(c, s) /\ fd[c][s].rd = n
    \/ tab[n] = Wr(c, s) /\ fd[c][s].wr = n /\ stage[c] = "prepared"

(* What a child knows is open. *)
Held ==
  \A c \in Child, s \in Stream :
    /\ stage[c] = "free" => fd[c][s].rd = -1
    /\ fd[c][s].rd # -1 => tab[fd[c][s].rd] = Rd(c, s)
    /\ stage[c] = "prepared" => /\ fd[c][s].rd # -1 /\ fd[c][s].wr \in Fd
                                /\ tab[fd[c][s].wr] = Wr(c, s)
    /\ Live(c) => evfd[c][s] \in Fd /\ fd[c][s].rd \in {-1, evfd[c][s]}
    /\ <<c, s>> \in events => Live(c) /\ fd[c][s].rd # -1

(* Who is read, and that a dead worker's stream is read to its end. *)
Reading ==
  /\ pc # "said" => reader = NoReader
  /\ pc = "said" =>
       /\ reader.child \in Child /\ Live(reader.child)
       /\ victim # NoChild => victim = reader.child /\ half = reader.stream
       /\ reader.fd = evfd[reader.child][reader.stream]
       /\ reader.in => fd[reader.child][reader.stream].rd = reader.fd
       /\ ~ reader.in /\ victim # NoChild => fd[reader.child][reader.stream].rd = -1
  /\ victim # NoChild /\ half = "err" => fd[victim]["out"].rd = -1
  /\ victim = NoChild => half = "out"
  /\ Len(reader.buf) < BufSize

(* What the workers have open. *)
Copies ==
  \A c \in Child :
    /\ proc[c] # "young" => wtab[c] = Empty
    /\ proc[c] # "ready" => \A s \in Stream : std[c][s] = NoEnd
    /\ \A s \in Stream : std[c][s] \in {NoEnd, Wr(c, s)}
    /\ proc[c] = "young" =>
         /\ \A s \in Stream : /\ fd[c][s].rd # -1 /\ fd[c][s].wr \in Fd
                              /\ wtab[c][fd[c][s].wr] = Wr(c, s)
         /\ \A n \in Fd : wtab[c][n] # NoEnd => n \in Released(c)
         /\ \A n \in Fd, d \in Child, s \in Stream : wtab[c][n] = Wr(d, s) => d = c

PipesInv == TypeOK /\ ~ astray /\ Stages /\ Known /\ Held /\ Reading /\ Copies

-----------------------------------------------------------------------------
(* All that the sequences of a sequence say. *)

(* The first k of them, one after the other, in f. *)
Flats(ss, k, f) == f = [i \in 1..k |-> IF i = 1 THEN ss[i] ELSE f[i - 1] \o ss[i]]

(* Three sequences put together in either order. *)
Assoc(a, b, d) == (a \o b) \o d = a \o (b \o d)

LEMMA AssocLemma ==
  ASSUME NEW S, NEW a \in Seq(S), NEW b \in Seq(S), NEW d \in Seq(S)
  PROVE  Assoc(a, b, d)
BY ConcatAssociative DEF Assoc

(* z begins with a. *)
Extends(S, a, z) == \E r \in Seq(S) : z = a \o r

LEMMA ExtendLemma ==
  ASSUME NEW S, NEW a \in Seq(S), NEW z, NEW d \in Seq(S), Extends(S, a, z)
  PROVE  Extends(S, a, z \o d)
<1>1. PICK q \in Seq(S) : z = a \o q
  BY DEF Extends
<1>2. z \o d = a \o (q \o d)
  <2>1. Assoc(a, q, d)
    BY AssocLemma
  <2> QED BY <1>1, <2>1 DEF Assoc
<1>3. q \o d \in Seq(S)
  BY ConcatProperties
<1> QED BY <1>2, <1>3 DEF Extends

LEMMA FlatsExist ==
  ASSUME NEW ss, NEW n \in Nat
  PROVE  \E f : Flats(ss, n, f)
<1> DEFINE T == {k \in Nat : ~ \E f : Flats(ss, k, f)}
<1> SUFFICES ASSUME T # {} PROVE FALSE
  OBVIOUS
<1>1. PICK x \in T : \A y \in T : x <= y
  BY LeastLemma
<1>2. x \in Nat /\ ~ \E f : Flats(ss, x, f)
  OBVIOUS
<1>3. x # 0
  <2>1. Flats(ss, 0, [i \in 1..0 |-> 0])
    BY DEF Flats
  <2> QED BY <1>2, <2>1
<1>4. x - 1 \in Nat /\ x - 1 \notin T
  <2>1. x - 1 \in Nat /\ ~ (x <= x - 1)
    BY <1>2, <1>3
  <2> QED BY <2>1, <1>1
<1>5. PICK f : Flats(ss, x - 1, f)
  BY <1>4
<1> HIDE DEF T
<1> DEFINE g == [i \in 1..x |-> IF i < x THEN f[i] ELSE IF i = 1 THEN ss[i] ELSE f[i - 1] \o ss[i]]
<1>6. ASSUME NEW i \in 1..x PROVE g[i] = IF i = 1 THEN ss[i] ELSE g[i - 1] \o ss[i]
  <2>1. i \in Nat /\ (i # 1 => i - 1 \in 1..x /\ i - 1 < x) /\ (i < x => i \in 1..x - 1)
    BY <1>2
  <2>2. i # 1 => g[i - 1] = f[i - 1]
    BY <2>1
  <2>3. i < x => f[i] = IF i = 1 THEN ss[i] ELSE f[i - 1] \o ss[i]
    BY <2>1, <1>5 DEF Flats
  <2>4. g[i] = IF i < x THEN f[i] ELSE IF i = 1 THEN ss[i] ELSE f[i - 1] \o ss[i]
    OBVIOUS
  <2> HIDE DEF g
  <2> QED BY <2>2, <2>3, <2>4
<1>7. Flats(ss, x, g)
  <2>1. g = [i \in 1..x |-> g[i]]
    OBVIOUS
  <2> HIDE DEF g
  <2> QED BY <2>1, <1>6 DEF Flats
<1> QED BY <1>2, <1>7

LEMMA FlatsAt ==
  ASSUME NEW ss, NEW k, NEW f, Flats(ss, k, f), NEW i \in 1..k
  PROVE  f[i] = IF i = 1 THEN ss[i] ELSE f[i - 1] \o ss[i]
BY DEF Flats

(* The first n sequences are the same. *)
Agree(ss, tt, n) == \A i \in 1..n : ss[i] = tt[i]

LEMMA FlatsAgree ==
  ASSUME NEW ss, NEW tt, NEW n \in Nat, n # 0, Agree(ss, tt, n),
         NEW f, NEW g, Flats(ss, n, f), Flats(tt, n + 1, g)
  PROVE  f[n] = g[n]
<1> DEFINE T == {i \in 1..n : f[i] # g[i]}
<1>1. T = {}
  <2> SUFFICES ASSUME T # {} PROVE FALSE
    OBVIOUS
  <2>1. PICK x \in T : \A y \in T : x <= y
    <3>1. T \subseteq Nat
      OBVIOUS
    <3> HIDE DEF T
    <3> QED BY <3>1, LeastLemma
  <2>2. x \in 1..n /\ x \in 1..n + 1 /\ (x # 1 => x - 1 \in 1..n /\ ~ (x <= x - 1))
    OBVIOUS
  <2>3. x # 1 => f[x - 1] = g[x - 1]
    BY <2>1, <2>2
  <2>4. f[x] = IF x = 1 THEN ss[x] ELSE f[x - 1] \o ss[x]
    BY <2>2, FlatsAt
  <2>5. g[x] = IF x = 1 THEN tt[x] ELSE g[x - 1] \o tt[x]
    BY <2>2, FlatsAt
  <2>6. f[x] = g[x]
    BY <2>2, <2>3, <2>4, <2>5 DEF Agree
  <2> QED BY <2>6
<1>2. n \in 1..n
  OBVIOUS
<1> QED BY <1>1, <1>2

LEMMA FlatsAre ==
  ASSUME NEW S, NEW ss \in Seq(S), Len(ss) # 0
  PROVE  \E f : Flats(ss, Len(ss), f) /\ FlattenSeq(ss) = f[Len(ss)]
<1> DEFINE n == Len(ss)
           f == CHOOSE f : f = [i \in 1..n |-> IF i = 1 THEN ss[i] ELSE f[i - 1] \o ss[i]]
<1>1. n \in Nat
  BY LenProperties
<1>2. FlattenSeq(ss) = f[n]
  BY DEF FlattenSeq
<1>3. \E g : Flats(ss, n, g)
  BY <1>1, FlatsExist
<1>4. Flats(ss, n, f)
  BY <1>3 DEF Flats
<1> QED BY <1>2, <1>4

LEMMA FlattenLemma ==
  ASSUME NEW S, NEW ss \in Seq(Seq(S)), NEW w \in Seq(S)
  PROVE  /\ FlattenSeq(<<>>) = <<>>
         /\ FlattenSeq(Append(ss, w)) = IF ss = <<>> THEN w ELSE FlattenSeq(ss) \o w
<1> DEFINE tt == Append(ss, w)
           n  == Len(ss)
<1>1. n \in Nat
  BY LenProperties
<1>2. tt \in Seq(Seq(S)) /\ Len(tt) = n + 1 /\ tt[n + 1] = w /\ \A i \in 1..n : tt[i] = ss[i]
  BY AppendProperties
<1>3. Len(tt) # 0
  <2> HIDE DEF tt, n
  <2> QED BY ONLY <1>1, <1>2
<1>4. PICK g : Flats(tt, Len(tt), g) /\ FlattenSeq(tt) = g[Len(tt)]
  BY <1>2, <1>3, FlatsAre
<1>5. g[n + 1] = IF n + 1 = 1 THEN w ELSE g[n + 1 - 1] \o w
  <2> DEFINE m == n + 1
  <2>1. m \in 1..m
    <3> HIDE DEF n
    <3> QED BY <1>1
  <2>2. Flats(tt, m, g)
    BY <1>2, <1>4
  <2> HIDE DEF tt, n, m
  <2>3. g[m] = IF m = 1 THEN tt[m] ELSE g[m - 1] \o tt[m]
    BY <2>1, <2>2, FlatsAt
  <2>4. m - 1 = n /\ m = n + 1
    BY <1>1 DEF m
  <2>5. g[m] = IF m = 1 THEN tt[m] ELSE g[n] \o tt[m]
    BY <2>3, <2>4
  <2>6. tt[m] = w
    BY <1>2 DEF m
  <2>7. n + 1 - 1 = n
    BY <1>1
  <2>8. g[m] = IF m = 1 THEN w ELSE g[n + 1 - 1] \o w
    BY <2>5, <2>6, <2>7
  <2> QED BY <2>8 DEF m
<1>6. FlattenSeq(<<>>) = <<>>
  BY EmptySeq DEF FlattenSeq
<1>7. ss = <<>> <=> n = 0
  BY EmptySeq
<1> HIDE DEF tt, n
<1>8. CASE n = 0
  <2>1. n + 1 = 1
    BY <1>8
  <2> QED BY <1>2, <1>4, <1>5, <1>6, <1>7, <1>8, <2>1 DEF tt
<1>9. CASE n # 0
  <2>1. n + 1 # 1 /\ n + 1 - 1 = n /\ n <= n + 1 /\ n <= n /\ n + 1 \in Nat /\ n \in 1..n
    BY ONLY <1>1, <1>9
  <2>2. PICK f : Flats(ss, n, f) /\ FlattenSeq(ss) = f[n]
    BY <1>9, FlatsAre DEF n
  <2>3. f[n] = g[n]
    <3>1. Agree(ss, tt, n) /\ Flats(tt, n + 1, g) /\ Flats(ss, n, f)
      BY <1>2, <1>4, <2>2 DEF Agree
    <3> QED BY ONLY <1>1, <1>9, <3>1, FlatsAgree
  <2>4. FlattenSeq(tt) = g[n] \o w
    BY <1>2, <1>4, <1>5, <2>1
  <2> QED BY <1>6, <1>7, <1>9, <2>2, <2>3, <2>4 DEF tt
<1> QED BY <1>8, <1>9

(* All of the first k, by the number. *)
Flat(ss, k) == FlattenSeq(SubSeq(ss, 1, k))

LEMMA FlatLemma ==
  ASSUME NEW S, NEW ss \in Seq(Seq(S))
  PROVE  /\ Flat(ss, 0) = <<>> /\ Flat(ss, Len(ss)) = FlattenSeq(ss)
         /\ \A k \in 0..Len(ss) : Flat(ss, k) \in Seq(S)
         /\ \A k \in 1..Len(ss) : Flat(ss, k) = Flat(ss, k - 1) \o ss[k]
<1> DEFINE n == Len(ss)
<1>1. n \in Nat /\ \A k \in 1..n : ss[k] \in Seq(S)
  BY LenProperties, ElementOfSeq
<1>2. SubSeq(ss, 1, 0) = <<>> /\ <<>> \in Seq(S) /\ FlattenSeq(<<>>) = <<>>
  BY SubSeqEmpty, EmptySeq, FlattenLemma
<1>3. Flat(ss, 0) = <<>> /\ Flat(ss, n) = FlattenSeq(ss)
  BY <1>2, SubSeqFull DEF Flat
<1>4. ASSUME NEW k \in 1..n
      PROVE  /\ k - 1 \in 0..n
             /\ Flat(ss, k) = IF SubSeq(ss, 1, k - 1) = <<>> THEN ss[k] ELSE Flat(ss, k - 1) \o ss[k]
  <2>1. k - 1 \in 0..n /\ k \in 1..n /\ 1 \in 1..n /\ n \in 1..n
    BY <1>1
  <2>2. SubSeq(ss, 1, k - 1) \in Seq(Seq(S))
    <3> DEFINE i == k - 1
    <3>1. i \in 0..Len(ss)
      BY <2>1
    <3> HIDE DEF i, n
    <3>2. SubSeq(ss, 1, i) \in Seq(Seq(S))
      BY <3>1, CutLemma
    <3> QED BY <3>2 DEF i
  <2>3. SubSeq(ss, 1, k) = Append(SubSeq(ss, 1, k - 1), ss[k])
    <3>1. 1 \in 1..Len(ss) /\ k \in 1..Len(ss)
      BY <2>1
    <3>2. SubSeq(ss, 1, k) = SubSeq(ss, 1, k - 1) \o <<ss[k]>>
      BY <3>1, SubSeqRecursiveSecond
    <3> QED BY <3>2, <2>2, <1>1, AppendIsConcat
  <2> QED BY <2>1, <2>2, <2>3, <1>1, FlattenLemma, ZenonT(30) DEF Flat
<1>5. \A k \in 0..n : Flat(ss, k) \in Seq(S)
  <2> DEFINE T == {k \in 0..n : Flat(ss, k) \notin Seq(S)}
  <2> SUFFICES ASSUME T # {} PROVE FALSE
    OBVIOUS
  <2> HIDE DEF n
  <2>1. T \subseteq Nat
    BY <1>1
  <2>2. PICK x \in T : \A y \in T : x <= y
    BY <2>1, LeastLemma
  <2>3. x # 0
    BY <1>2, <1>3
  <2>4. x \in 1..n /\ x - 1 \in 0..n /\ ~ (x <= x - 1)
    BY <1>1, <2>3
  <2>5. Flat(ss, x - 1) \in Seq(S)
    BY <2>2, <2>4
  <2>6. Flat(ss, x) \in Seq(S)
    BY <1>1, <1>4, <2>4, <2>5, ConcatProperties
  <2> QED BY <2>6
<1>6. ASSUME NEW k \in 1..n PROVE Flat(ss, k) = Flat(ss, k - 1) \o ss[k]
  <2>1. CASE SubSeq(ss, 1, k - 1) = <<>>
    <3>1. Flat(ss, k) = ss[k] /\ Flat(ss, k - 1) = <<>> /\ ss[k] \in Seq(S)
      BY <2>1, <1>1, <1>2, <1>4 DEF Flat
    <3> QED BY <3>1, ConcatEmptySeq
  <2> QED BY <2>1, <1>4
<1> QED BY <1>3, <1>5, <1>6

(* More of them say the same first. *)
LEMMA GrowsLemma ==
  ASSUME NEW S, NEW ss \in Seq(Seq(S)), NEW k \in 0..Len(ss), NEW i \in k..Len(ss)
  PROVE  Extends(S, Flat(ss, k), Flat(ss, i))
<1> DEFINE n == Len(ss)
           T == {j \in k..n : ~ Extends(S, Flat(ss, k), Flat(ss, j))}
<1>1. n \in Nat /\ k \in 0..n /\ k \in Nat
  BY LenProperties
<1>2. \A j \in 1..n : ss[j] \in Seq(S)
  BY ElementOfSeq
<1>3. /\ Flat(ss, n) = FlattenSeq(ss)
      /\ \A j \in 0..n : Flat(ss, j) \in Seq(S)
      /\ \A j \in 1..n : Flat(ss, j) = Flat(ss, j - 1) \o ss[j]
  BY FlatLemma
<1>4. T = {}
  <2> SUFFICES ASSUME T # {} PROVE FALSE
    OBVIOUS
  <2> HIDE DEF n
  <2>1. T \subseteq Nat
    BY <1>1
  <2>2. PICK x \in T : \A y \in T : x <= y
    BY <2>1, LeastLemma
  <2>3. x # k
    <3>1. k \in 0..n
      BY <1>1
    <3>2. Flat(ss, k) = Flat(ss, k) \o <<>> /\ <<>> \in Seq(S)
      BY <1>3, <3>1, ConcatEmptySeq, EmptySeq
    <3> QED BY <3>2 DEF Extends
  <2>4. x \in 1..n /\ x - 1 \in k..n /\ ~ (x <= x - 1) /\ k \in 0..n
    BY <1>1, <2>3
  <2>5. Extends(S, Flat(ss, k), Flat(ss, x - 1))
    BY <2>2, <2>4
  <2>6. Flat(ss, x) = Flat(ss, x - 1) \o ss[x]
    BY <1>3, <2>4
  <2>7. ss[x] \in Seq(S) /\ Flat(ss, k) \in Seq(S)
    BY <1>2, <1>3, <2>4
  <2>8. Extends(S, Flat(ss, k), Flat(ss, x))
    BY <2>5, <2>6, <2>7, ExtendLemma
  <2> QED BY <2>8
<1> QED BY <1>4

-----------------------------------------------------------------------------
(* Lines and words. *)

(* A line that fits the buffer, and nothing but such lines. *)
Line(w)   == Len(w) <= BufSize /\ \A j \in DOMAIN w : w[j] = "nl" <=> j = Len(w)
Lines(ww) == \A i \in DOMAIN ww : Line(ww[i])

LEMMA SayLemma == \A w \in Say : w \in Seq(Char) /\ w # <<>>
BY StdioAssumption

LEMMA WordsLemma ==
  ASSUME NEW ww \in Seq(Say)
  PROVE  /\ ww \in Seq(Seq(Char))
         /\ \A i \in 1..Len(ww) : ww[i] \in Say /\ ww[i] \in Seq(Char) /\ ww[i] # <<>>
<1>1. \A i \in 1..Len(ww) : ww[i] \in Say
  BY ElementOfSeq
<1>2. Say \subseteq Seq(Char)
  BY SayLemma
<1>3. ww \in Seq(Seq(Char))
  BY <1>2
<1> QED BY <1>1, <1>3, SayLemma

LEMMA HeadLemma ==
  ASSUME NEW S, NEW a \in Seq(S), NEW z \in Seq(S)
  PROVE  \A i \in 1..Len(a) : (a \o z)[i] = a[i]
<1> DEFINE p == Len(a)
           q == Len(z)
<1>1. p \in Nat /\ q \in Nat
  BY LenProperties
<1>2. \A i \in 1..p + q : (a \o z)[i] = IF i <= p THEN a[i] ELSE z[i - p]
  BY ConcatProperties
<1> HIDE DEF p, q
<1>3. \A i \in 1..p : i \in 1..p + q /\ i <= p
  BY ONLY <1>1
<1>4. \A i \in 1..p : (a \o z)[i] = a[i]
  BY <1>2, <1>3
<1> QED BY <1>4 DEF p

LEMMA FirstOnesLemma ==
  ASSUME NEW S, NEW b \in Seq(S), NEW k \in 0..Len(b)
  PROVE  \A i \in 1..k : SubSeq(b, 1, k)[i] = b[i]
<1> DEFINE a == SubSeq(b, 1, k)
           z == SubSeq(b, k + 1, Len(b))
<1>1. a \in Seq(S) /\ z \in Seq(S) /\ Len(a) = k /\ a \o z = b
  BY CutLemma
<1> HIDE DEF a, z
<1>2. \A i \in 1..k : b[i] = a[i]
  BY <1>1, HeadLemma
<1> QED BY <1>2 DEF a

(* A line of a buffer that begins with one is found, and nothing but the line. *)
LEMMA FirstLineLemma ==
  ASSUME NEW b \in Seq(Char), NEW x \in Seq(Char), NEW w \in Seq(Char), NEW r \in Seq(Char),
         b \o x = w \o r, Line(w), w # <<>>,
         Len(w) <= Len(b) \/ "nl" \in Range(b)
  PROVE  /\ "nl" \in Range(b)
         /\ SubSeq(b, 1, Min({i \in DOMAIN b : b[i] = "nl"})) = w
<1> DEFINE p == Len(b)
           q == Len(w)
           L == {i \in 1..p : b[i] = "nl"}
<1>1. p \in Nat /\ q \in Nat /\ q # 0 /\ DOMAIN b = 1..p /\ DOMAIN w = 1..q
  BY LenProperties, EmptySeq
<1>2. \A i \in 1..q : w[i] = "nl" <=> i = q
  BY <1>1 DEF Line
<1>3. (\A i \in 1..p : (b \o x)[i] = b[i]) /\ (\A i \in 1..q : (w \o r)[i] = w[i])
  BY HeadLemma
<1>4. \A i \in 1..p : i \in 1..q => b[i] = w[i]
  BY <1>3
<1>5. q <= p \/ "nl" \in Range(b)
  OBVIOUS
<1>6. L = {i \in DOMAIN b : b[i] = "nl"}
  BY <1>1
<1>7. "nl" \in Range(b) <=> L # {}
  BY <1>1 DEF Range
<1> HIDE DEF p, q
<1>8. q \in 1..q /\ (q <= p => q \in 1..p)
  BY ONLY <1>1
<1>9. L # {}
  BY <1>2, <1>4, <1>5, <1>7, <1>8
<1> DEFINE j == Min(L)
<1>10. j \in L /\ \A y \in L : j <= y
  <2>1. L \subseteq Nat
    OBVIOUS
  <2> HIDE DEF L
  <2> QED BY <2>1, <1>9, MinLemma
<1>11. L \subseteq 1..p /\ \A i \in L : b[i] = "nl"
  OBVIOUS
<1>12. q \in 1..p => q \in L
  BY <1>2, <1>4, <1>8
<1> HIDE DEF j, L
<1>13. j = q
  <2>1. ~ (j < q)
    <3> SUFFICES ASSUME j < q PROVE FALSE
      OBVIOUS
    <3>1. j \in 1..p /\ j \in 1..q /\ j # q
      BY <1>1, <1>10, <1>11
    <3> QED BY <3>1, <1>2, <1>4, <1>10, <1>11
  <2>2. ~ (q < j)
    <3> SUFFICES ASSUME q < j PROVE FALSE
      OBVIOUS
    <3>1. q \in 1..p
      BY <1>1, <1>8, <1>10, <1>11
    <3>2. j <= q
      BY <3>1, <1>10, <1>12
    <3> QED BY <3>2, <1>1, <1>10, <1>11
  <2> QED BY <2>1, <2>2, <1>1, <1>10, <1>11
<1>14. SubSeq(b, 1, q) = w
  <2> DEFINE s == SubSeq(b, 1, q)
  <2>1. q \in 0..p /\ q \in 0..Len(b)
    <3>1. q \in 0..p
      BY <1>1, <1>10, <1>11, <1>13
    <3> QED BY <3>1 DEF p
  <2>2. s \in Seq(Char) /\ Len(s) = q /\ \A i \in 1..q : s[i] = b[i]
    BY <2>1, CutLemma, FirstOnesLemma
  <2> HIDE DEF s
  <2>3. \A i \in 1..q : i \in 1..p
    BY <1>1, <2>1
  <2>4. \A i \in 1..Len(s) : s[i] = w[i]
    BY <1>4, <2>2, <2>3
  <2>5. Len(s) = Len(w)
    BY <2>2 DEF q
  <2>6. s = w
    BY <2>2, <2>4, <2>5, SeqEqual
  <2> QED BY <2>6 DEF s
<1> QED BY <1>6, <1>7, <1>9, <1>13, <1>14 DEF j

(* Prefixes by their length. *)
LEMMA PrefixLemma ==
  ASSUME NEW S, NEW ww \in Seq(S)
  PROVE  /\ \A tt \in Seq(S) : IsPrefix(tt, ww) =>
              Len(tt) \in 0..Len(ww) /\ tt = SubSeq(ww, 1, Len(tt))
         /\ \A k \in 0..Len(ww) : IsPrefix(SubSeq(ww, 1, k), ww)
         /\ \A k \in 1..Len(ww) : SubSeq(ww, 1, k) = Append(SubSeq(ww, 1, k - 1), ww[k])
<1> DEFINE n == Len(ww)
<1>1. n \in Nat /\ \A k \in 1..n : ww[k] \in S
  BY LenProperties, ElementOfSeq
<1>2. ASSUME NEW tt \in Seq(S), IsPrefix(tt, ww)
      PROVE  Len(tt) \in 0..n /\ tt = SubSeq(ww, 1, Len(tt))
  <2>1. Len(tt) \in Nat /\ Len(tt) <= n /\ SubSeq(tt, 1, Len(tt)) = SubSeq(ww, 1, Len(tt))
    BY <1>2, LenProperties DEF IsPrefix
  <2>2. SubSeq(tt, 1, Len(tt)) = tt
    BY SubSeqFull
  <2>3. Len(tt) \in 0..n
    <3> DEFINE k == Len(tt)
    <3>1. k \in Nat /\ k <= n
      BY <2>1
    <3> HIDE DEF k, n
    <3>2. k \in 0..n
      BY ONLY <3>1, <1>1
    <3> QED BY <3>2 DEF k
  <2> QED BY <2>1, <2>2, <2>3
<1>3. ASSUME NEW k \in 0..n PROVE IsPrefix(SubSeq(ww, 1, k), ww)
  <2> DEFINE s == SubSeq(ww, 1, k)
  <2>1. s \in Seq(S) /\ Len(s) = k
    BY CutLemma
  <2>2. SubSeq(s, 1, k) = s
    <3> HIDE DEF s
    <3> QED BY <2>1, SubSeqFull
  <2>3. k <= n
    <3> HIDE DEF n
    <3> QED BY <1>1
  <2> QED BY <2>1, <2>2, <2>3 DEF IsPrefix
<1>4. ASSUME NEW k \in 1..n PROVE SubSeq(ww, 1, k) = Append(SubSeq(ww, 1, k - 1), ww[k])
  <2>1. k - 1 \in 0..n /\ k \in 1..n /\ 1 \in 1..n
    <3> HIDE DEF n
    <3> QED BY <1>1
  <2>2. SubSeq(ww, 1, k - 1) \in Seq(S)
    <3>1. k - 1 \in 0..Len(ww)
      BY <2>1
    <3> QED BY <3>1, CutLemma
  <2>3. SubSeq(ww, 1, k) = SubSeq(ww, 1, k - 1) \o <<ww[k]>>
    BY <2>1, SubSeqRecursiveSecond
  <2> QED BY <2>2, <2>3, <1>1, AppendIsConcat
<1> QED BY <1>2, <1>3, <1>4

-----------------------------------------------------------------------------
(* One stream: what was logged, what is in the buffer and in the pipe, what was       *)
(* written; in as in reader.                                                          *)
Accounted(tt, b, x, ww, in) ==
  /\ (FlattenSeq(tt) \o b) \o x = FlattenSeq(ww)
  /\ ~ in => \E k \in 0..Len(ww) : FlattenSeq(tt) \o b = Flat(ww, k)
  /\ Lines(ww) => IsPrefix(tt, ww)

LEMMA FlattenType ==
  ASSUME NEW S, NEW ss \in Seq(Seq(S))
  PROVE  FlattenSeq(ss) \in Seq(S)
<1> DEFINE n == Len(ss)
<1>1. n \in Nat
  BY LenProperties
<1> HIDE DEF n
<1>2. n \in 0..n
  BY <1>1
<1>3. Flat(ss, n) = FlattenSeq(ss) /\ Flat(ss, n) \in Seq(S)
  BY <1>2, FlatLemma DEF n
<1> QED BY <1>3

LEMMA CancelLemma ==
  ASSUME NEW S, NEW a \in Seq(S), NEW b \in Seq(S), NEW d \in Seq(S), a \o b = a \o d
  PROVE  b = d
BY ConcatSimplifications

(* Nothing is behind what is already all. *)
LEMMA NothingBehindLemma ==
  ASSUME NEW S, NEW a \in Seq(S), NEW b \in Seq(S), NEW d \in Seq(S), (a \o b) \o d = a
  PROVE  b = <<>>
<1>1. b \o d \in Seq(S)
  BY ConcatProperties
<1>2. a \o (b \o d) = a
  <2>1. Assoc(a, b, d)
    BY AssocLemma
  <2> QED BY <2>1 DEF Assoc
<1>3. b \o d = <<>>
  BY <1>1, <1>2, ConcatEqualIffEmpty
<1> QED BY <1>3, ConcatEqualIffEmpty

LEMMA LongerLemma ==
  ASSUME NEW S, NEW w \in Seq(S), NEW r \in Seq(S)
  PROVE  Len(w) <= Len(w \o r)
<1> DEFINE p == Len(w)
           q == Len(r)
           l == Len(w \o r)
<1>1. p \in Nat /\ q \in Nat /\ l = p + q
  BY LenProperties, ConcatProperties
<1> HIDE DEF p, q, l
<1>2. p <= l
  BY ONLY <1>1
<1> QED BY <1>2 DEF p, l

(* If nothing but lines is written, what is printed is the next of them: a line stands *)
(* at the begin of the buffer, and if all of the buffer must be printed it is there to *)
(* its end.                                                                            *)
LEMMA NextLineLemma ==
  ASSUME NEW ww \in Seq(Say), Lines(ww), NEW k \in 0..Len(ww),
         NEW b \in Seq(Char), NEW x \in Seq(Char), Len(b) <= BufSize, NEW in \in BOOLEAN,
         (Flat(ww, k) \o b) \o x = FlattenSeq(ww),
         ~ in => \E i \in 0..Len(ww) : Flat(ww, k) \o b = Flat(ww, i),
         Message(b, in) # <<>>
  PROVE  k + 1 \in 1..Len(ww) /\ Message(b, in) = ww[k + 1]
<1> DEFINE n == Len(ww)
           a == Flat(ww, k)
<1>1. n \in Nat /\ k \in 0..n /\ k \in Nat /\ BufSize \in Nat /\ BufSize # 0
  BY LenProperties, StdioAssumption
<1>2. ww \in Seq(Seq(Char)) /\ \A i \in 1..n : ww[i] \in Seq(Char) /\ ww[i] # <<>>
  BY WordsLemma
<1>3. /\ a \in Seq(Char) /\ Flat(ww, n) = FlattenSeq(ww)
      /\ \A i \in 0..n : Flat(ww, i) \in Seq(Char)
      /\ \A i \in 1..n : Flat(ww, i) = Flat(ww, i - 1) \o ww[i]
  BY <1>2, FlatLemma
<1>4. \A i \in 0..n, j \in 0..n : i <= j => Extends(Char, Flat(ww, i), Flat(ww, j))
  <2> SUFFICES ASSUME NEW i \in 0..n, NEW j \in 0..n, i <= j
               PROVE  Extends(Char, Flat(ww, i), Flat(ww, j))
    OBVIOUS
  <2>1. i \in 0..Len(ww) /\ j \in i..Len(ww)
    <3>1. j \in i..n
      <4> HIDE DEF n
      <4> QED BY <1>1
    <3> QED BY <3>1
  <2> QED BY <2>1, <1>2, GrowsLemma
<1>5. b # <<>>
  <2> SUFFICES ASSUME b = <<>> PROVE FALSE
    OBVIOUS
  <2>1. Range(b) = {}
    BY DEF Range
  <2> QED BY <2>1 DEF Message
<1> HIDE DEF n, a
<1>6. k # n
  <2> SUFFICES ASSUME k = n PROVE FALSE
    OBVIOUS
  <2>1. (a \o b) \o x = a
    BY <1>3 DEF a
  <2> QED BY <2>1, <1>3, <1>5, NothingBehindLemma
<1> DEFINE m == k + 1
           w == ww[m]
<1>7. m \in 1..n /\ m \in 0..n /\ m - 1 = k /\ n \in 0..n /\ m <= n
  BY <1>1, <1>6
<1>8. w \in Seq(Char) /\ w # <<>> /\ Line(w)
  <2>1. DOMAIN ww = 1..n
    BY LenProperties DEF n
  <2> HIDE DEF m
  <2> QED BY <2>1, <1>2, <1>7 DEF Lines
<1>9. Flat(ww, m) = a \o w
  <2> HIDE DEF m
  <2> QED BY <1>3, <1>7 DEF a, w
<1> HIDE DEF m, w
<1>10. PICK r \in Seq(Char) : (a \o b) \o x = (a \o w) \o r
  <2>1. Extends(Char, a \o w, FlattenSeq(ww))
    BY <1>3, <1>4, <1>7, <1>9
  <2>2. (a \o b) \o x = FlattenSeq(ww)
    BY DEF a
  <2> QED BY <2>1, <2>2 DEF Extends
<1>11. b \o x = w \o r
  <2>1. /\ a \in Seq(Char) /\ b \in Seq(Char) /\ x \in Seq(Char) /\ w \in Seq(Char) /\ r \in Seq(Char)
        /\ (a \o b) \o x = (a \o w) \o r
    BY <1>3, <1>8, <1>10
  <2>2. Assoc(a, b, x) /\ Assoc(a, w, r)
    BY <2>1, AssocLemma
  <2> DEFINE y == b \o x
             z == w \o r
  <2>3. a \o y = a \o z
    BY <2>1, <2>2 DEF Assoc
  <2>4. y \in Seq(Char) /\ z \in Seq(Char)
    BY <2>1, ConcatProperties
  <2> HIDE DEF y, z
  <2>5. y = z
    BY <2>1, <2>3, <2>4, CancelLemma
  <2> QED BY <2>5 DEF y, z
<1>12. Len(w) <= Len(b) \/ "nl" \in Range(b)
  <2> SUFFICES ASSUME "nl" \notin Range(b) PROVE Len(w) <= Len(b)
    OBVIOUS
  <2>1. MustPrint(b, in)
    BY DEF Message
  <2>2. CASE Len(b) = BufSize
    BY <2>2, <1>8 DEF Line
  <2>3. CASE ~ in
    <3>1. PICK i \in 0..n : a \o b = Flat(ww, i)
      BY <2>3 DEF a, n
    <3>2. CASE i <= k
      <4>1. Extends(Char, a \o b, a)
        BY <3>1, <3>2, <1>1, <1>4 DEF a
      <4>2. PICK q \in Seq(Char) : a = (a \o b) \o q
        BY <4>1 DEF Extends
      <4> QED BY <4>2, <1>3, <1>5, NothingBehindLemma
    <3>3. CASE ~ (i <= k)
      <4>1. m <= i
        BY <3>3, <1>1 DEF m
      <4>2. Extends(Char, a \o w, a \o b)
        BY <3>1, <4>1, <1>4, <1>7, <1>9
      <4>3. PICK q \in Seq(Char) : a \o b = (a \o w) \o q
        BY <4>2 DEF Extends
      <4>4. w \o q \in Seq(Char)
        BY <1>8, ConcatProperties
      <4>5. a \o b = a \o (w \o q)
        <5>1. Assoc(a, w, q)
          BY <1>3, <1>8, AssocLemma
        <5> QED BY <4>3, <5>1 DEF Assoc
      <4>6. b = w \o q
        BY <4>4, <4>5, <1>3, CancelLemma
      <4> QED BY <4>6, <1>8, LongerLemma
    <3> QED BY <3>2, <3>3
  <2> QED BY <2>1, <2>2, <2>3 DEF MustPrint
<1>13. "nl" \in Range(b) /\ SubSeq(b, 1, Min({i \in DOMAIN b : b[i] = "nl"})) = w
  BY <1>8, <1>11, <1>12, FirstLineLemma
<1>14. Message(b, in) = w
  BY <1>13 DEF Message
<1> QED BY <1>7, <1>14 DEF m, w, n

(* A message that is logged leaves the account as it was. *)
LEMMA PrintsLemma ==
  ASSUME NEW tt \in Seq(Seq(Char)), NEW b \in Seq(Char), NEW x \in Seq(Char),
         NEW ww \in Seq(Say), NEW in \in BOOLEAN, Len(b) <= BufSize, Accounted(tt, b, x, ww, in),
         NEW m, m = Message(b, in), NEW rest, rest = SubSeq(b, Len(m) + 1, Len(b))
  PROVE  Accounted(IF m = <<>> THEN tt ELSE Append(tt, m), rest, x, ww, in)
<1> DEFINE uu == IF m = <<>> THEN tt ELSE Append(tt, m)
<1>1. m \in Seq(Char) /\ rest \in Seq(Char) /\ m \o rest = b
  <2>1. b \in Seq(Char) /\ in \in BOOLEAN /\ Len(b) <= BufSize
    OBVIOUS
  <2>2. Printed(b, in, Message(b, in), SubSeq(b, Len(Message(b, in)) + 1, Len(b)))
    BY ONLY <2>1, MessageLemma
  <2>3. Printed(b, in, m, rest)
    BY <2>2
  <2> QED BY <2>3 DEF Printed
<1>2. FlattenSeq(tt) \in Seq(Char)
  BY FlattenType
<1>3. FlattenSeq(uu) = FlattenSeq(tt) \o m
  <2>1. CASE m = <<>>
    BY <2>1, <1>2, ConcatEmptySeq
  <2>2. CASE m # <<>> /\ tt = <<>>
    BY <2>2, <1>1, FlattenLemma, ConcatEmptySeq
  <2>3. CASE m # <<>> /\ tt # <<>>
    BY <2>3, <1>1, FlattenLemma
  <2> QED BY <2>1, <2>2, <2>3
<1>4. FlattenSeq(uu) \o rest = FlattenSeq(tt) \o b
  <2> DEFINE f == FlattenSeq(tt)
  <2>1. f \in Seq(Char) /\ FlattenSeq(uu) = f \o m
    BY <1>2, <1>3
  <2> HIDE DEF f, uu
  <2>2. Assoc(f, m, rest)
    BY <1>1, <2>1, AssocLemma
  <2>3. FlattenSeq(uu) \o rest = f \o b
    BY <1>1, <2>1, <2>2 DEF Assoc
  <2> QED BY <2>3 DEF f
<1>5. Lines(ww) => IsPrefix(uu, ww)
  <2> SUFFICES ASSUME Lines(ww), m # <<>> PROVE IsPrefix(Append(tt, m), ww)
    BY DEF Accounted
  <2> DEFINE k == Len(tt)
  <2>1. ww \in Seq(Seq(Char))
    BY WordsLemma
  <2>2. IsPrefix(tt, ww)
    BY DEF Accounted
  <2>3. k \in 0..Len(ww) /\ tt = SubSeq(ww, 1, k)
    BY <2>1, <2>2, PrefixLemma
  <2> HIDE DEF k
  <2>4. FlattenSeq(tt) = Flat(ww, k)
    BY <2>3 DEF Flat
  <2>5. /\ (Flat(ww, k) \o b) \o x = FlattenSeq(ww)
        /\ ~ in => \E i \in 0..Len(ww) : Flat(ww, k) \o b = Flat(ww, i)
    BY <2>4 DEF Accounted
  <2>6. k + 1 \in 1..Len(ww) /\ m = ww[k + 1]
    BY <2>3, <2>5, NextLineLemma
  <2> DEFINE i == k + 1
  <2>7. i - 1 = k /\ i \in 1..Len(ww) /\ m = ww[i]
    BY <2>3, <2>6
  <2> HIDE DEF i
  <2>8. SubSeq(ww, 1, i) = Append(SubSeq(ww, 1, i - 1), ww[i])
    BY <2>1, <2>7, PrefixLemma
  <2>9. SubSeq(ww, 1, i) = Append(tt, m)
    BY <2>3, <2>7, <2>8
  <2>10. i \in 0..Len(ww)
    <3> DEFINE n == Len(ww)
    <3>1. i \in 1..n
      BY <2>7
    <3> HIDE DEF n
    <3>2. i \in 0..n
      BY ONLY <3>1
    <3> QED BY <3>2 DEF n
  <2>11. IsPrefix(SubSeq(ww, 1, i), ww)
    BY <2>1, <2>10, PrefixLemma
  <2> QED BY <2>9, <2>11
<1> HIDE DEF uu
<1>6. Accounted(uu, rest, x, ww, in)
  BY <1>4, <1>5 DEF Accounted
<1> QED BY <1>6 DEF uu

(* So does a read, with more to come. *)
LEMMA ReadsLemma ==
  ASSUME NEW tt \in Seq(Seq(Char)), NEW b \in Seq(Char), NEW x \in Seq(Char), NEW ww,
         NEW n \in 0..Len(x), Accounted(tt, b, x, ww, TRUE)
  PROVE  Accounted(tt, b \o SubSeq(x, 1, n), SubSeq(x, n + 1, Len(x)), ww, TRUE)
<1> DEFINE f == FlattenSeq(tt)
           y == SubSeq(x, 1, n)
           z == SubSeq(x, n + 1, Len(x))
<1>1. f \in Seq(Char)
  BY FlattenType
<1>2. y \in Seq(Char) /\ z \in Seq(Char) /\ y \o z = x
  BY CutLemma
<1>3. (f \o b) \o x = FlattenSeq(ww) /\ (Lines(ww) => IsPrefix(tt, ww))
  BY DEF Accounted
<1> HIDE DEF f, y, z
<1>4. f \o b \in Seq(Char)
  BY <1>1, ConcatProperties
<1>5. ((f \o b) \o y) \o z = (f \o b) \o x
  <2>1. Assoc(f \o b, y, z)
    BY <1>2, <1>4, AssocLemma
  <2> QED BY <1>2, <2>1 DEF Assoc
<1>6. (f \o b) \o y = f \o (b \o y)
  <2>1. Assoc(f, b, y)
    BY <1>1, <1>2, AssocLemma
  <2> QED BY <2>1 DEF Assoc
<1> QED BY <1>3, <1>5, <1>6 DEF Accounted, f, y, z

(* When the pipe is empty all that was written is logged or in the buffer. *)
LEMMA DrainedLemma ==
  ASSUME NEW tt \in Seq(Seq(Char)), NEW b \in Seq(Char), NEW ww \in Seq(Say),
         Accounted(tt, b, <<>>, ww, TRUE)
  PROVE  Accounted(tt, b, <<>>, ww, FALSE)
<1> DEFINE f == FlattenSeq(tt)
           n == Len(ww)
<1>1. f \o b \in Seq(Char)
  BY FlattenType, ConcatProperties
<1>2. f \o b = FlattenSeq(ww)
  BY <1>1, ConcatEmptySeq DEF Accounted
<1>3. n \in 0..n
  <2>1. n \in Nat
    BY LenProperties
  <2> HIDE DEF n
  <2> QED BY <2>1
<1>4. f \o b = Flat(ww, n)
  BY <1>2, WordsLemma, FlatLemma
<1> QED BY <1>3, <1>4 DEF Accounted

(* What is written is in the pipe. *)
LEMMA WritesLemma ==
  ASSUME NEW tt \in Seq(Seq(Char)), NEW b \in Seq(Char), NEW x \in Seq(Char), NEW ww \in Seq(Say),
         NEW in \in BOOLEAN, NEW w \in Say, Accounted(tt, b, x, ww, in)
  PROVE  Accounted(tt, b, x \o w, Append(ww, w), in)
<1> DEFINE f == FlattenSeq(tt)
           v == Append(ww, w)
           n == Len(ww)
           m == Len(v)
<1>1. f \in Seq(Char) /\ f \o b \in Seq(Char) /\ w \in Seq(Char)
  BY FlattenType, ConcatProperties, SayLemma
<1>2. /\ ww \in Seq(Seq(Char)) /\ FlattenSeq(ww) \in Seq(Char)
      /\ v \in Seq(Say) /\ v \in Seq(Seq(Char))
  BY WordsLemma, FlattenType, AppendProperties
<1>3. n \in Nat /\ m = n + 1 /\ \A i \in 1..n : v[i] = ww[i]
  BY LenProperties, AppendProperties
<1>4. FlattenSeq(v) = FlattenSeq(ww) \o w
  <2>1. CASE ww = <<>>
    <3>1. <<>> \in Seq(Seq(Char)) /\ FlattenSeq(<<>>) = <<>>
      BY <2>1, <1>1, <1>2, FlattenLemma
    <3>2. FlattenSeq(v) = w
      BY <2>1, <1>1, <1>2, FlattenLemma
    <3>3. <<>> \o w = w
      BY <1>1, ConcatEmptySeq
    <3> QED BY <2>1, <3>1, <3>2, <3>3
  <2>2. CASE ww # <<>>
    BY <2>2, <1>1, <1>2, FlattenLemma
  <2> QED BY <2>1, <2>2
<1>5. (f \o b) \o (x \o w) = FlattenSeq(v)
  <2>1. ((f \o b) \o x) \o w = (f \o b) \o (x \o w)
    <3>1. Assoc(f \o b, x, w)
      BY <1>1, AssocLemma
    <3> QED BY <3>1 DEF Assoc
  <2> QED BY <2>1, <1>4 DEF Accounted
<1> HIDE DEF f, v, n, m
<1>6. \A k \in 0..n : k \in 0..m /\ SubSeq(v, 1, k) = SubSeq(ww, 1, k)
  <2> SUFFICES ASSUME NEW k \in 0..n PROVE k \in 0..m /\ SubSeq(v, 1, k) = SubSeq(ww, 1, k)
    OBVIOUS
  <2>1. k \in 0..m /\ \A i \in 1..k : i \in 1..n
    BY <1>3
  <2>2. k \in 0..Len(v) /\ k \in 0..Len(ww)
    BY <2>1 DEF n, m
  <2>3. /\ SubSeq(v, 1, k) \in Seq(Say) /\ Len(SubSeq(v, 1, k)) = k
        /\ SubSeq(ww, 1, k) \in Seq(Say) /\ Len(SubSeq(ww, 1, k)) = k
    BY <1>2, <2>2, CutLemma
  <2>4. \A i \in 1..k : SubSeq(v, 1, k)[i] = v[i] /\ SubSeq(ww, 1, k)[i] = ww[i]
    BY <1>2, <2>2, FirstOnesLemma
  <2>5. \A i \in 1..k : SubSeq(v, 1, k)[i] = SubSeq(ww, 1, k)[i]
    BY <1>3, <2>1, <2>4
  <2>6. SubSeq(v, 1, k) = SubSeq(ww, 1, k)
    BY <2>3, <2>5, SeqEqual
  <2> QED BY <2>1, <2>6
<1>7. ~ in => \E k \in 0..m : f \o b = Flat(v, k)
  <2> SUFFICES ASSUME ~ in PROVE \E k \in 0..m : f \o b = Flat(v, k)
    OBVIOUS
  <2>1. PICK k \in 0..n : f \o b = Flat(ww, k)
    BY DEF Accounted, f, n
  <2>2. k \in 0..m /\ Flat(v, k) = Flat(ww, k)
    BY <1>6 DEF Flat
  <2> QED BY <2>1, <2>2
<1>8. Lines(v) => IsPrefix(tt, v)
  <2> SUFFICES ASSUME Lines(v) PROVE IsPrefix(tt, v)
    OBVIOUS
  <2>1. Lines(ww)
    <3>1. DOMAIN v = 1..m /\ DOMAIN ww = 1..n
      BY <1>2, LenProperties DEF m, n
    <3>2. \A i \in 1..n : i \in 1..m
      BY <1>3
    <3> QED BY <3>1, <3>2, <1>3 DEF Lines
  <2>2. IsPrefix(tt, ww)
    BY <2>1 DEF Accounted
  <2> DEFINE k == Len(tt)
  <2>3. k \in 0..n /\ tt = SubSeq(ww, 1, k)
    BY <2>2, <1>2, PrefixLemma DEF n
  <2> HIDE DEF k
  <2>4. k \in 0..m /\ tt = SubSeq(v, 1, k)
    BY <2>3, <1>6
  <2>5. k \in 0..Len(v)
    BY <2>4 DEF m
  <2>6. IsPrefix(SubSeq(v, 1, k), v)
    BY <1>2, <2>5, PrefixLemma
  <2> QED BY <2>4, <2>6
<1> QED BY <1>5, <1>7, <1>8 DEF Accounted, f, v, m

(* At the begin there is nothing to account for. *)
LEMMA NothingSaidLemma == Accounted(<<>>, <<>>, <<>>, <<>>, TRUE)
<1>1. FlattenSeq(<<>>) = <<>> /\ <<>> \in Seq(Char)
  <2>1. <<>> \in Seq(Seq(Char)) /\ <<>> \in Seq(Char)
    BY EmptySeq
  <2> QED BY <2>1, FlattenLemma
<1>2. <<>> \o <<>> = <<>>
  BY <1>1, ConcatEmptySeq
<1>3. IsPrefix(<<>>, <<>>)
  BY DEF IsPrefix
<1> QED BY <1>1, <1>2, <1>3 DEF Accounted

(* A callback begins with nothing in the buffer. *)
LEMMA AccountedIn ==
  ASSUME NEW tt, NEW b, NEW x, NEW ww, NEW in, Accounted(tt, b, x, ww, in)
  PROVE  Accounted(tt, b, x, ww, TRUE)
BY DEF Accounted

-----------------------------------------------------------------------------
(* What holds before a step, in the words the steps need. *)

LEMMA FreeLemma ==
  ASSUME PipesInv, NEW c \in Child, stage[c] = "free"
  PROVE  NoOwn(tab, c)
<1> SUFFICES ASSUME NEW n \in Fd, NEW s \in Stream, tab[n] \in {Rd(c, s), Wr(c, s)} PROVE FALSE
  BY DEF NoOwn, Own
<1>1. tab[n] # NoEnd
  BY EndsLemma
<1>2. PICK d \in Child, u \in Stream : \/ tab[n] = Rd(d, u) /\ fd[d][u].rd = n
                                       \/ tab[n] = Wr(d, u) /\ fd[d][u].wr = n /\ stage[d] = "prepared"
  BY <1>1 DEF PipesInv, Known
<1>3. d = c
  BY <1>2, EndsLemma
<1> QED BY <1>2, <1>3, FdLemma DEF PipesInv, Held

LEMMA TableLemma == TypeOK => tab \in Table /\ \A c \in Child : wtab[c] \in Table
BY DEF TypeOK, Table

LEMMA PlacesLemma ==
  ASSUME TypeOK, NEW c \in Child, NEW s \in Stream
  PROVE  fd[c][s].rd \in Fd \cup {-1} /\ fd[c][s].wr \in Fd \cup {-1} /\ evfd[c][s] \in Fd \cup {-1}
<1>1. fd[c][s] \in [rd : Fd \cup {-1}, wr : Fd \cup {-1}] /\ evfd[c][s] \in Fd \cup {-1}
  BY DEF TypeOK
<1> QED BY <1>1

LEMMA MishapLemma ==
  TypeOK /\ (Mishap \/ UNCHANGED quota) => quota' \in [said : 0..MaxSaid, mishaps : 0..MaxMishaps]
<1> SUFFICES ASSUME TypeOK, Mishap PROVE quota' \in [said : 0..MaxSaid, mishaps : 0..MaxMishaps]
  BY DEF TypeOK
<1>1. /\ quota \in [said : 0..MaxSaid, mishaps : 0..MaxMishaps]
      /\ quota.mishaps > 0 /\ quota' = [quota EXCEPT !.mishaps = @ - 1]
  BY DEF TypeOK, Mishap
<1>2. quota.mishaps - 1 \in 0..MaxMishaps
  BY <1>1, StdioAssumption
<1> QED BY <1>1, <1>2

LEMMA CloseLemma ==
  ASSUME tab \in Table, NEW ns, NEW c \in Child, Close(tab, ns, c), astray \in BOOLEAN
  PROVE  /\ tab' \in Table
         /\ \A n \in Fd : tab'[n] = IF n \in ns THEN NoEnd ELSE tab[n]
         /\ astray' \in BOOLEAN
         /\ ~ astray /\ (\A n \in ns \cap Fd : tab[n] # NoEnd => tab[n][1] = c) => ~ astray'
BY ClosedLemma DEF Close

(* No process has the end a child's stdout or stderr writes to, once the child is not *)
(* starting and has not its own.                                                      *)
LEMMA NobodyWrites ==
  ASSUME PipesInv, NEW c \in Child, NEW s \in Stream, stage[c] = "closing"
  PROVE  ~ IsOpen(Wr(c, s))
<1>1. proc[c] = "none"
  BY DEF PipesInv, Stages
<1>2. ASSUME NEW n \in Fd, tab[n] = Wr(c, s) PROVE FALSE
  BY <1>2, EndsLemma DEF PipesInv, Known
<1>3. ASSUME NEW n \in Fd, NEW d \in Child, wtab[d][n] = Wr(c, s) PROVE FALSE
  <2>1. Empty[n] = NoEnd
    BY DEF Empty
  <2>2. proc[d] = "young"
    BY <1>3, <2>1, EndsLemma DEF PipesInv, Copies
  <2> QED BY <1>1, <1>3, <2>2 DEF PipesInv, Copies
<1>4. ASSUME NEW u \in Stream, NEW d \in Child, std[d][u] = Wr(c, s) PROVE FALSE
  <2>1. d = c
    BY <1>4, EndsLemma DEF PipesInv, Copies
  <2> QED BY <1>1, <1>4, <2>1, EndsLemma DEF PipesInv, Copies
<1> QED BY <1>2, <1>3, <1>4 DEF IsOpen

(* The reader reads its child's pipe. *)
LEMMA ReaderLemma ==
  ASSUME PipesInv, pc = "said", reader.in
  PROVE  /\ reader.child \in Child /\ reader.stream \in Stream
         /\ reader.fd \in Fd /\ fd[reader.child][reader.stream].rd = reader.fd
         /\ tab[reader.fd] = Rd(reader.child, reader.stream)
         /\ tab[reader.fd] # NoEnd
         /\ tab[reader.fd][1] = reader.child /\ tab[reader.fd][2] = reader.stream
         /\ Room(reader.buf) \in Nat /\ Room(reader.buf) > 0
<1>1. reader.child \in Child /\ reader.stream \in Stream /\ Len(reader.buf) < BufSize
  BY DEF PipesInv, Reading, TypeOK
<1>2. reader.fd \in Fd /\ fd[reader.child][reader.stream].rd = reader.fd
  BY <1>1 DEF PipesInv, Reading, Held
<1>3. tab[reader.fd] = Rd(reader.child, reader.stream)
  <2>1. fd[reader.child][reader.stream].rd # -1
    BY <1>2, FdLemma
  <2>2. tab[fd[reader.child][reader.stream].rd] = Rd(reader.child, reader.stream)
    BY <1>1, <2>1 DEF PipesInv, Held
  <2> QED BY <2>2, <1>2
<1>4. Len(reader.buf) \in Nat /\ BufSize \in Nat
  BY StdioAssumption, LenProperties DEF PipesInv, TypeOK
<1>5. Room(reader.buf) \in Nat /\ Room(reader.buf) > 0
  BY <1>1, <1>4 DEF Room
<1> QED BY <1>1, <1>2, <1>3, <1>5, EndsLemma

(* What is logged and what stays in the buffer. *)
LEMMA LogLemma ==
  ASSUME PipesInv, pc = "said", NEW b \in Seq(Char), Len(b) <= BufSize, NEW in \in BOOLEAN,
         Log(b, in)
  PROVE  /\ reader' \in [child : Child \cup {NoChild}, stream : Stream, fd : Fd \cup {-1},
                         buf : Seq(Char), in : BOOLEAN]
         /\ reader'.child = reader.child /\ reader'.stream = reader.stream
         /\ reader'.fd = reader.fd /\ reader'.in = in
         /\ Len(reader'.buf) < BufSize
         /\ told' \in [Child -> [Stream -> Seq(Seq(Char))]]
<1> DEFINE m    == Message(b, in)
           rest == SubSeq(b, Len(m) + 1, Len(b))
<1>1. Printed(b, in, m, rest)
  BY MessageLemma
<1>2. /\ reader' = [reader EXCEPT !.buf = rest, !.in = in]
      /\ told' = IF m = <<>> THEN told
                 ELSE [told EXCEPT ![reader.child][reader.stream] = Append(@, m)]
  BY DEF Log
<1> HIDE DEF m, rest
<1>3. m \in Seq(Char) /\ rest \in Seq(Char) /\ Len(rest) < BufSize
  BY <1>1 DEF Printed
<1>4. /\ reader \in [child : Child \cup {NoChild}, stream : Stream, fd : Fd \cup {-1},
                     buf : Seq(Char), in : BOOLEAN]
      /\ reader.child \in Child /\ reader.stream \in Stream
      /\ told \in [Child -> [Stream -> Seq(Seq(Char))]]
  BY DEF PipesInv, TypeOK, Reading
<1>5. told' \in [Child -> [Stream -> Seq(Seq(Char))]]
  <2>1. Append(told[reader.child][reader.stream], m) \in Seq(Seq(Char))
    BY <1>3, <1>4, AppendProperties
  <2> QED BY <1>2, <1>4, <2>1
<1> QED BY <1>2, <1>3, <1>4, <1>5

LEMMA PipesInit == Init => PipesInv
<1> SUFFICES ASSUME Init PROVE PipesInv
  OBVIOUS
<1>1. <<>> \in Seq(Char) /\ Len(<<>>) = 0 /\ BufSize \in Nat /\ 0 < BufSize /\ <<>> \in Seq(Say)
      /\ <<>> \in Seq(Seq(Char))
  BY EmptySeq, StdioAssumption
<1>2. NoReader \in [child : Child \cup {NoChild}, stream : Stream, fd : Fd \cup {-1},
                    buf : Seq(Char), in : BOOLEAN]
      /\ Len(NoReader.buf) < BufSize /\ Len(NoReader.buf) <= BufSize
  BY <1>1 DEF NoReader, Stream
<1>3. fd \in [Child -> Places]
  BY DEF Init, OfBoth, Places
<1>4. quota \in [said : 0..MaxSaid, mishaps : 0..MaxMishaps]
  BY StdioAssumption DEF Init
<1>5. /\ text \in [Child -> [Stream -> Seq(Char)]]
      /\ written \in [Child -> [Stream -> Seq(Say)]]
      /\ told \in [Child -> [Stream -> Seq(Seq(Char))]]
  BY <1>1 DEF Init, OfBoth
<1>6. TypeOK
  BY <1>1, <1>2, <1>3, <1>4, <1>5 DEF Init, TypeOK, Places, OfBoth, Empty, Stream
<1>7. Stages
  BY StdioAssumption DEF Init, Stages
<1>8. Known /\ Held
  BY DEF Init, Known, Held, Live, OfBoth, Empty
<1>9. Reading
  BY <1>2 DEF Init, Reading
<1>10. Copies
  BY DEF Init, Copies, OfBoth
<1> QED BY <1>6, <1>7, <1>8, <1>9, <1>10 DEF PipesInv, Init

-----------------------------------------------------------------------------
(* fpm_children_make keeps the pipes in order. *)

LEMMA PreparePipesStep ==
  ASSUME PipesInv, NEW c \in Child, PreparePipes(c)
  PROVE  PipesInv'
<1> DEFINE u == Pipe(Pipe(tab, c, "out"), c, "err")
           d == Numbers(u, c)
<1>1. /\ pc = "make" /\ stage[c] = "free" /\ BothFit(tab)
      /\ pc' = "fork" /\ fresh' = c
      /\ stage' = [stage EXCEPT ![c] = "prepared"]
      /\ fd' = [fd EXCEPT ![c] = d] /\ tab' = u
      /\ UNCHANGED <<victim, half, reader, evfd, events, active, workers, words, astray, quota>>
  BY DEF PreparePipes, MayMake
<1>2. Prepared(tab, u, d, c)
  BY <1>1, FreeLemma, TableLemma, PreparedLemma DEF PipesInv
<1> HIDE DEF u, d
<1>3. TypeOK'
  <2>1. tab' \in [Fd -> End \cup {NoEnd}] /\ d \in [Stream -> [rd : Fd \cup {-1}, wr : Fd \cup {-1}]]
    BY <1>1, <1>2 DEF Prepared, Table, Places
  <2> QED BY <1>1, <2>1 DEF PipesInv, TypeOK, workers, words
<1>4. Stages'
  BY <1>1, StdioAssumption DEF PipesInv, TypeOK, Stages, workers
<1>5. \A e \in Child : e # c => fd'[e] = fd[e] /\ stage'[e] = stage[e]
  BY <1>1 DEF PipesInv, TypeOK
<1>6. fd'[c] = d /\ stage'[c] = "prepared"
  BY <1>1 DEF PipesInv, TypeOK
<1>7. Known'
  <2> SUFFICES ASSUME NEW n \in Fd, tab'[n] # NoEnd
               PROVE  \E e \in Child, s \in Stream :
                        \/ tab'[n] = Rd(e, s) /\ fd'[e][s].rd = n
                        \/ tab'[n] = Wr(e, s) /\ fd'[e][s].wr = n /\ stage'[e] = "prepared"
    BY DEF Known
  <2>1. CASE tab'[n] = tab[n]
    <3>1. PICK e \in Child, s \in Stream : \/ tab[n] = Rd(e, s) /\ fd[e][s].rd = n
                                           \/ tab[n] = Wr(e, s) /\ fd[e][s].wr = n /\ stage[e] = "prepared"
      BY <2>1 DEF PipesInv, Known
    <3>2. e # c
      BY <3>1, <1>1, FreeLemma DEF NoOwn, Own
    <3> QED BY <2>1, <3>1, <3>2, <1>5
  <2>2. CASE tab'[n] # tab[n]
    BY <2>2, <1>1, <1>2, <1>6 DEF Prepared
  <2> QED BY <2>1, <2>2
<1>8. ASSUME NEW e \in Child, NEW s \in Stream
      PROVE  /\ stage'[e] = "free" => fd'[e][s].rd = -1
             /\ fd'[e][s].rd # -1 => tab'[fd'[e][s].rd] = Rd(e, s)
             /\ stage'[e] = "prepared" => /\ fd'[e][s].rd # -1 /\ fd'[e][s].wr \in Fd
                                          /\ tab'[fd'[e][s].wr] = Wr(e, s)
             /\ Live(e)' => evfd'[e][s] \in Fd /\ fd'[e][s].rd \in {-1, evfd'[e][s]}
             /\ <<e, s>> \in events' => Live(e)' /\ fd'[e][s].rd # -1
  <2>1. CASE e = c
    BY <2>1, <1>1, <1>2, <1>6, FdLemma DEF Prepared, PipesInv, Held, Live
  <2>2. CASE e # c
    <3>1. fd'[e] = fd[e] /\ stage'[e] = stage[e] /\ stage[e] # "prepared"
      BY <2>2, <1>1, <1>5, <1>4 DEF Stages
    <3>2. fd[e][s].rd # -1 => fd[e][s].rd \in Fd /\ tab'[fd[e][s].rd] = Rd(e, s)
      <4>1. fd[e][s].rd # -1 => fd[e][s].rd \in Fd /\ tab[fd[e][s].rd] = Rd(e, s)
        BY PlacesLemma DEF PipesInv, Held
      <4>2. Rd(e, s) # NoEnd
        BY EndsLemma
      <4> QED BY <4>1, <4>2, <1>1, <1>2 DEF Prepared
    <3> QED BY <1>1, <3>1, <3>2 DEF PipesInv, Held, Live
  <2> QED BY <2>1, <2>2
<1>9. Held'
  BY <1>8 DEF Held
<1>10. Reading'
  BY <1>1, <1>5 DEF PipesInv, Reading, Stages
<1>11. Copies'
  <2>1. \A e \in Child : proc[e] = "young" => e # c
    BY <1>1 DEF PipesInv, Stages
  <2> QED BY <1>1, <1>5, <2>1 DEF PipesInv, Copies, workers, Released, AllOf
<1> QED BY <1>1, <1>3, <1>4, <1>7, <1>9, <1>10, <1>11 DEF PipesInv

LEMMA PreparePipesFailsStep ==
  ASSUME PipesInv, NEW c \in Child, PreparePipesFails(c)
  PROVE  PipesInv'
<1>1. /\ pc = "make" /\ stage[c] = "free" /\ (Mishap \/ UNCHANGED quota)
      /\ pc' = "loop"
      /\ UNCHANGED <<fresh, victim, half, reader, structs, workers, words>>
  BY DEF PreparePipesFails, MayMake
<1>2. tab' = tab /\ astray' = astray
  <2>1. PICK t \in {tab, Pipe(tab, c, "out"), Pipe(Pipe(tab, c, "out"), c, "err")} :
          Close(Closed(t, AllOf(Numbers(t, c))), AllOf(Numbers(t, c)), c)
    BY DEF PreparePipesFails
  <2>2. tab \in Table /\ NoOwn(tab, c)
    BY <1>1, FreeLemma, TableLemma DEF PipesInv
  <2>3. t \in Table /\ Adds(tab, t, c) /\ AtMostOnce(t, c)
    BY <2>2, BothPipesLemma
  <2> DEFINE ns == AllOf(Numbers(t, c))
  <2>4. Closed(t, ns) = tab
    BY <2>2, <2>3, ClearedLemma
  <2> HIDE DEF ns
  <2>5. \A n \in ns \cap Fd : tab[n] = NoEnd
    BY <2>3, <2>4, ClosedLemma
  <2>6. tab' = Closed(tab, ns) /\ astray' = (astray \/ \E n \in ns \cap Fd : tab[n] # NoEnd /\ tab[n][1] # c)
    BY <2>1, <2>4 DEF Close, ns
  <2>7. Closed(tab, ns) = tab
    <3>1. \A n \in Fd : Closed(tab, ns)[n] = tab[n]
      BY <2>2, <2>5, ClosedLemma
    <3> QED BY <2>2, <3>1, ClosedLemma DEF Table
  <2>8. astray' = astray
    BY <2>5, <2>6 DEF PipesInv, TypeOK
  <2> QED BY <2>6, <2>7, <2>8
<1>3. TypeOK'
  BY <1>1, <1>2, MishapLemma DEF PipesInv, TypeOK, structs, workers, words
<1> QED BY <1>1, <1>2, <1>3, SMTT(30)
        DEF PipesInv, Stages, Known, Held, Live, Reading, Copies, Released, AllOf, structs, workers

LEMMA DiscardStep ==
  ASSUME PipesInv, NEW c \in Child, Discard(c)
  PROVE  PipesInv'
<1>1. /\ pc = "fork" /\ c = fresh /\ Mishap /\ Close(tab, AllOf(fd[c]), c)
      /\ pc' = "loop" /\ fresh' = NoChild
      /\ stage' = [stage EXCEPT ![c] = "free"]
      /\ fd' = [fd EXCEPT ![c] = OfBoth([rd |-> -1, wr |-> -1])]
      /\ UNCHANGED <<victim, half, reader, evfd, events, active, workers, words>>
  BY DEF Discard
<1>2. stage[c] = "prepared"
  BY <1>1 DEF PipesInv, Stages
<1>3. \A s \in Stream : /\ fd[c][s].rd \in Fd /\ tab[fd[c][s].rd] = Rd(c, s)
                        /\ fd[c][s].wr \in Fd /\ tab[fd[c][s].wr] = Wr(c, s)
  BY <1>2, PlacesLemma, ZenonT(30) DEF PipesInv, Held
<1>4. \A n \in AllOf(fd[c]) : tab[n][1] = c /\ Own(tab[n], c)
  BY <1>3, EndsLemma DEF AllOf, Own
<1>5. /\ tab' \in Table /\ ~ astray' /\ astray' \in BOOLEAN
      /\ \A n \in Fd : tab'[n] = IF n \in AllOf(fd[c]) THEN NoEnd ELSE tab[n]
  <2>1. tab \in Table /\ ~ astray /\ astray \in BOOLEAN
    BY TableLemma DEF PipesInv, TypeOK
  <2> QED BY <1>1, <1>4, <2>1, CloseLemma
<1>6. \A e \in Child : e # c => fd'[e] = fd[e] /\ stage'[e] = stage[e]
  BY <1>1 DEF PipesInv, TypeOK
<1>7. stage'[c] = "free" /\ \A s \in Stream : fd'[c][s].rd = -1
  BY <1>1 DEF PipesInv, TypeOK, OfBoth
<1>8. TypeOK'
  <2>1. tab' \in [Fd -> End \cup {NoEnd}] /\ astray' \in BOOLEAN
    BY <1>5 DEF Table
  <2>2. OfBoth([rd |-> -1, wr |-> -1]) \in [Stream -> [rd : Fd \cup {-1}, wr : Fd \cup {-1}]]
    BY DEF OfBoth
  <2> QED BY <1>1, <2>1, <2>2, MishapLemma DEF PipesInv, TypeOK, workers, words
<1>9. Stages'
  BY <1>1, <1>2, <1>6, <1>7, StdioAssumption DEF PipesInv, Stages, workers
<1>10. Known'
  <2> SUFFICES ASSUME NEW n \in Fd, tab'[n] # NoEnd
               PROVE  \E e \in Child, s \in Stream :
                        \/ tab'[n] = Rd(e, s) /\ fd'[e][s].rd = n
                        \/ tab'[n] = Wr(e, s) /\ fd'[e][s].wr = n /\ stage'[e] = "prepared"
    BY DEF Known
  <2>1. tab'[n] = tab[n] /\ n \notin AllOf(fd[c])
    BY <1>5
  <2>2. PICK e \in Child, s \in Stream : \/ tab[n] = Rd(e, s) /\ fd[e][s].rd = n
                                         \/ tab[n] = Wr(e, s) /\ fd[e][s].wr = n /\ stage[e] = "prepared"
    BY <2>1 DEF PipesInv, Known
  <2>3. e # c
    BY <2>1, <2>2 DEF AllOf
  <2> QED BY <2>1, <2>2, <2>3, <1>6
<1>11. ASSUME NEW e \in Child, NEW s \in Stream
      PROVE  /\ stage'[e] = "free" => fd'[e][s].rd = -1
             /\ fd'[e][s].rd # -1 => tab'[fd'[e][s].rd] = Rd(e, s)
             /\ stage'[e] = "prepared" => /\ fd'[e][s].rd # -1 /\ fd'[e][s].wr \in Fd
                                          /\ tab'[fd'[e][s].wr] = Wr(e, s)
             /\ Live(e)' => evfd'[e][s] \in Fd /\ fd'[e][s].rd \in {-1, evfd'[e][s]}
             /\ <<e, s>> \in events' => Live(e)' /\ fd'[e][s].rd # -1
  <2>1. CASE e = c
    BY <2>1, <1>1, <1>2, <1>7 DEF PipesInv, Held, Live
  <2>2. CASE e # c
    <3>1. fd'[e] = fd[e] /\ stage'[e] = stage[e] /\ stage[e] # "prepared"
      BY <2>2, <1>1, <1>6 DEF PipesInv, Stages
    <3>2. fd[e][s].rd # -1 => tab'[fd[e][s].rd] = Rd(e, s)
      <4>1. fd[e][s].rd # -1 => fd[e][s].rd \in Fd /\ tab[fd[e][s].rd] = Rd(e, s)
        BY PlacesLemma DEF PipesInv, Held
      <4>2. Rd(e, s)[1] = e
        BY EndsLemma
      <4> QED BY <4>1, <4>2, <2>2, <1>4, <1>5
    <3> QED BY <1>1, <3>1, <3>2 DEF PipesInv, Held, Live
  <2> QED BY <2>1, <2>2
<1>12. Held'
  BY <1>11 DEF Held
<1>13. Reading'
  BY <1>1, <1>6 DEF PipesInv, Reading, Stages
<1>14. Copies'
  <2>1. \A e \in Child : proc[e] = "young" => e # c
    BY <1>2 DEF PipesInv, Stages
  <2> QED BY <1>1, <1>6, <2>1 DEF PipesInv, Copies, workers, Released, AllOf
<1> QED BY <1>5, <1>8, <1>9, <1>10, <1>12, <1>13, <1>14 DEF PipesInv

LEMMA ForkStep ==
  ASSUME PipesInv, NEW c \in Child, Fork(c)
  PROVE  PipesInv'
<1>1. /\ pc = "fork" /\ c = fresh /\ pc' = "make" /\ fresh' = NoChild
      /\ stage' = [stage EXCEPT ![c] = "linked"]
      /\ Close(tab, WritersOf(fd[c]), c)
      /\ evfd' = [evfd EXCEPT ![c] = [s \in Stream |-> fd[c][s].rd]]
      /\ events \subseteq events' /\ events' \subseteq events \cup ({c} \X Stream)
      /\ (Mishap \/ UNCHANGED quota)
      /\ proc' = [proc EXCEPT ![c] = "young"]
      /\ wtab' = [wtab EXCEPT ![c] = tab]
      /\ list' = [list EXCEPT ![c] = {fd[d][s].rd : d \in {e \in Child : stage[e] = "linked"},
                                                    s \in Stream} \ {-1}]
      /\ UNCHANGED <<victim, half, reader, fd, active, std, words>>
  BY DEF Fork, ParentUsesPipes
<1>2. stage[c] = "prepared" /\ proc[c] = "none"
  BY <1>1 DEF PipesInv, Stages, TypeOK
<1>3. \A s \in Stream : /\ fd[c][s].rd \in Fd /\ tab[fd[c][s].rd] = Rd(c, s)
                        /\ fd[c][s].wr \in Fd /\ tab[fd[c][s].wr] = Wr(c, s)
  BY <1>2, PlacesLemma DEF PipesInv, Held
<1>4. /\ tab' \in Table /\ ~ astray' /\ astray' \in BOOLEAN
      /\ \A n \in Fd : tab'[n] = IF n \in WritersOf(fd[c]) THEN NoEnd ELSE tab[n]
  <2>1. \A n \in WritersOf(fd[c]) : tab[n][1] = c
    BY <1>3, EndsLemma DEF WritersOf
  <2>2. tab \in Table /\ ~ astray /\ astray \in BOOLEAN
    BY TableLemma DEF PipesInv, TypeOK
  <2> QED BY <1>1, <2>1, <2>2, CloseLemma
<1>5. \A e \in Child : e # c => /\ evfd'[e] = evfd[e] /\ stage'[e] = stage[e]
                                /\ proc'[e] = proc[e] /\ wtab'[e] = wtab[e] /\ list'[e] = list[e]
  BY <1>1 DEF PipesInv, TypeOK
<1>6. /\ stage'[c] = "linked" /\ proc'[c] = "young" /\ wtab'[c] = tab
      /\ \A s \in Stream : evfd'[c][s] = fd[c][s].rd
      /\ list'[c] = {fd[d][s].rd : d \in {e \in Child : stage[e] = "linked"}, s \in Stream} \ {-1}
  BY <1>1 DEF PipesInv, TypeOK
<1>7. TypeOK'
  <2>1. tab' \in [Fd -> End \cup {NoEnd}] /\ astray' \in BOOLEAN
    BY <1>4 DEF Table
  <2>2. [s \in Stream |-> fd[c][s].rd] \in [Stream -> Fd \cup {-1}]
    BY <1>3
  <2>3. {fd[d][s].rd : d \in {e \in Child : stage[e] = "linked"}, s \in Stream} \ {-1} \in SUBSET Fd
    BY PlacesLemma DEF PipesInv
  <2>4. events' \subseteq Child \X Stream /\ active' \subseteq events'
    BY <1>1 DEF PipesInv, TypeOK
  <2>5. list' \in [Child -> SUBSET Fd]
    <3> DEFINE L == {fd[d][s].rd : d \in {e \in Child : stage[e] = "linked"}, s \in Stream} \ {-1}
    <3>1. L \in SUBSET Fd /\ list' = [list EXCEPT ![c] = L]
      BY <1>1, <2>3
    <3>2. list \in [Child -> SUBSET Fd]
      BY DEF PipesInv, TypeOK
    <3> HIDE DEF L
    <3> QED BY <3>1, <3>2
  <2>6. evfd' \in [Child -> [Stream -> Fd \cup {-1}]]
    BY <1>1, <2>2 DEF PipesInv, TypeOK
  <2> QED BY <1>1, <2>1, <2>4, <2>5, <2>6, MishapLemma DEF PipesInv, TypeOK, words
<1>8. Stages'
  BY <1>1, <1>2, <1>5, <1>6, StdioAssumption DEF PipesInv, Stages
<1>9. Known'
  <2> SUFFICES ASSUME NEW n \in Fd, tab'[n] # NoEnd
               PROVE  \E e \in Child, s \in Stream :
                        \/ tab'[n] = Rd(e, s) /\ fd'[e][s].rd = n
                        \/ tab'[n] = Wr(e, s) /\ fd'[e][s].wr = n /\ stage'[e] = "prepared"
    BY DEF Known
  <2>1. tab'[n] = tab[n] /\ n \notin WritersOf(fd[c])
    BY <1>4
  <2>2. PICK e \in Child, s \in Stream : \/ tab[n] = Rd(e, s) /\ fd[e][s].rd = n
                                         \/ tab[n] = Wr(e, s) /\ fd[e][s].wr = n /\ stage[e] = "prepared"
    BY <2>1 DEF PipesInv, Known
  <2>3. tab[n] = Rd(e, s) /\ fd[e][s].rd = n
    BY <2>1, <2>2, <1>1 DEF WritersOf, PipesInv, Stages
  <2> QED BY <2>1, <2>3, <1>1
<1>10. ASSUME NEW e \in Child, NEW s \in Stream
      PROVE  /\ stage'[e] = "free" => fd'[e][s].rd = -1
             /\ fd'[e][s].rd # -1 => tab'[fd'[e][s].rd] = Rd(e, s)
             /\ stage'[e] = "prepared" => /\ fd'[e][s].rd # -1 /\ fd'[e][s].wr \in Fd
                                          /\ tab'[fd'[e][s].wr] = Wr(e, s)
             /\ Live(e)' => evfd'[e][s] \in Fd /\ fd'[e][s].rd \in {-1, evfd'[e][s]}
             /\ <<e, s>> \in events' => Live(e)' /\ fd'[e][s].rd # -1
  <2>1. fd'[e][s].rd # -1 => tab'[fd'[e][s].rd] = Rd(e, s)
    <3>1. fd[e][s].rd # -1 => fd[e][s].rd \in Fd /\ tab[fd[e][s].rd] = Rd(e, s)
      BY PlacesLemma DEF PipesInv, Held
    <3>2. fd[e][s].rd # -1 => fd[e][s].rd \notin WritersOf(fd[c])
      BY <3>1, <1>3, EndsLemma DEF WritersOf
    <3> QED BY <3>1, <3>2, <1>1, <1>4
  <2>2. CASE e = c
    BY <2>1, <2>2, <1>1, <1>3, <1>6, FdLemma DEF Live
  <2>3. CASE e # c
    <3>1. fd' = fd /\ stage'[e] = stage[e] /\ stage[e] # "prepared" /\ evfd'[e] = evfd[e]
      BY <2>3, <1>1, <1>5 DEF PipesInv, Stages
    <3>2. <<e, s>> \in events' => <<e, s>> \in events
      BY <2>3, <1>1
    <3> QED BY <3>1, <3>2, <2>1 DEF PipesInv, Held, Live
  <2> QED BY <2>2, <2>3
<1>11. Held'
  BY <1>10 DEF Held
<1>12. Reading'
  BY <1>1 DEF PipesInv, Reading, Stages
<1>13. ASSUME NEW n \in Fd, tab[n] # NoEnd PROVE n \in AllOf(fd[c]) \cup list'[c]
  <2>1. PICK e \in Child, s \in Stream : \/ tab[n] = Rd(e, s) /\ fd[e][s].rd = n
                                         \/ tab[n] = Wr(e, s) /\ fd[e][s].wr = n /\ stage[e] = "prepared"
    BY <1>13 DEF PipesInv, Known
  <2>2. CASE e = c
    BY <2>1, <2>2 DEF AllOf
  <2>3. CASE e # c
    <3>1. stage[e] # "prepared" /\ stage[e] # "closing"
      BY <2>3, <1>1, StdioAssumption DEF PipesInv, Stages
    <3>2. fd[e][s].rd = n /\ n # -1
      BY <2>1, <3>1, FdLemma
    <3>3. stage[e] = "linked"
      BY <3>1, <3>2 DEF PipesInv, TypeOK, Held
    <3> QED BY <3>2, <3>3, <1>6
  <2> QED BY <2>2, <2>3
<1>14. ASSUME NEW n \in Fd, NEW d \in Child, NEW s \in Stream, tab[n] = Wr(d, s) PROVE d = c
  <2>1. tab[n] # NoEnd
    BY <1>14, EndsLemma
  <2>2. PICK e \in Child, u \in Stream : \/ tab[n] = Rd(e, u) /\ fd[e][u].rd = n
                                         \/ tab[n] = Wr(e, u) /\ fd[e][u].wr = n /\ stage[e] = "prepared"
    BY <2>1 DEF PipesInv, Known
  <2>3. e = d /\ stage[e] = "prepared"
    BY <2>2, <1>14, EndsLemma
  <2> QED BY <2>3, <1>1 DEF PipesInv, Stages
<1>15. ASSUME NEW e \in Child
       PROVE  /\ proc'[e] # "young" => wtab'[e] = Empty
              /\ proc'[e] # "ready" => \A s \in Stream : std'[e][s] = NoEnd
              /\ \A s \in Stream : std'[e][s] \in {NoEnd, Wr(e, s)}
              /\ proc'[e] = "young" =>
                   /\ \A s \in Stream : /\ fd'[e][s].rd # -1 /\ fd'[e][s].wr \in Fd
                                        /\ wtab'[e][fd'[e][s].wr] = Wr(e, s)
                   /\ \A n \in Fd : wtab'[e][n] # NoEnd => n \in Released(e)'
                   /\ \A n \in Fd, d \in Child, s \in Stream : wtab'[e][n] = Wr(d, s) => d = e
  <2>1. CASE e = c
    <3>1. Released(c)' = AllOf(fd[c]) \cup list'[c]
      BY <1>1 DEF Released
    <3>2. \A s \in Stream : std'[c][s] = NoEnd
      BY <1>1, <1>2 DEF PipesInv, Copies
    <3>3. \A s \in Stream : fd'[c][s].rd # -1 /\ fd'[c][s].wr \in Fd /\ wtab'[c][fd'[c][s].wr] = Wr(c, s)
      BY <1>1, <1>3, <1>6, FdLemma
    <3> QED BY <2>1, <1>6, <3>1, <3>2, <3>3, <1>13, <1>14
  <2>2. CASE e # c
    BY <2>2, <1>1, <1>5 DEF PipesInv, Copies, Released
  <2> QED BY <2>1, <2>2
<1>16. Copies'
  BY <1>15 DEF Copies
<1> QED BY <1>4, <1>7, <1>8, <1>9, <1>11, <1>12, <1>16 DEF PipesInv

LEMMA MakeEndsStep == PipesInv /\ MakeEnds => PipesInv'
<1> SUFFICES ASSUME PipesInv, MakeEnds PROVE PipesInv'
  OBVIOUS
<1>1. /\ pc = "make" /\ pc' = "loop"
      /\ UNCHANGED <<fresh, victim, half, reader, structs, tab, workers, words, astray, quota>>
  BY DEF MakeEnds
<1>2. TypeOK' /\ Stages'
  BY <1>1 DEF PipesInv, TypeOK, Stages, structs, workers, words
<1> QED BY <1>1, <1>2
        DEF PipesInv, Known, Held, Live, Reading, Copies, Released, AllOf, structs, workers

-----------------------------------------------------------------------------
(* So do the workers, whatever they do. *)

LEMMA WorkerStartsStep ==
  ASSUME PipesInv, NEW c \in Child, WorkerStarts(c)
  PROVE  PipesInv'
<1>1. /\ proc[c] = "young" /\ proc' = [proc EXCEPT ![c] = "ready"]
      /\ std' = [std EXCEPT ![c] = [s \in Stream |-> wtab[c][fd[c][s].wr]]]
      /\ wtab' = [wtab EXCEPT ![c] = Closed(wtab[c], Released(c))]
      /\ list' = [list EXCEPT ![c] = {}]
      /\ UNCHANGED <<master, structs, tab, words, astray, quota>>
  BY DEF WorkerStarts
<1>2. \A s \in Stream : wtab[c][fd[c][s].wr] = Wr(c, s)
  BY <1>1 DEF PipesInv, Copies
<1>3. Closed(wtab[c], Released(c)) = Empty
  <2>1. \A n \in Fd : Closed(wtab[c], Released(c))[n] = NoEnd
    BY <1>1, TableLemma, ClosedLemma DEF PipesInv, Copies
  <2> QED BY <2>1 DEF Closed, Empty
<1>4. [s \in Stream |-> wtab[c][fd[c][s].wr]] = [s \in Stream |-> Wr(c, s)]
  BY <1>2
<1>5. Empty \in [Fd -> End \cup {NoEnd}] /\ [s \in Stream |-> Wr(c, s)] \in [Stream -> End \cup {NoEnd}]
  BY EndsLemma DEF Empty
<1>6. TypeOK'
  BY <1>1, <1>3, <1>4, <1>5 DEF PipesInv, TypeOK, master, structs, words
<1>7. /\ proc'[c] = "ready" /\ wtab'[c] = Empty
      /\ \A s \in Stream : std'[c][s] = Wr(c, s)
  BY <1>1, <1>3, <1>4 DEF PipesInv, TypeOK
<1>8. \A e \in Child : e # c => /\ proc'[e] = proc[e] /\ std'[e] = std[e] /\ wtab'[e] = wtab[e]
                                /\ list'[e] = list[e]
  BY <1>1 DEF PipesInv, TypeOK
<1>9. Copies'
  BY <1>1, <1>7, <1>8 DEF PipesInv, Copies, Released, structs
<1>10. Stages'
  BY <1>1, <1>7, <1>8 DEF PipesInv, Stages, master, structs
<1> QED BY <1>1, <1>6, <1>9, <1>10 DEF PipesInv, Known, Held, Live, Reading, master, structs

LEMMA WorkerSaysStep ==
  ASSUME PipesInv, NEW c \in Child, NEW s \in Stream, WorkerSays(c, s)
  PROVE  PipesInv'
<1>1. PICK w \in Say :
        /\ quota.said > 0 /\ quota' = [quota EXCEPT !.said = @ - 1]
        /\ std[c][s] # NoEnd
        /\ text' = [text EXCEPT ![std[c][s][1]][std[c][s][2]] = @ \o w]
        /\ written' = [written EXCEPT ![c][s] = Append(@, w)]
        /\ UNCHANGED <<master, structs, tab, workers, told, lost, astray>>
  BY DEF WorkerSays
<1>2. std[c][s][1] = c /\ std[c][s][2] = s
  <2>1. std[c][s] = Wr(c, s)
    BY <1>1 DEF PipesInv, Copies
  <2> QED BY <2>1, EndsLemma
<1>3. w \in Seq(Char) /\ text[c][s] \in Seq(Char) /\ written[c][s] \in Seq(Say)
  BY StdioAssumption DEF PipesInv, TypeOK
<1>4. text[c][s] \o w \in Seq(Char) /\ Append(written[c][s], w) \in Seq(Say)
  BY <1>3, ConcatProperties, AppendProperties
<1>5. /\ text' \in [Child -> [Stream -> Seq(Char)]]
      /\ written' \in [Child -> [Stream -> Seq(Say)]]
  BY <1>1, <1>2, <1>4 DEF PipesInv, TypeOK
<1>6. quota' \in [said : 0..MaxSaid, mishaps : 0..MaxMishaps]
  <2>1. quota \in [said : 0..MaxSaid, mishaps : 0..MaxMishaps]
    BY DEF PipesInv, TypeOK
  <2>2. quota.said - 1 \in 0..MaxSaid
    <3>1. MaxSaid \in Nat /\ quota.said \in 0..MaxSaid
      BY <2>1, StdioAssumption
    <3>2. quota.said > 0
      BY <1>1
    <3> QED BY ONLY <3>1, <3>2
  <2> QED BY <2>1, <2>2, <1>1
<1>7. TypeOK'
  BY <1>1, <1>5, <1>6 DEF PipesInv, TypeOK, master, structs, workers
<1>8. /\ pc' = pc /\ fresh' = fresh /\ victim' = victim /\ half' = half /\ reader' = reader
      /\ stage' = stage /\ fd' = fd /\ evfd' = evfd /\ events' = events
      /\ tab' = tab /\ astray' = astray
      /\ proc' = proc /\ wtab' = wtab /\ list' = list /\ std' = std
  BY <1>1 DEF master, structs, workers
<1>9. Stages' /\ Known'
  BY <1>8 DEF PipesInv, Stages, Known
<1>10. Held' /\ Reading'
  <2>1. Held'
    BY <1>8 DEF PipesInv, Held, Live
  <2>2. Reading'
    BY <1>8 DEF PipesInv, Reading, Live
  <2> QED BY <2>1, <2>2
<1>11. Copies'
  BY <1>8 DEF PipesInv, Copies, Released
<1> QED BY <1>7, <1>8, <1>9, <1>10, <1>11 DEF PipesInv

LEMMA WorkerClosesStep ==
  ASSUME PipesInv, NEW c \in Child, NEW s \in Stream, WorkerCloses(c, s)
  PROVE  PipesInv'
<1>1. /\ proc[c] = "ready" /\ Mishap /\ std' = [std EXCEPT ![c][s] = NoEnd]
      /\ UNCHANGED <<master, structs, tab, proc, wtab, list, words, astray>>
  BY DEF WorkerCloses
<1>2. TypeOK'
  BY <1>1, MishapLemma, ZenonT(30) DEF PipesInv, TypeOK, master, structs, words
<1>3. \A e \in Child, u \in Stream : std'[e][u] \in {NoEnd, std[e][u]} /\ (e # c => std'[e][u] = std[e][u])
  BY <1>1 DEF PipesInv, TypeOK
<1>4. Copies'
  BY <1>1, <1>3 DEF PipesInv, Copies, Released, structs
<1> QED BY <1>1, <1>2, <1>4 DEF PipesInv, Stages, Known, Held, Live, Reading, master, structs

LEMMA WorkerDiesStep ==
  ASSUME PipesInv, NEW c \in Child, WorkerDies(c)
  PROVE  PipesInv'
<1>1. /\ proc[c] \in {"young", "ready"} /\ Mishap /\ proc' = [proc EXCEPT ![c] = "dead"]
      /\ wtab' = [wtab EXCEPT ![c] = Empty] /\ list' = [list EXCEPT ![c] = {}]
      /\ std' = [std EXCEPT ![c] = OfBoth(NoEnd)]
      /\ UNCHANGED <<master, structs, tab, words, astray>>
  BY DEF WorkerDies
<1>2. Empty \in [Fd -> End \cup {NoEnd}] /\ OfBoth(NoEnd) \in [Stream -> End \cup {NoEnd}]
  BY DEF Empty, OfBoth
<1>3. TypeOK'
  BY <1>1, <1>2, MishapLemma, ZenonT(30) DEF PipesInv, TypeOK, master, structs, words
<1>4. /\ proc'[c] = "dead" /\ wtab'[c] = Empty
      /\ \A s \in Stream : std'[c][s] = NoEnd
  BY <1>1 DEF PipesInv, TypeOK, OfBoth
<1>5. \A e \in Child : e # c => /\ proc'[e] = proc[e] /\ std'[e] = std[e] /\ wtab'[e] = wtab[e]
                                /\ list'[e] = list[e]
  BY <1>1 DEF PipesInv, TypeOK
<1>6. Copies'
  BY <1>1, <1>4, <1>5 DEF PipesInv, Copies, Released, structs
<1>7. Stages'
  BY <1>1, <1>4, <1>5 DEF PipesInv, Stages, master, structs
<1> QED BY <1>1, <1>3, <1>6, <1>7 DEF PipesInv, Known, Held, Live, Reading, master, structs

-----------------------------------------------------------------------------
(* And so does what is read. *)

LEMMA DispatchStep == PipesInv /\ Dispatch => PipesInv'
<1> SUFFICES ASSUME PipesInv, Dispatch PROVE PipesInv'
  OBVIOUS
<1>1. /\ active' \subseteq events
      /\ UNCHANGED <<master, stage, fd, evfd, events, tab, workers, words, astray, quota>>
  BY DEF Dispatch
<1>2. TypeOK'
  BY <1>1 DEF PipesInv, TypeOK, master, workers, words
<1> QED BY <1>1, <1>2
        DEF PipesInv, Stages, Known, Held, Live, Reading, Copies, Released, master, workers

(* The callback finds the stream its event is for. *)
LEMMA CallLemma ==
  ASSUME PipesInv, NEW c \in Child, NEW s \in Stream, CallSaid(c, s), Live(c), fd[c][s].rd # -1,
         s = "err" => fd[c]["out"].rd # fd[c]["err"].rd
  PROVE  /\ pc' = "said"
         /\ reader' = [child |-> c, stream |-> s, fd |-> evfd[c][s], buf |-> <<>>, in |-> TRUE]
         /\ fd[c][s].rd = evfd[c][s] /\ evfd[c][s] \in Fd
<1>1. fd[c][s].rd = evfd[c][s] /\ evfd[c][s] \in Fd
  BY DEF PipesInv, Held
<1>2. (IF evfd[c][s] = fd[c]["out"].rd THEN "out" ELSE "err") = s
  BY <1>1 DEF Stream
<1> QED BY <1>1, <1>2 DEF CallSaid

LEMMA EventSaidStep ==
  ASSUME PipesInv, NEW c \in Child, NEW s \in Stream, EventSaid(c, s)
  PROVE  PipesInv'
<1>1. /\ pc = "loop" /\ <<c, s>> \in active /\ active' = active \ {<<c, s>>}
      /\ CallSaid(c, s)
      /\ UNCHANGED <<fresh, victim, half, stage, fd, evfd, events, tab, workers, words, astray, quota>>
  BY DEF EventSaid
<1>2. Live(c) /\ fd[c][s].rd # -1
  <2>1. <<c, s>> \in events
    BY <1>1 DEF PipesInv, TypeOK
  <2> QED BY <2>1 DEF PipesInv, Held
<1>3. s = "err" => fd[c]["out"].rd # fd[c]["err"].rd
  <2> SUFFICES ASSUME s = "err", fd[c]["out"].rd = fd[c]["err"].rd PROVE FALSE
    OBVIOUS
  <2>1. "out" \in Stream /\ "err" \in Stream
    BY DEF Stream
  <2>2. tab[fd[c]["out"].rd] = Rd(c, "out") /\ tab[fd[c]["err"].rd] = Rd(c, "err")
    BY <2>1, <1>2 DEF PipesInv, Held
  <2> QED BY <2>1, <2>2, EndsLemma
<1>4. /\ pc' = "said"
      /\ reader' = [child |-> c, stream |-> s, fd |-> evfd[c][s], buf |-> <<>>, in |-> TRUE]
      /\ fd[c][s].rd = evfd[c][s] /\ evfd[c][s] \in Fd
  BY <1>1, <1>2, <1>3, CallLemma
<1>5. <<>> \in Seq(Char) /\ Len(<<>>) = 0 /\ BufSize \in Nat /\ 0 < BufSize
  BY EmptySeq, StdioAssumption
<1>6. TypeOK'
  <2>1. reader' \in [child : Child \cup {NoChild}, stream : Stream, fd : Fd \cup {-1},
                     buf : Seq(Char), in : BOOLEAN] /\ Len(reader'.buf) <= BufSize
    BY <1>4, <1>5
  <2> QED BY <1>1, <1>4, <2>1 DEF PipesInv, TypeOK, workers, words
<1>7. Stages'
  BY <1>1, <1>4 DEF PipesInv, Stages, workers
<1>8. Reading'
  <2>1. victim = NoChild
    BY <1>1 DEF PipesInv, Stages
  <2> QED BY <1>1, <1>2, <1>4, <1>5, <2>1 DEF PipesInv, Reading, Live
<1> QED BY <1>1, <1>6, <1>7, <1>8 DEF PipesInv, Known, Held, Live, Copies, Released, workers

(* What the callback leaves alone. *)
LEMMA ReadingStep ==
  ASSUME PipesInv, pc = "said", TypeOK', Reading',
         UNCHANGED <<pc, fresh, victim, half, structs, tab, workers, astray>>
  PROVE  PipesInv'
BY DEF PipesInv, Stages, Known, Held, Live, Copies, Released, structs, workers

LEMMA SaidReadsStep == PipesInv /\ SaidReads => PipesInv'
<1> SUFFICES ASSUME PipesInv, SaidReads PROVE PipesInv'
  OBVIOUS
<1> DEFINE e == tab[reader.fd]
           n == Min({Room(reader.buf), Len(text[e[1]][e[2]])})
           b == reader.buf \o SubSeq(text[e[1]][e[2]], 1, n)
<1>1. /\ pc = "said" /\ reader.in /\ n > 0
      /\ text' = [text EXCEPT ![e[1]][e[2]] = SubSeq(@, n + 1, Len(@))]
      /\ Log(b, TRUE)
      /\ UNCHANGED <<pc, fresh, victim, half, structs, tab, workers, written, lost, astray, quota>>
  BY DEF SaidReads
<1>2. /\ reader.child \in Child /\ reader.stream \in Stream
      /\ e[1] = reader.child /\ e[2] = reader.stream
      /\ Room(reader.buf) \in Nat
  BY <1>1, ReaderLemma
<1> HIDE DEF e, b
<1> DEFINE t == text[reader.child][reader.stream]
<1>3. t \in Seq(Char) /\ Len(t) \in Nat /\ reader.buf \in Seq(Char) /\ Len(reader.buf) \in Nat
  BY <1>2, LenProperties DEF PipesInv, TypeOK
<1>4. n \in 0..Len(t) /\ n <= Room(reader.buf)
  <2> DEFINE r == Room(reader.buf)
             l == Len(t)
  <2>1. {r, l} \subseteq Nat /\ {r, l} # {}
    BY <1>2, <1>3
  <2>2. n = Min({r, l})
    BY <1>2
  <2> HIDE DEF r, l, n
  <2>3. n \in {r, l} /\ n <= r /\ n <= l
    BY <2>1, <2>2, MinLemma
  <2>4. r \in Nat /\ l \in Nat
    BY <2>1
  <2>5. n \in 0..l /\ n <= r
    BY ONLY <2>3, <2>4
  <2> QED BY <2>5 DEF r, l
<1> HIDE DEF n
<1>5. /\ SubSeq(t, 1, n) \in Seq(Char) /\ Len(SubSeq(t, 1, n)) = n
      /\ SubSeq(t, n + 1, Len(t)) \in Seq(Char)
  BY <1>3, <1>4, CutLemma
<1>6. b \in Seq(Char) /\ Len(b) <= BufSize
  <2>1. b = reader.buf \o SubSeq(t, 1, n)
    BY <1>2 DEF b
  <2>2. b \in Seq(Char) /\ Len(b) = Len(reader.buf) + Len(SubSeq(t, 1, n))
    BY <2>1, <1>3, <1>5, ConcatProperties
  <2> DEFINE x == Len(reader.buf)
             y == Len(b)
  <2>3. x \in Nat /\ n \in Nat /\ y = x + n /\ n <= BufSize - x /\ BufSize \in Nat
    <3>1. Room(reader.buf) = BufSize - x
      BY DEF Room
    <3>2. y = x + n
      BY <2>2, <1>5
    <3> HIDE DEF x, y
    <3>3. n \in Nat
      BY <1>3, <1>4
    <3> QED BY <3>1, <3>2, <3>3, <1>3, <1>4, StdioAssumption DEF x
  <2> HIDE DEF x, y
  <2>4. y <= BufSize
    BY ONLY <2>3
  <2> QED BY <2>2, <2>4 DEF y
<1>7. /\ reader' \in [child : Child \cup {NoChild}, stream : Stream, fd : Fd \cup {-1},
                      buf : Seq(Char), in : BOOLEAN]
      /\ reader'.child = reader.child /\ reader'.stream = reader.stream
      /\ reader'.fd = reader.fd /\ reader'.in = TRUE
      /\ Len(reader'.buf) < BufSize
      /\ told' \in [Child -> [Stream -> Seq(Seq(Char))]]
  <2>1. TRUE \in BOOLEAN
    OBVIOUS
  <2> QED BY <1>1, <1>6, <2>1, LogLemma
<1>8. text' \in [Child -> [Stream -> Seq(Char)]]
  <2>1. text' = [text EXCEPT ![reader.child][reader.stream] = SubSeq(t, n + 1, Len(t))]
    BY <1>1, <1>2 DEF PipesInv, TypeOK
  <2>2. SubSeq(t, n + 1, Len(t)) \in Seq(Char) /\ text \in [Child -> [Stream -> Seq(Char)]]
    BY <1>5 DEF PipesInv, TypeOK
  <2> HIDE DEF t
  <2> QED BY <2>1, <2>2, <1>2
<1>9. Len(reader'.buf) <= BufSize
  BY <1>7, LenProperties, StdioAssumption
<1>10. TypeOK'
  BY <1>1, <1>7, <1>8, <1>9 DEF PipesInv, TypeOK, structs, workers
<1>11. Reading'
  BY <1>1, <1>7 DEF PipesInv, Reading, Live, structs
<1> QED BY <1>1, <1>10, <1>11, ReadingStep

LEMMA BufferLemma ==
  ASSUME PipesInv
  PROVE  /\ reader.buf \in Seq(Char) /\ Len(reader.buf) <= BufSize
         /\ FALSE \in BOOLEAN
BY DEF PipesInv, TypeOK

(* Nothing to read now: only of a child that lives. *)
LEMMA SaidAgainStep == PipesInv /\ SaidAgain => PipesInv'
<1> SUFFICES ASSUME PipesInv, SaidAgain PROVE PipesInv'
  OBVIOUS
<1>1. /\ pc = "said" /\ reader.in /\ ~ HasEof(tab[reader.fd])
      /\ Log(reader.buf, FALSE)
      /\ UNCHANGED <<pc, fresh, victim, half, structs, tab, workers, text, written, lost, astray, quota>>
  BY DEF SaidAgain
<1>2. victim = NoChild
  <2>1. /\ reader.child \in Child /\ reader.stream \in Stream
        /\ tab[reader.fd][1] = reader.child /\ tab[reader.fd][2] = reader.stream
    BY <1>1, ReaderLemma
  <2>2. stage[reader.child] # "closing"
    BY <1>1, <2>1, NobodyWrites DEF HasEof
  <2> QED BY <1>1, <2>1, <2>2 DEF PipesInv, Reading, Stages
<1>3. /\ reader' \in [child : Child \cup {NoChild}, stream : Stream, fd : Fd \cup {-1},
                      buf : Seq(Char), in : BOOLEAN]
      /\ reader'.child = reader.child /\ reader'.stream = reader.stream
      /\ reader'.fd = reader.fd /\ reader'.in = FALSE
      /\ Len(reader'.buf) < BufSize
      /\ told' \in [Child -> [Stream -> Seq(Seq(Char))]]
  BY <1>1, BufferLemma, LogLemma
<1>4. Len(reader'.buf) <= BufSize
  BY <1>3, LenProperties, StdioAssumption
<1>5. TypeOK'
  BY <1>1, <1>3, <1>4 DEF PipesInv, TypeOK, structs, workers
<1>6. Reading'
  BY <1>1, <1>2, <1>3 DEF PipesInv, Reading, Live, structs
<1> QED BY <1>1, <1>5, <1>6, ReadingStep

LEMMA SaidPrintsStep == PipesInv /\ SaidPrints => PipesInv'
<1> SUFFICES ASSUME PipesInv, SaidPrints PROVE PipesInv'
  OBVIOUS
<1>1. /\ pc = "said" /\ ~ reader.in
      /\ Log(reader.buf, FALSE)
      /\ UNCHANGED <<pc, fresh, victim, half, structs, tab, workers, text, written, lost, astray, quota>>
  BY DEF SaidPrints
<1>3. /\ reader' \in [child : Child \cup {NoChild}, stream : Stream, fd : Fd \cup {-1},
                      buf : Seq(Char), in : BOOLEAN]
      /\ reader'.child = reader.child /\ reader'.stream = reader.stream
      /\ reader'.fd = reader.fd /\ reader'.in = FALSE
      /\ Len(reader'.buf) < BufSize
      /\ told' \in [Child -> [Stream -> Seq(Seq(Char))]]
  BY <1>1, BufferLemma, LogLemma
<1>4. Len(reader'.buf) <= BufSize
  BY <1>3, LenProperties, StdioAssumption
<1>5. TypeOK'
  BY <1>1, <1>3, <1>4 DEF PipesInv, TypeOK, structs, workers
<1>6. Reading'
  BY <1>1, <1>3 DEF PipesInv, Reading, Live, structs
<1> QED BY <1>1, <1>5, <1>6, ReadingStep

(* The end of a stream: nobody writes to it any more, not a worker that is starting   *)
(* either.                                                                           *)
LEMMA SaidEofStep == PipesInv /\ SaidEof => PipesInv'
<1> SUFFICES ASSUME PipesInv, SaidEof PROVE PipesInv'
  OBVIOUS
<1> DEFINE c == reader.child
           s == reader.stream
<1>1. /\ pc = "said" /\ reader.in
      /\ \/ tab[reader.fd] = NoEnd
         \/ tab[reader.fd] # NoEnd /\ HasEof(tab[reader.fd])
         \/ Room(reader.buf) = 0
      /\ events' = events \ {<<c, s>>} /\ active' = active \ {<<c, s>>}
      /\ Close(tab, {fd[c][s].rd}, c)
      /\ fd' = [fd EXCEPT ![c][s].rd = -1]
      /\ Log(reader.buf, FALSE)
      /\ UNCHANGED <<pc, fresh, victim, half, stage, evfd, workers, text, written, lost, quota>>
  BY DEF SaidEof, Shut
<1>2. /\ c \in Child /\ s \in Stream /\ reader.fd \in Fd /\ fd[c][s].rd = reader.fd
      /\ tab[reader.fd] = Rd(c, s) /\ tab[reader.fd] # NoEnd
      /\ tab[reader.fd][1] = c /\ tab[reader.fd][2] = s /\ Room(reader.buf) > 0
  BY <1>1, ReaderLemma
<1>3. ~ IsOpen(Wr(c, s))
  BY <1>1, <1>2 DEF HasEof
<1>4. /\ reader' \in [child : Child \cup {NoChild}, stream : Stream, fd : Fd \cup {-1},
                      buf : Seq(Char), in : BOOLEAN]
      /\ reader'.child = c /\ reader'.stream = s
      /\ reader'.fd = reader.fd /\ reader'.in = FALSE
      /\ Len(reader'.buf) < BufSize
      /\ told' \in [Child -> [Stream -> Seq(Seq(Char))]]
  BY <1>1, BufferLemma, LogLemma
<1> HIDE DEF c, s
<1>5. /\ tab' \in Table /\ ~ astray' /\ astray' \in BOOLEAN
      /\ \A n \in Fd : tab'[n] = IF n = fd[c][s].rd THEN NoEnd ELSE tab[n]
  <2>1. tab \in Table /\ ~ astray /\ astray \in BOOLEAN
    BY TableLemma DEF PipesInv, TypeOK
  <2>2. \A n \in {fd[c][s].rd} \cap Fd : tab[n] # NoEnd => tab[n][1] = c
    BY <1>2
  <2> QED BY <1>1, <1>2, <2>1, <2>2, CloseLemma
<1>6. fd \in [Child -> [Stream -> [rd : Fd \cup {-1}, wr : Fd \cup {-1}]]]
  BY DEF PipesInv, TypeOK
<1>7. /\ \A e \in Child, u \in Stream : /\ fd'[e][u].wr = fd[e][u].wr
                                        /\ e # c \/ u # s => fd'[e][u].rd = fd[e][u].rd
      /\ fd'[c][s].rd = -1
      /\ \A e \in Child : e # c => fd'[e] = fd[e]
  BY <1>1, <1>2, <1>6
<1>8. TypeOK'
  <2>1. fd' \in [Child -> [Stream -> [rd : Fd \cup {-1}, wr : Fd \cup {-1}]]]
    <3> DEFINE p == [fd[c][s] EXCEPT !.rd = -1]
    <3>1. p \in [rd : Fd \cup {-1}, wr : Fd \cup {-1}]
      BY <1>2, <1>6
    <3>2. fd' = [fd EXCEPT ![c][s] = p]
      BY <1>1
    <3> HIDE DEF p
    <3> QED BY <3>1, <3>2, <1>2, <1>6
  <2>2. tab' \in [Fd -> End \cup {NoEnd}]
    BY <1>5 DEF Table
  <2>3. Len(reader'.buf) <= BufSize
    BY <1>4, LenProperties, StdioAssumption
  <2>4. events' \subseteq Child \X Stream /\ active' \subseteq events'
    BY <1>1 DEF PipesInv, TypeOK
  <2> QED BY <1>1, <1>4, <1>5, <2>1, <2>2, <2>3, <2>4 DEF PipesInv, TypeOK, workers
<1>9. Stages'
  BY <1>1 DEF PipesInv, Stages, workers
<1>10. Known'
  <2> SUFFICES ASSUME NEW n \in Fd, tab'[n] # NoEnd
               PROVE  \E e \in Child, u \in Stream :
                        \/ tab'[n] = Rd(e, u) /\ fd'[e][u].rd = n
                        \/ tab'[n] = Wr(e, u) /\ fd'[e][u].wr = n /\ stage'[e] = "prepared"
    BY DEF Known
  <2>1. tab'[n] = tab[n] /\ n # fd[c][s].rd
    BY <1>5
  <2>2. PICK e \in Child, u \in Stream : \/ tab[n] = Rd(e, u) /\ fd[e][u].rd = n
                                         \/ tab[n] = Wr(e, u) /\ fd[e][u].wr = n /\ stage[e] = "prepared"
    BY <2>1 DEF PipesInv, Known
  <2>3. fd'[e][u].wr = fd[e][u].wr /\ (fd[e][u].rd = n => fd'[e][u].rd = n)
    BY <2>1, <1>7
  <2> QED BY <2>1, <2>2, <2>3, <1>1
<1>11. Live(c) /\ stage[c] # "prepared" /\ stage[c] # "free"
  <2>1. Live(c)
    BY <1>1 DEF PipesInv, Reading, c
  <2> QED BY <2>1 DEF Live
<1>12. ASSUME NEW e \in Child, NEW u \in Stream
      PROVE  /\ stage'[e] = "free" => fd'[e][u].rd = -1
             /\ fd'[e][u].rd # -1 => tab'[fd'[e][u].rd] = Rd(e, u)
             /\ stage'[e] = "prepared" => /\ fd'[e][u].rd # -1 /\ fd'[e][u].wr \in Fd
                                          /\ tab'[fd'[e][u].wr] = Wr(e, u)
             /\ Live(e)' => evfd'[e][u] \in Fd /\ fd'[e][u].rd \in {-1, evfd'[e][u]}
             /\ <<e, u>> \in events' => Live(e)' /\ fd'[e][u].rd # -1
  <2>1. CASE e = c /\ u = s
    BY <2>1, <1>1, <1>7, <1>11 DEF PipesInv, Held, Live
  <2>2. CASE e # c \/ u # s
    <3>1. fd'[e][u].rd = fd[e][u].rd /\ fd'[e][u].wr = fd[e][u].wr /\ (stage[e] = "prepared" => e # c)
      BY <2>2, <1>7, <1>11
    <3>2. fd[e][u].rd # -1 => tab'[fd[e][u].rd] = Rd(e, u)
      <4>1. fd[e][u].rd # -1 => fd[e][u].rd \in Fd /\ tab[fd[e][u].rd] = Rd(e, u)
        BY PlacesLemma DEF PipesInv, Held
      <4>2. Rd(e, u) # Rd(c, s)
        BY <2>2, <1>2, EndsLemma
      <4> QED BY <4>1, <4>2, <1>2, <1>5
    <3>3. stage[e] = "prepared" => tab'[fd[e][u].wr] = Wr(e, u) /\ fd[e][u].wr \in Fd /\ fd[e][u].rd # -1
      <4>1. stage[e] = "prepared" => fd[e][u].rd # -1 /\ fd[e][u].wr \in Fd /\ tab[fd[e][u].wr] = Wr(e, u)
        BY DEF PipesInv, Held
      <4>2. Wr(e, u) # Rd(c, s)
        BY <1>2, EndsLemma
      <4> QED BY <4>1, <4>2, <1>2, <1>5
    <3> QED BY <1>1, <3>1, <3>2, <3>3 DEF PipesInv, Held, Live
  <2> QED BY <2>1, <2>2
<1>13. Held'
  BY <1>12 DEF Held
<1>14. Reading'
  <2>1. pc = "said" /\ c = reader.child /\ s = reader.stream
    BY <1>1 DEF c, s
  <2>2. victim # NoChild => victim = c /\ half = s
    BY <2>1 DEF PipesInv, Reading
  <2>3. reader'.fd = evfd'[c][s]
    BY <2>1, <1>1, <1>4 DEF PipesInv, Reading
  <2>4. victim # NoChild /\ half = "err" => fd'[victim]["out"].rd = -1
    <3>1. "out" \in Stream /\ "out" # "err"
      BY DEF Stream
    <3>2. victim # NoChild /\ half = "err" => fd[victim]["out"].rd = -1
      BY DEF PipesInv, Reading
    <3> QED BY <2>2, <3>1, <3>2, <1>2, <1>7
  <2>5. victim = NoChild => half = "out"
    BY DEF PipesInv, Reading
  <2> QED BY <1>1, <1>2, <1>4, <1>7, <1>11, <2>1, <2>2, <2>3, <2>4, <2>5 DEF Reading, Live
<1>15. Copies'
  <2>1. proc[c] # "young"
    <3> SUFFICES ASSUME proc[c] = "young" PROVE FALSE
      OBVIOUS
    <3>1. fd[c][s].wr \in Fd /\ wtab[c][fd[c][s].wr] = Wr(c, s)
      BY <1>2 DEF PipesInv, Copies
    <3> QED BY <3>1, <1>2, <1>3 DEF IsOpen
  <2>2. \A e \in Child : proc[e] = "young" => e # c
    BY <2>1
  <2> QED BY <1>1, <1>7, <2>2 DEF PipesInv, Copies, Released, workers
<1> QED BY <1>5, <1>8, <1>9, <1>10, <1>13, <1>14, <1>15 DEF PipesInv

-----------------------------------------------------------------------------
(* The burial of a child. *)

LEMMA BuryStep ==
  ASSUME PipesInv, NEW c \in Child, Bury(c)
  PROVE  PipesInv'
<1>1. /\ pc = "loop" /\ proc[c] = "dead" /\ stage[c] = "linked"
      /\ pc' = "close" /\ victim' = c /\ half' = "out"
      /\ proc' = [proc EXCEPT ![c] = "none"]
      /\ stage' = [stage EXCEPT ![c] = "closing"]
      /\ UNCHANGED <<fresh, reader, fd, evfd, events, active, tab, wtab, list, std, words, astray, quota>>
  BY DEF Bury
<1>2. c # NoChild /\ victim = NoChild
  BY <1>1, StdioAssumption DEF PipesInv, Stages
<1>3. TypeOK'
  BY <1>1 DEF PipesInv, TypeOK, words, Stream
<1>4. /\ proc'[c] = "none" /\ stage'[c] = "closing"
      /\ \A e \in Child : e # c => proc'[e] = proc[e] /\ stage'[e] = stage[e]
  BY <1>1 DEF PipesInv, TypeOK
<1>5. Stages'
  BY <1>1, <1>2, <1>4 DEF PipesInv, Stages
<1>6. Known'
  <2>1. \A e \in Child : stage[e] = "prepared" => stage'[e] = "prepared"
    BY <1>1, <1>4
  <2>2. tab' = tab /\ fd' = fd /\ Known
    BY <1>1 DEF PipesInv
  <2> QED BY <2>1, <2>2 DEF Known
<1>7. Held'
  <2>1. \A e \in Child : /\ stage'[e] = "free" <=> stage[e] = "free"
                         /\ stage'[e] = "prepared" <=> stage[e] = "prepared"
                         /\ Live(e)' <=> Live(e)
    BY <1>1, <1>4 DEF Live
  <2> HIDE DEF Live
  <2> QED BY <1>1, <2>1 DEF PipesInv, Held
<1>8. Reading'
  BY <1>1, <1>2 DEF PipesInv, Reading
<1>9. Copies'
  BY <1>1, <1>4 DEF PipesInv, Copies, Released
<1> QED BY <1>1, <1>3, <1>5, <1>6, <1>7, <1>8, <1>9 DEF PipesInv

LEMMA FireStep == PipesInv /\ Fire => PipesInv'
<1> SUFFICES ASSUME PipesInv, Fire PROVE PipesInv'
  OBVIOUS
<1>1. /\ pc = "close" /\ fd[victim][half].rd # -1 /\ CallSaid(victim, half)
      /\ UNCHANGED <<fresh, victim, half, structs, tab, workers, words, astray, quota>>
  BY DEF Fire
<1>2. victim \in Child /\ half \in Stream /\ victim # NoChild /\ Live(victim)
  BY <1>1 DEF PipesInv, TypeOK, Stages, Live
<1>3. half = "err" => fd[victim]["out"].rd # fd[victim]["err"].rd
  BY <1>1, <1>2 DEF PipesInv, Reading
<1>4. /\ pc' = "said"
      /\ reader' = [child |-> victim, stream |-> half, fd |-> evfd[victim][half], buf |-> <<>>, in |-> TRUE]
      /\ fd[victim][half].rd = evfd[victim][half] /\ evfd[victim][half] \in Fd
  BY <1>1, <1>2, <1>3, CallLemma
<1>5. <<>> \in Seq(Char) /\ Len(<<>>) = 0 /\ BufSize \in Nat /\ 0 < BufSize
  BY EmptySeq, StdioAssumption
<1>6. TypeOK'
  <2>1. reader' \in [child : Child \cup {NoChild}, stream : Stream, fd : Fd \cup {-1},
                     buf : Seq(Char), in : BOOLEAN] /\ Len(reader'.buf) <= BufSize
    BY <1>2, <1>4, <1>5
  <2> QED BY <1>1, <1>4, <2>1 DEF PipesInv, TypeOK, structs, workers, words
<1>7. Stages'
  BY <1>1, <1>2, <1>4 DEF PipesInv, Stages, structs, workers
<1>8. Reading'
  BY <1>1, <1>2, <1>4, <1>5 DEF PipesInv, Reading, Live, structs
<1> QED BY <1>1, <1>6, <1>7, <1>8 DEF PipesInv, Known, Held, Live, Copies, Released, structs, workers

(* With a stream closed fpm_child_close goes on, and with both frees the structure. *)
LEMMA NextHalfLemma ==
  ASSUME PipesInv, pc \in {"close", "said"}, victim # NoChild, fd[victim][half].rd = -1, NextHalf,
         reader' = NoReader, UNCHANGED <<fresh, events, active, tab, workers, astray, quota>>
  PROVE  PipesInv'
<1>1. victim \in Child /\ half \in Stream /\ stage[victim] = "closing" /\ proc[victim] = "none"
      /\ fresh = NoChild
  BY StdioAssumption DEF PipesInv, TypeOK, Stages
<1>2. <<>> \in Seq(Char) /\ Len(<<>>) = 0 /\ BufSize \in Nat /\ 0 < BufSize /\ <<>> \in Seq(Say)
      /\ <<>> \in Seq(Seq(Char))
  BY EmptySeq, StdioAssumption
<1>3. /\ reader' \in [child : Child \cup {NoChild}, stream : Stream, fd : Fd \cup {-1},
                      buf : Seq(Char), in : BOOLEAN]
      /\ Len(reader'.buf) <= BufSize /\ Len(reader'.buf) < BufSize
  BY <1>2 DEF NoReader, Stream
<1>4. CASE half = "out"
  <2>1. pc' = "close" /\ half' = "err" /\ UNCHANGED <<victim, stage, fd, evfd, words>>
    BY <1>4 DEF NextHalf
  <2>2. TypeOK'
    BY <1>3, <2>1 DEF PipesInv, TypeOK, workers, words, Stream
  <2>3. Stages'
    BY <1>1, <2>1 DEF PipesInv, Stages, workers
  <2>4. Reading'
    BY <1>3, <1>4, <2>1 DEF Reading
  <2> QED BY <2>1, <2>2, <2>3, <2>4 DEF PipesInv, Known, Held, Live, Copies, Released, workers
<1>5. CASE half = "err"
  <2>1. /\ pc' = "make" /\ half' = "out" /\ victim' = NoChild
        /\ stage' = [stage EXCEPT ![victim] = "free"]
        /\ fd' = [fd EXCEPT ![victim] = OfBoth([rd |-> -1, wr |-> -1])]
        /\ evfd' = [evfd EXCEPT ![victim] = OfBoth(-1)]
        /\ lost' = (lost \/ \E s \in Stream :
                      FlattenSeq(told[victim][s]) # FlattenSeq(written[victim][s]))
        /\ text' = [text EXCEPT ![victim] = OfBoth(<<>>)]
        /\ written' = [written EXCEPT ![victim] = OfBoth(<<>>)]
        /\ told' = [told EXCEPT ![victim] = OfBoth(<<>>)]
    BY <1>5 DEF NextHalf
  <2>2. \A s \in Stream : fd[victim][s].rd = -1
    BY <1>5 DEF PipesInv, Reading, Stream
  <2>3. TypeOK'
    <3>1. /\ OfBoth([rd |-> -1, wr |-> -1]) \in [Stream -> [rd : Fd \cup {-1}, wr : Fd \cup {-1}]]
          /\ OfBoth(-1) \in [Stream -> Fd \cup {-1}]
      BY DEF OfBoth
    <3>2. /\ text' \in [Child -> [Stream -> Seq(Char)]]
          /\ written' \in [Child -> [Stream -> Seq(Say)]]
          /\ told' \in [Child -> [Stream -> Seq(Seq(Char))]]
      BY <2>1, <1>2 DEF PipesInv, TypeOK, OfBoth
    <3>3. lost' \in BOOLEAN
      BY <2>1 DEF PipesInv, TypeOK
    <3> QED BY <1>3, <2>1, <3>1, <3>2, <3>3 DEF PipesInv, TypeOK, workers, Stream
  <2>4. /\ stage'[victim] = "free" /\ \A s \in Stream : fd'[victim][s].rd = -1
        /\ \A e \in Child : e # victim => fd'[e] = fd[e] /\ stage'[e] = stage[e] /\ evfd'[e] = evfd[e]
    BY <2>1, <1>1 DEF PipesInv, TypeOK, OfBoth
  <2>5. Stages'
    BY <1>1, <2>1, <2>4, StdioAssumption DEF PipesInv, Stages, workers
  <2>6. Known'
    <3> SUFFICES ASSUME NEW n \in Fd, tab'[n] # NoEnd
                 PROVE  \E e \in Child, u \in Stream :
                          \/ tab'[n] = Rd(e, u) /\ fd'[e][u].rd = n
                          \/ tab'[n] = Wr(e, u) /\ fd'[e][u].wr = n /\ stage'[e] = "prepared"
      BY DEF Known
    <3>1. PICK e \in Child, u \in Stream : \/ tab[n] = Rd(e, u) /\ fd[e][u].rd = n
                                           \/ tab[n] = Wr(e, u) /\ fd[e][u].wr = n /\ stage[e] = "prepared"
      BY DEF PipesInv, Known
    <3>2. e # victim
      BY <3>1, <2>2, <1>1, FdLemma
    <3> QED BY <3>1, <3>2, <2>4
  <2>7. Held'
    <3> SUFFICES ASSUME NEW e \in Child, NEW u \in Stream
                 PROVE  /\ stage'[e] = "free" => fd'[e][u].rd = -1
                        /\ fd'[e][u].rd # -1 => tab'[fd'[e][u].rd] = Rd(e, u)
                        /\ stage'[e] = "prepared" => /\ fd'[e][u].rd # -1 /\ fd'[e][u].wr \in Fd
                                                     /\ tab'[fd'[e][u].wr] = Wr(e, u)
                        /\ Live(e)' => evfd'[e][u] \in Fd /\ fd'[e][u].rd \in {-1, evfd'[e][u]}
                        /\ <<e, u>> \in events' => Live(e)' /\ fd'[e][u].rd # -1
      BY DEF Held
    <3>1. <<e, u>> \in events => e # victim
      BY <2>2, <1>1 DEF PipesInv, Held
    <3>2. CASE e = victim
      BY <3>1, <3>2, <2>4 DEF Live
    <3>3. CASE e # victim
      <4>1. fd'[e] = fd[e] /\ stage'[e] = stage[e] /\ evfd'[e] = evfd[e]
        BY <3>3, <2>4
      <4> QED BY <4>1 DEF PipesInv, Held, Live
    <3> QED BY <3>2, <3>3
  <2>8. Reading'
    BY <1>3, <2>1 DEF Reading
  <2>9. Copies'
    <3>1. \A e \in Child : proc[e] = "young" => e # victim
      BY <1>1
    <3> QED BY <2>4, <3>1 DEF PipesInv, Copies, Released, workers
  <2> QED BY <2>3, <2>5, <2>6, <2>7, <2>8, <2>9 DEF PipesInv
<1> QED BY <1>1, <1>4, <1>5 DEF Stream

LEMMA NotOpenStep == PipesInv /\ NotOpen => PipesInv'
<1> SUFFICES ASSUME PipesInv, NotOpen PROVE PipesInv'
  OBVIOUS
<1>1. /\ pc = "close" /\ fd[victim][half].rd = -1 /\ NextHalf
      /\ UNCHANGED <<fresh, reader, events, active, tab, workers, astray, quota>>
  BY DEF NotOpen
<1>2. victim # NoChild /\ reader = NoReader
  BY <1>1 DEF PipesInv, Stages, Reading
<1> QED BY <1>1, <1>2, NextHalfLemma

LEMMA SaidReturnsStep == PipesInv /\ SaidReturns => PipesInv'
<1> SUFFICES ASSUME PipesInv, SaidReturns PROVE PipesInv'
  OBVIOUS
<1>1. /\ pc = "said" /\ ~ reader.in /\ reader' = NoReader
      /\ UNCHANGED <<fresh, events, active, workers, quota>>
  BY DEF SaidReturns
<1>2. CASE victim = NoChild
  <2>1. pc' = "loop" /\ UNCHANGED <<victim, half, stage, fd, evfd, tab, words, astray>>
    BY <1>2 DEF SaidReturns
  <2>2. <<>> \in Seq(Char) /\ Len(<<>>) = 0 /\ BufSize \in Nat /\ 0 < BufSize
    BY EmptySeq, StdioAssumption
  <2>3. /\ reader' \in [child : Child \cup {NoChild}, stream : Stream, fd : Fd \cup {-1},
                        buf : Seq(Char), in : BOOLEAN]
        /\ Len(reader'.buf) <= BufSize /\ Len(reader'.buf) < BufSize
    BY <1>1, <2>2 DEF NoReader, Stream
  <2>4. TypeOK'
    BY <1>1, <2>1, <2>3 DEF PipesInv, TypeOK, workers, words
  <2>5. Stages'
    BY <1>1, <1>2, <2>1 DEF PipesInv, Stages, workers
  <2>6. Reading'
    BY <1>1, <1>2, <2>1, <2>3 DEF PipesInv, Reading
  <2> QED BY <1>1, <2>1, <2>4, <2>5, <2>6 DEF PipesInv, Known, Held, Live, Copies, Released, workers
<1>3. CASE victim # NoChild
  <2>1. NextHalf /\ Close(tab, {fd[victim][half].rd} \ {-1}, victim)
    BY <1>3 DEF SaidReturns
  <2>2. fd[victim][half].rd = -1 /\ victim \in Child
    BY <1>1, <1>3 DEF PipesInv, Reading, TypeOK
  <2>3. {fd[victim][half].rd} \ {-1} = {}
    BY <2>2
  <2>4. tab' = tab /\ astray' = astray
    <3>1. tab \in Table /\ astray = FALSE
      BY TableLemma DEF PipesInv, TypeOK
    <3>2. Close(tab, {}, victim)
      BY <2>1, <2>3
    <3>3. tab' = Closed(tab, {}) /\ astray' = FALSE
      BY <3>1, <3>2 DEF Close
    <3>4. \A n \in Fd : Closed(tab, {})[n] = tab[n]
      BY <3>1, ClosedLemma
    <3>5. Closed(tab, {}) \in Table
      BY <3>1, ClosedLemma
    <3>6. Closed(tab, {}) = tab
      BY <3>1, <3>4, <3>5 DEF Table
    <3> QED BY <3>1, <3>3, <3>6
  <2> QED BY <1>1, <1>3, <2>1, <2>2, <2>4, NextHalfLemma
<1> QED BY <1>2, <1>3

-----------------------------------------------------------------------------

LEMMA PipesStep == PipesInv /\ [Next]_vars => PipesInv'
<1> SUFFICES ASSUME PipesInv, [Next]_vars PROVE PipesInv'
  OBVIOUS
<1>1. CASE Said
  BY <1>1, SaidReadsStep, SaidAgainStep, SaidEofStep, SaidPrintsStep, SaidReturnsStep DEF Said
<1>2. CASE Closing
  BY <1>2, FireStep, NotOpenStep DEF Closing
<1>3. CASE Make
  BY <1>3, MakeEndsStep, PreparePipesStep, PreparePipesFailsStep, DiscardStep, ForkStep DEF Make
<1>4. CASE Loop
  BY <1>4, DispatchStep, BuryStep, EventSaidStep DEF Loop
<1>5. CASE Work
  BY <1>5, WorkerStartsStep, WorkerDiesStep, WorkerSaysStep, WorkerClosesStep DEF Work
<1>6. CASE UNCHANGED vars
  <2>1. UNCHANGED <<master, structs, tab, workers, words, astray, quota>>
    BY <1>6 DEF vars
  <2>2. TypeOK'
    BY <2>1 DEF master, structs, workers, words, PipesInv, TypeOK
  <2> QED BY <2>1, <2>2 DEF master, structs, workers, PipesInv, Stages, Known, Held, Live,
                            Reading, Copies, Released
<1> QED BY <1>1, <1>2, <1>3, <1>4, <1>5, <1>6 DEF Next

LEMMA PipesInductive == Spec => []PipesInv
BY PipesInit, PipesStep, PTL DEF Spec

(* Descriptors, events, buffers and the processes' copies keep their types, with any  *)
(* number of children; the buffer is never filled beyond its size.                    *)
THEOREM StdioTypeCorrect == Spec => []TypeOK
<1>1. PipesInv => TypeOK
  BY DEF PipesInv
<1> QED BY <1>1, PipesInductive, PTL

(* No number is used after it was closed and given to another: events belong to the   *)
(* children they read, and close() is called for descriptors of the child in hand.    *)
THEOREM StdioNumbersAreCurrent == Spec => []NumbersAreCurrent
<1>1. PipesInv => NumbersAreCurrent
  <2> SUFFICES ASSUME PipesInv, NEW e \in events
               PROVE  /\ stage[e[1]] \in {"linked", "closing"}
                      /\ evfd[e[1]][e[2]] \in Fd
                      /\ tab[evfd[e[1]][e[2]]] = Rd(e[1], e[2])
    BY DEF PipesInv, NumbersAreCurrent
  <2>1. e[1] \in Child /\ e[2] \in Stream /\ e = <<e[1], e[2]>>
    <3>1. e \in Child \X Stream
      BY DEF PipesInv, TypeOK
    <3> QED BY <3>1
  <2>2. Live(e[1]) /\ fd[e[1]][e[2]].rd # -1
    BY <2>1 DEF PipesInv, Held
  <2> QED BY <2>1, <2>2 DEF PipesInv, Held, Live
<1> QED BY <1>1, PipesInductive, PTL

(* Failures, deaths and streams closed early leave no pipe open behind them, in the   *)
(* master or in a worker that has started.                                            *)
THEOREM StdioNothingIsLeft == Spec => []NothingIsLeft
<1>1. PipesInv => NothingIsLeft
  <2> SUFFICES ASSUME PipesInv PROVE NothingIsLeft
    OBVIOUS
  <2>1. ASSUME pc = "loop", NEW n \in Fd
        PROVE  tab[n] # NoEnd <=>
                 \E c \in Child, s \in Stream : /\ stage[c] = "linked" /\ fd[c][s].rd = n
                                                /\ tab[n] = Rd(c, s)
    <3>1. ASSUME tab[n] # NoEnd
          PROVE  \E c \in Child, s \in Stream : /\ stage[c] = "linked" /\ fd[c][s].rd = n
                                                /\ tab[n] = Rd(c, s)
      <4>1. PICK c \in Child, s \in Stream : \/ tab[n] = Rd(c, s) /\ fd[c][s].rd = n
                                             \/ tab[n] = Wr(c, s) /\ fd[c][s].wr = n /\ stage[c] = "prepared"
        BY <3>1 DEF PipesInv, Known
      <4>2. stage[c] # "prepared" /\ stage[c] # "closing"
        BY <2>1, StdioAssumption DEF PipesInv, Stages
      <4>3. fd[c][s].rd = n /\ n # -1
        BY <4>1, <4>2, FdLemma
      <4>4. stage[c] = "linked"
        BY <4>2, <4>3 DEF PipesInv, TypeOK, Held
      <4> QED BY <4>1, <4>2, <4>4
    <3> QED BY <3>1, EndsLemma
  <2>2. ASSUME NEW c \in Child, proc[c] = "ready"
        PROVE  wtab[c] = Empty /\ \A s \in Stream : std[c][s] \in {NoEnd, Wr(c, s)}
    BY <2>2 DEF PipesInv, Copies
  <2> QED BY <2>1, <2>2 DEF NothingIsLeft
<1> QED BY <1>1, PipesInductive, PTL

-----------------------------------------------------------------------------
(* All streams. *)

Buffer(c, s) == IF reader.child = c /\ reader.stream = s THEN reader.buf ELSE <<>>

(* Not so once the callback for the stream saw the end of the pipe, or nothing in it. *)
MoreIn(c, s) == reader.child = c /\ reader.stream = s => reader.in

(* A stream that is closed was read to its end and nobody writes to it. *)
Ended ==
  \A c \in Child, s \in Stream :
    /\ fd[c][s].rd = -1 => text[c][s] = <<>> /\ std[c][s] = NoEnd
    /\ ~ Live(c) => text[c][s] = <<>>

Accounts ==
  \A c \in Child, s \in Stream :
    Accounted(told[c][s], Buffer(c, s), text[c][s], written[c][s], MoreIn(c, s))

WordsInv == PipesInv /\ ~ lost /\ Ended /\ Accounts

LEMMA WordsTypes ==
  ASSUME TypeOK, NEW c \in Child, NEW s \in Stream
  PROVE  /\ text[c][s] \in Seq(Char) /\ written[c][s] \in Seq(Say)
         /\ told[c][s] \in Seq(Seq(Char)) /\ reader.buf \in Seq(Char)
         /\ Buffer(c, s) \in Seq(Char) /\ MoreIn(c, s) \in BOOLEAN
<1>1. <<>> \in Seq(Char)
  BY EmptySeq
<1>2. reader.buf \in Seq(Char) /\ reader.in \in BOOLEAN
  BY DEF TypeOK
<1> QED BY <1>1, <1>2 DEF TypeOK, Buffer, MoreIn

LEMMA WordsInit == Init => WordsInv
<1> SUFFICES ASSUME Init PROVE WordsInv
  OBVIOUS
<1>1. PipesInv
  BY PipesInit
<1>2. \A c \in Child, s \in Stream : /\ told[c][s] = <<>> /\ text[c][s] = <<>> /\ written[c][s] = <<>>
                                     /\ Buffer(c, s) = <<>> /\ (MoreIn(c, s) <=> TRUE)
                                     /\ std[c][s] = NoEnd
  BY StdioAssumption DEF Init, OfBoth, Buffer, MoreIn, NoReader
<1>3. Ended
  BY <1>2 DEF Ended
<1>4. Accounts
  <2> SUFFICES ASSUME NEW c \in Child, NEW s \in Stream
               PROVE  Accounted(told[c][s], Buffer(c, s), text[c][s], written[c][s], MoreIn(c, s))
    BY DEF Accounts
  <2>1. MoreIn(c, s) = TRUE
    BY <1>2 DEF MoreIn
  <2> QED BY <1>2, <2>1, NothingSaidLemma
<1> QED BY <1>1, <1>3, <1>4 DEF Init, WordsInv

(* Steps that say, read and log nothing: *)
Silent == UNCHANGED <<words, reader>>

LEMMA SilentLemma ==
  ASSUME WordsInv, PipesInv', Silent,
         \A c \in Child, s \in Stream :
           /\ fd'[c][s].rd = -1 => fd[c][s].rd = -1 \/ ~ Live(c)
           /\ fd'[c][s].rd = -1 => std'[c][s] \in {NoEnd, std[c][s]}
           /\ ~ Live(c)' => ~ Live(c)
  PROVE  WordsInv'
<1>1. Ended'
  <2> SUFFICES ASSUME NEW c \in Child, NEW s \in Stream
               PROVE  /\ fd'[c][s].rd = -1 => text'[c][s] = <<>> /\ std'[c][s] = NoEnd
                      /\ ~ Live(c)' => text'[c][s] = <<>>
    BY DEF Ended
  <2>1. text' = text
    BY DEF Silent, words
  <2>2. ~ Live(c) => std[c][s] = NoEnd
    BY DEF WordsInv, PipesInv, Stages, Copies, Live
  <2> QED BY <2>1, <2>2 DEF WordsInv, Ended
<1>2. Accounts'
  BY DEF WordsInv, Accounts, Buffer, MoreIn, Silent, words
<1> QED BY <1>1, <1>2 DEF WordsInv, Silent, words

(* A step of the callback for one stream: the others are as they were. *)
LEMMA OneStreamLemma ==
  ASSUME WordsInv, PipesInv', pc = "said",
         NEW m, NEW x,
         reader'.child = reader.child, reader'.stream = reader.stream,
         told' = IF m = <<>> THEN told
                 ELSE [told EXCEPT ![reader.child][reader.stream] = Append(@, m)],
         text' = [text EXCEPT ![reader.child][reader.stream] = x],
         UNCHANGED written,
         Accounted(IF m = <<>> THEN told[reader.child][reader.stream]
                   ELSE Append(told[reader.child][reader.stream], m),
                   reader'.buf, x, written[reader.child][reader.stream], reader'.in)
  PROVE  Accounts'
<1>1. reader.child \in Child /\ reader.stream \in Stream /\ TypeOK
  BY DEF WordsInv, PipesInv, Reading, TypeOK
<1> SUFFICES ASSUME NEW c \in Child, NEW s \in Stream
             PROVE  Accounted(told[c][s], Buffer(c, s), text[c][s], written[c][s], MoreIn(c, s))'
  BY DEF Accounts
<1>2. CASE c = reader.child /\ s = reader.stream
  <2>1. /\ Buffer(c, s)' = reader'.buf /\ text'[c][s] = x /\ written'[c][s] = written[c][s]
        /\ told'[c][s] = IF m = <<>> THEN told[c][s] ELSE Append(told[c][s], m)
    BY <1>1, <1>2 DEF Buffer, TypeOK
  <2>2. MoreIn(c, s)' = reader'.in
    <3>1. reader'.in \in BOOLEAN
      BY DEF PipesInv, TypeOK
    <3> QED BY <1>2, <3>1 DEF MoreIn
  <2> QED BY <1>2, <2>1, <2>2
<1>3. CASE ~ (c = reader.child /\ s = reader.stream)
  <2>1. /\ told'[c][s] = told[c][s] /\ text'[c][s] = text[c][s] /\ written'[c][s] = written[c][s]
        /\ Buffer(c, s)' = Buffer(c, s) /\ MoreIn(c, s)' = MoreIn(c, s)
    BY <1>1, <1>3 DEF Buffer, MoreIn, TypeOK
  <2> QED BY <2>1 DEF WordsInv, Accounts
<1> QED BY <1>2, <1>3

(* What reads and prints does with an account. *)
LEMMA LogAccounts ==
  ASSUME WordsInv, PipesInv', pc = "said", NEW b \in Seq(Char), Len(b) <= BufSize,
         NEW in \in BOOLEAN, Log(b, in), NEW x \in Seq(Char),
         text' = [text EXCEPT ![reader.child][reader.stream] = x],
         UNCHANGED written,
         Accounted(told[reader.child][reader.stream], b, x,
                   written[reader.child][reader.stream], in)
  PROVE  Accounts'
<1> DEFINE m    == Message(b, in)
           rest == SubSeq(b, Len(m) + 1, Len(b))
           tt   == told[reader.child][reader.stream]
           ww   == written[reader.child][reader.stream]
<1>1. reader.child \in Child /\ reader.stream \in Stream /\ TypeOK
  BY DEF WordsInv, PipesInv, Reading, TypeOK
<1>2. tt \in Seq(Seq(Char)) /\ ww \in Seq(Say)
  BY <1>1, WordsTypes
<1>3. /\ reader' = [reader EXCEPT !.buf = rest, !.in = in]
      /\ told' = IF m = <<>> THEN told
                 ELSE [told EXCEPT ![reader.child][reader.stream] = Append(@, m)]
  BY DEF Log
<1>4. m = Message(b, in) /\ rest = SubSeq(b, Len(m) + 1, Len(b))
  OBVIOUS
<1> HIDE DEF m, rest, tt, ww
<1>5. Accounted(IF m = <<>> THEN tt ELSE Append(tt, m), rest, x, ww, in)
  <2>1. Accounted(tt, b, x, ww, in)
    BY DEF tt, ww
  <2>2. Len(b) <= BufSize
    OBVIOUS
  <2> QED BY ONLY <2>1, <2>2, <1>2, <1>4, b \in Seq(Char), in \in BOOLEAN, x \in Seq(Char), PrintsLemma
<1>6. reader'.child = reader.child /\ reader'.stream = reader.stream /\ reader'.buf = rest /\ reader'.in = in
  BY <1>1, <1>3 DEF TypeOK
<1> QED BY <1>3, <1>5, <1>6, OneStreamLemma DEF tt, ww

LEMMA WordsReads == WordsInv /\ SaidReads => WordsInv'
<1> SUFFICES ASSUME WordsInv, SaidReads PROVE WordsInv'
  OBVIOUS
<1>0. PipesInv /\ PipesInv'
  BY SaidReadsStep DEF WordsInv
<1> DEFINE e == tab[reader.fd]
           c == reader.child
           s == reader.stream
           n == Min({Room(reader.buf), Len(text[e[1]][e[2]])})
           b == reader.buf \o SubSeq(text[e[1]][e[2]], 1, n)
<1>1. /\ pc = "said" /\ reader.in = TRUE /\ n > 0
      /\ text' = [text EXCEPT ![e[1]][e[2]] = SubSeq(@, n + 1, Len(@))]
      /\ Log(b, TRUE)
      /\ UNCHANGED <<pc, fresh, victim, half, structs, tab, workers, written, lost, astray, quota>>
  <2>1. reader.in \in BOOLEAN
    BY <1>0 DEF PipesInv, TypeOK
  <2> QED BY <2>1 DEF SaidReads
<1>2. /\ c \in Child /\ s \in Stream /\ e[1] = c /\ e[2] = s
      /\ Room(reader.buf) \in Nat /\ fd[c][s].rd # -1
  <2>1. reader.in
    BY <1>1
  <2> QED BY <1>0, <1>1, <2>1, ReaderLemma, FdLemma
<1> HIDE DEF e, b
<1> DEFINE t == text[c][s]
<1>3. t \in Seq(Char) /\ Len(t) \in Nat /\ reader.buf \in Seq(Char) /\ Len(reader.buf) \in Nat
  BY <1>0, <1>2, WordsTypes, LenProperties DEF PipesInv
<1>4. n \in 0..Len(t) /\ n <= Room(reader.buf)
  <2> DEFINE r == Room(reader.buf)
             l == Len(t)
  <2>1. {r, l} \subseteq Nat /\ {r, l} # {}
    BY <1>2, <1>3
  <2>2. n = Min({r, l})
    BY <1>2
  <2> HIDE DEF r, l, n
  <2>3. n \in {r, l} /\ n <= r /\ n <= l
    BY <2>1, <2>2, MinLemma
  <2>4. r \in Nat /\ l \in Nat
    BY <2>1
  <2>5. n \in 0..l /\ n <= r
    BY ONLY <2>3, <2>4
  <2> QED BY <2>5 DEF r, l
<1> HIDE DEF n
<1>5. /\ SubSeq(t, 1, n) \in Seq(Char) /\ Len(SubSeq(t, 1, n)) = n
      /\ SubSeq(t, n + 1, Len(t)) \in Seq(Char)
  BY <1>3, <1>4, CutLemma
<1>6. b = reader.buf \o SubSeq(t, 1, n)
  BY <1>2 DEF b
<1>7. b \in Seq(Char) /\ Len(b) <= BufSize
  <2>2. b \in Seq(Char) /\ Len(b) = Len(reader.buf) + Len(SubSeq(t, 1, n))
    BY <1>6, <1>3, <1>5, ConcatProperties
  <2> DEFINE x == Len(reader.buf)
             y == Len(b)
  <2>3. x \in Nat /\ n \in Nat /\ y = x + n /\ n <= BufSize - x /\ BufSize \in Nat
    <3>1. Room(reader.buf) = BufSize - x
      BY DEF Room
    <3>2. y = x + n
      BY <2>2, <1>5
    <3> HIDE DEF x, y
    <3>3. n \in Nat
      BY <1>3, <1>4
    <3> QED BY <3>1, <3>2, <3>3, <1>3, <1>4, StdioAssumption DEF x
  <2> HIDE DEF x, y
  <2>4. y <= BufSize
    BY ONLY <2>3
  <2> QED BY <2>2, <2>4 DEF y
<1>8. text' = [text EXCEPT ![c][s] = SubSeq(t, n + 1, Len(t))]
  BY <1>0, <1>1, <1>2 DEF PipesInv, TypeOK
<1>9. Accounted(told[c][s], b, SubSeq(t, n + 1, Len(t)), written[c][s], TRUE)
  <2>1. Accounted(told[c][s], reader.buf, t, written[c][s], TRUE)
    <3>1. Accounted(told[c][s], Buffer(c, s), t, written[c][s], MoreIn(c, s))
      BY <1>2 DEF WordsInv, Accounts
    <3>2. Buffer(c, s) = reader.buf
      BY DEF Buffer
    <3> QED BY <3>1, <3>2, AccountedIn
  <2>2. told[c][s] \in Seq(Seq(Char))
    BY <1>0, <1>2, WordsTypes DEF PipesInv
  <2> HIDE DEF t, c, s
  <2> QED BY <1>3, <1>4, <1>6, <2>1, <2>2, ReadsLemma
<1>10. Accounts'
  <2> DEFINE z == SubSeq(t, n + 1, Len(t))
  <2>1. z \in Seq(Char) /\ text' = [text EXCEPT ![c][s] = z]
        /\ Accounted(told[c][s], b, z, written[c][s], TRUE)
    BY <1>5, <1>8, <1>9
  <2>2. TRUE \in BOOLEAN /\ UNCHANGED written
    BY <1>1
  <2> HIDE DEF z, t
  <2> QED BY <1>0, <1>1, <1>7, <2>1, <2>2, LogAccounts
<1>11. Ended'
  <2> SUFFICES ASSUME NEW d \in Child, NEW u \in Stream
               PROVE  /\ fd'[d][u].rd = -1 => text'[d][u] = <<>> /\ std'[d][u] = NoEnd
                      /\ ~ Live(d)' => text'[d][u] = <<>>
    BY DEF Ended
  <2>1. fd' = fd /\ std' = std /\ stage' = stage
    BY <1>1 DEF structs, workers
  <2>2. Live(c)
    BY <1>0, <1>1 DEF PipesInv, Reading
  <2>3. CASE d = c /\ u = s
    BY <1>2, <2>1, <2>2, <2>3 DEF Live
  <2>4. CASE ~ (d = c /\ u = s)
    <3>1. text'[d][u] = text[d][u]
      BY <1>0, <1>2, <1>8, <2>4 DEF PipesInv, TypeOK
    <3> QED BY <2>1, <3>1 DEF WordsInv, Ended, Live
  <2> QED BY <2>3, <2>4
<1> QED BY <1>0, <1>1, <1>10, <1>11 DEF WordsInv

(* The other turns read nothing; those before the last leave nothing in the pipe. *)
LEMMA WordsTurn ==
  ASSUME WordsInv, PipesInv', pc = "said", Log(reader.buf, FALSE), UNCHANGED <<text, written>>,
         reader.in => text[reader.child][reader.stream] = <<>>
  PROVE  Accounts'
<1> DEFINE c == reader.child
           s == reader.stream
           x == text[c][s]
<1>1. c \in Child /\ s \in Stream /\ TypeOK /\ PipesInv
  BY DEF WordsInv, PipesInv, Reading, TypeOK
<1>2. told[c][s] \in Seq(Seq(Char)) /\ written[c][s] \in Seq(Say) /\ x \in Seq(Char)
  BY <1>1, WordsTypes
<1>3. reader.buf \in Seq(Char) /\ Len(reader.buf) <= BufSize /\ reader.in \in BOOLEAN
  BY <1>1 DEF TypeOK
<1>4. Accounted(told[c][s], reader.buf, x, written[c][s], reader.in)
  <2>1. Accounted(told[c][s], Buffer(c, s), x, written[c][s], MoreIn(c, s))
    BY <1>1 DEF WordsInv, Accounts
  <2>2. Buffer(c, s) = reader.buf /\ MoreIn(c, s) = reader.in
    BY <1>3 DEF Buffer, MoreIn
  <2> QED BY <2>1, <2>2
<1>5. Accounted(told[c][s], reader.buf, x, written[c][s], FALSE)
  <2>1. CASE reader.in = FALSE
    BY <2>1, <1>4
  <2>2. CASE reader.in = TRUE
    <3>1. x = <<>> /\ Accounted(told[c][s], reader.buf, <<>>, written[c][s], TRUE)
      BY <2>2, <1>4
    <3> HIDE DEF x, c, s
    <3> QED BY <3>1, <1>2, <1>3, DrainedLemma
  <2> QED BY <2>1, <2>2, <1>3
<1>6. text' = [text EXCEPT ![c][s] = x]
  BY <1>1 DEF TypeOK
<1> HIDE DEF x
<1> QED BY <1>2, <1>3, <1>5, <1>6, LogAccounts

LEMMA WordsAgain == WordsInv /\ SaidAgain => WordsInv'
<1> SUFFICES ASSUME WordsInv, SaidAgain PROVE WordsInv'
  OBVIOUS
<1>1. PipesInv /\ PipesInv'
  BY SaidAgainStep DEF WordsInv
<1>2. /\ pc = "said" /\ reader.in /\ Log(reader.buf, FALSE)
      /\ text[tab[reader.fd][1]][tab[reader.fd][2]] = <<>>
      /\ UNCHANGED <<pc, fresh, victim, half, structs, tab, workers, text, written, lost, astray, quota>>
  BY DEF SaidAgain
<1>3. text[reader.child][reader.stream] = <<>>
  BY <1>1, <1>2, ReaderLemma
<1>4. Accounts'
  BY <1>1, <1>2, <1>3, WordsTurn
<1>5. Ended'
  BY <1>2 DEF WordsInv, Ended, Live, structs, workers
<1> QED BY <1>1, <1>2, <1>4, <1>5 DEF WordsInv

LEMMA WordsPrints == WordsInv /\ SaidPrints => WordsInv'
<1> SUFFICES ASSUME WordsInv, SaidPrints PROVE WordsInv'
  OBVIOUS
<1>1. PipesInv /\ PipesInv'
  BY SaidPrintsStep DEF WordsInv
<1>2. /\ pc = "said" /\ ~ reader.in /\ Log(reader.buf, FALSE)
      /\ UNCHANGED <<pc, fresh, victim, half, structs, tab, workers, text, written, lost, astray, quota>>
  BY DEF SaidPrints
<1>3. Accounts'
  BY <1>1, <1>2, WordsTurn
<1>4. Ended'
  BY <1>2 DEF WordsInv, Ended, Live, structs, workers
<1> QED BY <1>1, <1>2, <1>3, <1>4 DEF WordsInv

(* The end of the pipe: the last writer is gone and all of it was read. *)
LEMMA WordsEof == WordsInv /\ SaidEof => WordsInv'
<1> SUFFICES ASSUME WordsInv, SaidEof PROVE WordsInv'
  OBVIOUS
<1>0. PipesInv /\ PipesInv'
  BY SaidEofStep DEF WordsInv
<1> DEFINE c == reader.child
           s == reader.stream
           e == tab[reader.fd]
<1>1. /\ pc = "said" /\ reader.in /\ Log(reader.buf, FALSE)
      /\ \/ e = NoEnd
         \/ e # NoEnd /\ text[e[1]][e[2]] = <<>> /\ HasEof(e)
         \/ Room(reader.buf) = 0
      /\ fd' = [fd EXCEPT ![c][s].rd = -1]
      /\ UNCHANGED <<pc, fresh, victim, half, stage, evfd, workers, text, written, lost, quota>>
  BY DEF SaidEof, Shut
<1>2. /\ c \in Child /\ s \in Stream /\ e # NoEnd /\ e[1] = c /\ e[2] = s /\ Room(reader.buf) > 0
      /\ Room(reader.buf) \in Nat
  BY <1>0, <1>1, ReaderLemma
<1>3. text[c][s] = <<>> /\ ~ IsOpen(Wr(c, s))
  BY <1>1, <1>2 DEF HasEof
<1>4. std[c][s] = NoEnd
  BY <1>0, <1>2, <1>3 DEF PipesInv, Copies, IsOpen
<1>5. Accounts'
  BY <1>0, <1>1, <1>3, WordsTurn
<1>6. Ended'
  <2> SUFFICES ASSUME NEW d \in Child, NEW u \in Stream
               PROVE  /\ fd'[d][u].rd = -1 => text'[d][u] = <<>> /\ std'[d][u] = NoEnd
                      /\ ~ Live(d)' => text'[d][u] = <<>>
    BY DEF Ended
  <2>1. text' = text /\ std' = std /\ stage' = stage
    BY <1>1 DEF workers
  <2>2. CASE d = c /\ u = s
    BY <2>1, <2>2, <1>3, <1>4
  <2>3. CASE ~ (d = c /\ u = s)
    <3>1. fd'[d][u].rd = fd[d][u].rd
      BY <1>0, <1>1, <1>2, <2>3 DEF PipesInv, TypeOK
    <3> QED BY <2>1, <3>1 DEF WordsInv, Ended, Live
  <2> QED BY <2>2, <2>3
<1> QED BY <1>0, <1>1, <1>5, <1>6 DEF WordsInv

LEMMA WordsSays ==
  ASSUME WordsInv, NEW c \in Child, NEW s \in Stream, WorkerSays(c, s)
  PROVE  WordsInv'
<1>0. PipesInv /\ PipesInv' /\ TypeOK
  BY WorkerSaysStep DEF WordsInv, PipesInv
<1>1. PICK w \in Say :
        /\ std[c][s] # NoEnd
        /\ text' = [text EXCEPT ![std[c][s][1]][std[c][s][2]] = @ \o w]
        /\ written' = [written EXCEPT ![c][s] = Append(@, w)]
        /\ UNCHANGED <<master, structs, tab, workers, told, lost, astray>>
  BY DEF WorkerSays
<1>2. std[c][s][1] = c /\ std[c][s][2] = s
  <2>1. std[c][s] = Wr(c, s)
    BY <1>0, <1>1 DEF PipesInv, Copies
  <2> QED BY <2>1, EndsLemma
<1>3. /\ text'[c][s] = text[c][s] \o w /\ written'[c][s] = Append(written[c][s], w)
      /\ \A d \in Child, u \in Stream : ~ (d = c /\ u = s) =>
           text'[d][u] = text[d][u] /\ written'[d][u] = written[d][u]
  <2>1. text \in [Child -> [Stream -> Seq(Char)]] /\ written \in [Child -> [Stream -> Seq(Say)]]
    BY <1>0 DEF TypeOK
  <2>2. /\ text' = [text EXCEPT ![c][s] = text[c][s] \o w]
        /\ written' = [written EXCEPT ![c][s] = Append(written[c][s], w)]
    BY <1>1, <1>2, <2>1
  <2> DEFINE x == text[c][s] \o w
             v == Append(written[c][s], w)
  <2>3. text' = [text EXCEPT ![c][s] = x] /\ written' = [written EXCEPT ![c][s] = v]
    BY <2>2
  <2> HIDE DEF x, v
  <2>4. /\ text'[c][s] = x /\ written'[c][s] = v
        /\ \A d \in Child, u \in Stream : ~ (d = c /\ u = s) =>
             text'[d][u] = text[d][u] /\ written'[d][u] = written[d][u]
    BY <2>1, <2>3
  <2> QED BY <2>4 DEF x, v
<1>4. reader' = reader /\ told' = told /\ fd' = fd /\ std' = std /\ stage' = stage /\ lost' = lost
  BY <1>1 DEF master, structs, workers
<1>5. Accounts'
  <2> SUFFICES ASSUME NEW d \in Child, NEW u \in Stream
               PROVE  Accounted(told[d][u], Buffer(d, u), text[d][u], written[d][u], MoreIn(d, u))'
    BY DEF Accounts
  <2>1. /\ Buffer(d, u)' = Buffer(d, u) /\ MoreIn(d, u)' = MoreIn(d, u) /\ told'[d][u] = told[d][u]
        /\ Accounted(told[d][u], Buffer(d, u), text[d][u], written[d][u], MoreIn(d, u))
    BY <1>4 DEF WordsInv, Accounts, Buffer, MoreIn
  <2>2. CASE d = c /\ u = s
    <3>1. /\ told[d][u] \in Seq(Seq(Char)) /\ Buffer(d, u) \in Seq(Char) /\ text[d][u] \in Seq(Char)
          /\ written[d][u] \in Seq(Say) /\ MoreIn(d, u) \in BOOLEAN
      BY <1>0, WordsTypes
    <3>2. Accounted(told[d][u], Buffer(d, u), text[d][u] \o w, Append(written[d][u], w), MoreIn(d, u))
      BY <2>1, <3>1, WritesLemma
    <3> QED BY <1>3, <2>1, <2>2, <3>2
  <2>3. CASE ~ (d = c /\ u = s)
    BY <1>3, <2>1, <2>3
  <2> QED BY <2>2, <2>3
<1>6. Ended'
  <2>1. Live(c)
    <3>1. proc[c] = "ready"
      BY <1>0, <1>1 DEF PipesInv, Copies
    <3> QED BY <1>0, <3>1 DEF PipesInv, Stages, Live
  <2> SUFFICES ASSUME NEW d \in Child, NEW u \in Stream
               PROVE  /\ fd'[d][u].rd = -1 => text'[d][u] = <<>> /\ std'[d][u] = NoEnd
                      /\ ~ Live(d)' => text'[d][u] = <<>>
    BY DEF Ended
  <2>2. fd[c][s].rd # -1
    BY <1>1 DEF WordsInv, Ended
  <2>3. CASE d = c /\ u = s
    BY <1>4, <2>1, <2>2, <2>3 DEF Live
  <2>4. CASE ~ (d = c /\ u = s)
    <3>1. text'[d][u] = text[d][u]
      BY <1>3, <2>4
    <3> QED BY <1>4, <3>1 DEF WordsInv, Ended, Live
  <2> QED BY <2>3, <2>4
<1> QED BY <1>0, <1>4, <1>5, <1>6 DEF WordsInv

(* The buffer is empty before a callback and after it. *)
LEMMA QuietLemma ==
  ASSUME WordsInv, reader.buf = <<>>, reader'.buf = <<>>, reader'.in = TRUE \/ reader' = NoReader,
         UNCHANGED words
  PROVE  Accounts'
<1> SUFFICES ASSUME NEW c \in Child, NEW s \in Stream
             PROVE  Accounted(told[c][s], Buffer(c, s), text[c][s], written[c][s], MoreIn(c, s))'
  BY DEF Accounts
<1>1. Buffer(c, s)' = <<>> /\ Buffer(c, s) = <<>>
  BY DEF Buffer
<1>2. MoreIn(c, s)' = TRUE
  BY StdioAssumption DEF MoreIn, NoReader
<1>3. Accounted(told[c][s], <<>>, text[c][s], written[c][s], MoreIn(c, s))
  BY <1>1 DEF WordsInv, Accounts
<1>4. Accounted(told[c][s], <<>>, text[c][s], written[c][s], TRUE)
  BY <1>3, AccountedIn
<1>5. told' = told /\ text' = text /\ written' = written
  BY DEF words
<1> QED BY <1>1, <1>2, <1>4, <1>5

LEMMA WordsCall ==
  ASSUME WordsInv, PipesInv', pc # "said", NEW c \in Child, NEW s \in Stream, CallSaid(c, s),
         UNCHANGED <<stage, fd, workers, words>>
  PROVE  WordsInv'
<1>1. reader = NoReader /\ reader.buf = <<>>
  BY DEF WordsInv, PipesInv, Reading, NoReader
<1>2. reader'.buf = <<>> /\ reader'.in = TRUE
  BY DEF CallSaid
<1>3. Accounts'
  BY <1>1, <1>2, QuietLemma
<1>4. Ended' /\ ~ lost'
  BY DEF WordsInv, Ended, Live, workers, words
<1> QED BY <1>3, <1>4 DEF WordsInv

LEMMA WordsEventSaid ==
  ASSUME WordsInv, NEW c \in Child, NEW s \in Stream, EventSaid(c, s)
  PROVE  WordsInv'
<1>1. PipesInv'
  BY EventSaidStep DEF WordsInv
<1>2. pc # "said" /\ CallSaid(c, s) /\ UNCHANGED <<stage, fd, workers, words>>
  BY DEF EventSaid
<1> QED BY <1>1, <1>2, WordsCall

LEMMA WordsFire == WordsInv /\ Fire => WordsInv'
<1> SUFFICES ASSUME WordsInv, Fire PROVE WordsInv'
  OBVIOUS
<1>1. PipesInv'
  BY FireStep DEF WordsInv
<1>2. pc = "close" /\ CallSaid(victim, half) /\ UNCHANGED <<stage, fd, workers, words>>
  BY DEF Fire, structs
<1>3. victim \in Child /\ half \in Stream
  BY <1>2 DEF WordsInv, PipesInv, TypeOK, Stages
<1> QED BY <1>1, <1>2, <1>3, WordsCall

(* A structure is freed when both its streams are at their end: all is logged. *)
LEMMA WordsNextHalf ==
  ASSUME WordsInv, PipesInv', victim # NoChild, fd[victim][half].rd = -1, NextHalf,
         reader.buf = <<>>, reader' = NoReader, UNCHANGED workers
  PROVE  WordsInv'
<1>1. victim \in Child /\ half \in Stream /\ stage[victim] = "closing" /\ proc[victim] = "none"
      /\ TypeOK
  BY StdioAssumption DEF WordsInv, PipesInv, TypeOK, Stages
<1>2. reader'.buf = <<>>
  BY DEF NoReader
<1>3. CASE half = "out"
  <2>1. UNCHANGED <<stage, fd, words>>
    BY <1>3 DEF NextHalf
  <2>2. Accounts'
    BY <1>2, <2>1, QuietLemma
  <2>3. Ended' /\ ~ lost'
    BY <2>1 DEF WordsInv, Ended, Live, workers, words
  <2> QED BY <2>2, <2>3 DEF WordsInv
<1>4. CASE half = "err"
  <2>1. /\ stage' = [stage EXCEPT ![victim] = "free"]
        /\ fd' = [fd EXCEPT ![victim] = OfBoth([rd |-> -1, wr |-> -1])]
        /\ lost' = (lost \/ \E s \in Stream :
                      FlattenSeq(told[victim][s]) # FlattenSeq(written[victim][s]))
        /\ text' = [text EXCEPT ![victim] = OfBoth(<<>>)]
        /\ written' = [written EXCEPT ![victim] = OfBoth(<<>>)]
        /\ told' = [told EXCEPT ![victim] = OfBoth(<<>>)]
    BY <1>4 DEF NextHalf
  <2>2. \A s \in Stream : fd[victim][s].rd = -1
    BY <1>4 DEF WordsInv, PipesInv, Reading, Stream
  <2>3. ASSUME NEW s \in Stream
        PROVE  FlattenSeq(told[victim][s]) = FlattenSeq(written[victim][s])
    <3> DEFINE f == FlattenSeq(told[victim][s])
    <3>1. text[victim][s] = <<>> /\ Buffer(victim, s) = <<>>
      BY <1>1, <2>2 DEF WordsInv, Ended, Buffer
    <3>2. (f \o <<>>) \o <<>> = FlattenSeq(written[victim][s])
      BY <1>1, <3>1 DEF WordsInv, Accounts, Accounted
    <3>3. f \in Seq(Char)
      BY <1>1, WordsTypes, FlattenType
    <3> HIDE DEF f
    <3>4. f \o <<>> = f
      BY <3>3, ConcatEmptySeq
    <3> QED BY <3>2, <3>4 DEF f
  <2>4. ~ lost'
    BY <2>1, <2>3 DEF WordsInv
  <2>5. \A s \in Stream : /\ text'[victim][s] = <<>> /\ told'[victim][s] = <<>>
                          /\ written'[victim][s] = <<>>
    BY <1>1, <2>1 DEF TypeOK, OfBoth
  <2>6. \A d \in Child : d # victim => /\ text'[d] = text[d] /\ told'[d] = told[d]
                                       /\ written'[d] = written[d] /\ fd'[d] = fd[d]
                                       /\ stage'[d] = stage[d]
    BY <1>1, <2>1 DEF TypeOK
  <2>7. Accounts'
    <3> SUFFICES ASSUME NEW c \in Child, NEW s \in Stream
                 PROVE  Accounted(told[c][s], Buffer(c, s), text[c][s], written[c][s], MoreIn(c, s))'
      BY DEF Accounts
    <3>1. Buffer(c, s)' = <<>> /\ Buffer(c, s) = <<>>
      BY <1>2 DEF Buffer
    <3>2. MoreIn(c, s)' = TRUE
      BY StdioAssumption DEF MoreIn, NoReader
    <3>3. CASE c = victim
      BY <3>1, <3>2, <3>3, <2>5, NothingSaidLemma
    <3>4. CASE c # victim
      <4>1. Accounted(told[c][s], <<>>, text[c][s], written[c][s], MoreIn(c, s))
        BY <3>1 DEF WordsInv, Accounts
      <4>2. Accounted(told[c][s], <<>>, text[c][s], written[c][s], TRUE)
        BY <4>1, AccountedIn
      <4> QED BY <3>1, <3>2, <3>4, <2>6, <4>2
    <3> QED BY <3>3, <3>4
  <2>8. Ended'
    <3> SUFFICES ASSUME NEW d \in Child, NEW u \in Stream
                 PROVE  /\ fd'[d][u].rd = -1 => text'[d][u] = <<>> /\ std'[d][u] = NoEnd
                        /\ ~ Live(d)' => text'[d][u] = <<>>
      BY DEF Ended
    <3>1. std' = std
      BY DEF workers
    <3>2. CASE d = victim
      BY <1>1, <2>5, <3>1, <3>2 DEF WordsInv, PipesInv, Copies
    <3>3. CASE d # victim
      BY <2>6, <3>1, <3>3 DEF WordsInv, Ended, Live
    <3> QED BY <3>2, <3>3
  <2> QED BY <2>4, <2>7, <2>8 DEF WordsInv
<1> QED BY <1>1, <1>3, <1>4 DEF Stream

LEMMA WordsNotOpen == WordsInv /\ NotOpen => WordsInv'
<1> SUFFICES ASSUME WordsInv, NotOpen PROVE WordsInv'
  OBVIOUS
<1>1. PipesInv'
  BY NotOpenStep DEF WordsInv
<1>2. /\ pc = "close" /\ fd[victim][half].rd = -1 /\ NextHalf /\ UNCHANGED <<reader, workers>>
  BY DEF NotOpen
<1>3. victim # NoChild /\ reader = NoReader /\ reader.buf = <<>>
  BY <1>2 DEF WordsInv, PipesInv, Stages, Reading, NoReader
<1> QED BY <1>1, <1>2, <1>3, WordsNextHalf

LEMMA WordsReturns == WordsInv /\ SaidReturns => WordsInv'
<1> SUFFICES ASSUME WordsInv, SaidReturns PROVE WordsInv'
  OBVIOUS
<1>1. PipesInv'
  BY SaidReturnsStep DEF WordsInv
<1>2. /\ pc = "said" /\ ~ reader.in /\ reader.buf = <<>> /\ reader' = NoReader
      /\ UNCHANGED workers
  BY DEF SaidReturns
<1>3. CASE victim = NoChild
  <2>1. UNCHANGED <<stage, fd, words>>
    BY <1>3 DEF SaidReturns
  <2>2. reader'.buf = <<>>
    BY <1>2 DEF NoReader
  <2>3. Accounts'
    BY <1>2, <2>1, <2>2, QuietLemma
  <2>4. Ended' /\ ~ lost'
    BY <1>2, <2>1 DEF WordsInv, Ended, Live, workers, words
  <2> QED BY <1>1, <2>3, <2>4 DEF WordsInv
<1>4. CASE victim # NoChild
  <2>1. NextHalf
    BY <1>4 DEF SaidReturns
  <2>2. fd[victim][half].rd = -1
    BY <1>2, <1>4 DEF WordsInv, PipesInv, Reading
  <2> QED BY <1>1, <1>2, <1>4, <2>1, <2>2, WordsNextHalf
<1> QED BY <1>3, <1>4

(* What the workers and the loop do besides. *)
LEMMA WordsWork ==
  ASSUME WordsInv, NEW c \in Child, WorkerStarts(c) \/ WorkerDies(c) \/ \E s \in Stream : WorkerCloses(c, s)
  PROVE  WordsInv'
<1>0. PipesInv /\ PipesInv' /\ TypeOK
  BY WorkerStartsStep, WorkerDiesStep, WorkerClosesStep DEF WordsInv, PipesInv
<1>1. UNCHANGED <<master, structs, words>>
  BY DEF WorkerStarts, WorkerDies, WorkerCloses
<1>2. Silent /\ fd' = fd /\ stage' = stage
  BY <1>1 DEF Silent, master, structs
<1>3. \A d \in Child, u \in Stream : fd[d][u].rd = -1 => std'[d][u] \in {NoEnd, std[d][u]}
  <2>1. CASE WorkerStarts(c)
    <3>1. /\ proc[c] = "young"
          /\ std' = [std EXCEPT ![c] = [s \in Stream |-> wtab[c][fd[c][s].wr]]]
      BY <2>1 DEF WorkerStarts
    <3>2. \A u \in Stream : fd[c][u].rd # -1
      BY <1>0, <3>1 DEF PipesInv, Copies
    <3>3. \A d \in Child : d # c => std'[d] = std[d]
      BY <1>0, <3>1 DEF TypeOK
    <3> QED BY <3>2, <3>3
  <2>2. CASE WorkerDies(c)
    BY <1>0, <2>2 DEF WorkerDies, TypeOK, OfBoth
  <2>3. ASSUME NEW s \in Stream, WorkerCloses(c, s)
        PROVE  \A d \in Child, u \in Stream : std'[d][u] \in {NoEnd, std[d][u]}
    BY <1>0, <2>3 DEF WorkerCloses, TypeOK
  <2> QED BY <2>1, <2>2, <2>3
<1> QED BY <1>0, <1>2, <1>3, SilentLemma DEF Live

LEMMA WordsMake ==
  ASSUME WordsInv, Make
  PROVE  WordsInv'
<1>0. PipesInv /\ PipesInv' /\ TypeOK
  BY MakeEndsStep, PreparePipesStep, PreparePipesFailsStep, DiscardStep, ForkStep
     DEF Make, WordsInv, PipesInv
<1>1. CASE MakeEnds
  <2>1. Silent /\ fd' = fd /\ stage' = stage /\ std' = std
    BY <1>1 DEF MakeEnds, Silent, structs, workers
  <2> QED BY <1>0, <2>1, SilentLemma DEF Live
<1>2. ASSUME NEW c \in Child, PreparePipes(c) PROVE WordsInv'
  <2>1. Silent /\ std' = std /\ stage[c] = "free"
    BY <1>2 DEF PreparePipes, MayMake, Silent, workers
  <2>2. \A d \in Child : /\ d # c => fd'[d] = fd[d] /\ stage'[d] = stage[d]
                         /\ stage'[d] \in {"prepared", stage[d]}
    BY <1>0, <1>2 DEF PreparePipes, TypeOK
  <2>3. ~ Live(c)
    BY <2>1 DEF Live
  <2>4. \A d \in Child : d # c => (Live(d)' <=> Live(d))
    BY <2>2 DEF Live
  <2> QED BY <1>0, <2>1, <2>2, <2>3, <2>4, SilentLemma
<1>3. ASSUME NEW c \in Child, PreparePipesFails(c) PROVE WordsInv'
  <2>1. Silent /\ fd' = fd /\ stage' = stage /\ std' = std
    BY <1>3 DEF PreparePipesFails, Silent, structs, workers
  <2> QED BY <1>0, <2>1, SilentLemma DEF Live
<1>4. ASSUME NEW c \in Child, Discard(c) PROVE WordsInv'
  <2>1. Silent /\ std' = std /\ stage[c] = "prepared"
    BY <1>0, <1>4 DEF Discard, Silent, workers, PipesInv, Stages
  <2>2. \A d \in Child : d # c => fd'[d] = fd[d] /\ stage'[d] = stage[d]
    BY <1>0, <1>4 DEF Discard, TypeOK
  <2>3. ~ Live(c)
    BY <2>1 DEF Live
  <2>4. \A d \in Child : d # c => (Live(d)' <=> Live(d))
    BY <2>2 DEF Live
  <2> QED BY <1>0, <2>1, <2>2, <2>3, <2>4, SilentLemma
<1>5. ASSUME NEW c \in Child, Fork(c) PROVE WordsInv'
  <2>1. Silent /\ fd' = fd /\ std' = std
    BY <1>5 DEF Fork, Silent
  <2>2. \A d \in Child : stage'[d] \in {"linked", stage[d]}
    BY <1>0, <1>5 DEF Fork, TypeOK
  <2>3. \A d \in Child : ~ Live(d)' => ~ Live(d)
    BY <2>2 DEF Live
  <2> QED BY <1>0, <2>1, <2>3, SilentLemma
<1> QED BY <1>1, <1>2, <1>3, <1>4, <1>5 DEF Make

LEMMA WordsLoop ==
  ASSUME WordsInv, Dispatch \/ \E c \in Child : Bury(c)
  PROVE  WordsInv'
<1>0. PipesInv /\ PipesInv' /\ TypeOK
  BY DispatchStep, BuryStep DEF WordsInv, PipesInv
<1>1. CASE Dispatch
  <2>1. Silent /\ fd' = fd /\ stage' = stage /\ std' = std
    BY <1>1 DEF Dispatch, Silent, master, workers
  <2> QED BY <1>0, <2>1, SilentLemma DEF Live
<1>2. ASSUME NEW c \in Child, Bury(c) PROVE WordsInv'
  <2>1. Silent /\ fd' = fd /\ std' = std
    BY <1>2 DEF Bury, Silent
  <2>2. \A d \in Child : stage'[d] \in {"closing", stage[d]}
    BY <1>0, <1>2 DEF Bury, TypeOK
  <2>3. \A d \in Child : ~ Live(d)' => ~ Live(d)
    BY <2>2 DEF Live
  <2> QED BY <1>0, <2>1, <2>3, SilentLemma
<1> QED BY <1>1, <1>2

LEMMA WordsStep == WordsInv /\ [Next]_vars => WordsInv'
<1> SUFFICES ASSUME WordsInv, [Next]_vars PROVE WordsInv'
  OBVIOUS
<1>1. CASE Said
  BY <1>1, WordsReads, WordsAgain, WordsEof, WordsPrints, WordsReturns DEF Said
<1>2. CASE Closing
  BY <1>2, WordsFire, WordsNotOpen DEF Closing
<1>3. CASE Make
  BY <1>3, WordsMake
<1>4. CASE Loop
  BY <1>4, WordsLoop, WordsEventSaid DEF Loop
<1>5. CASE Work
  BY <1>5, WordsWork, WordsSays DEF Work
<1>6. CASE UNCHANGED vars
  <2>1. PipesInv'
    BY PipesStep DEF WordsInv
  <2>2. UNCHANGED <<master, structs, workers, words>>
    BY <1>6 DEF vars
  <2>3. Silent /\ fd' = fd /\ stage' = stage /\ std' = std
    BY <2>2 DEF Silent, master, structs, workers
  <2> QED BY <2>1, <2>3, SilentLemma DEF Live
<1> QED BY <1>1, <1>2, <1>3, <1>4, <1>5, <1>6 DEF Next

LEMMA WordsInductive == Spec => []WordsInv
BY WordsInit, WordsStep, PTL DEF Spec

(* Whatever the workers write, at whatever moment they die and however the reads cut  *)
(* it: what fpm_stdio_child_said has logged, what its buffer holds and what is in the *)
(* pipe is what was written, all of it is logged when the child is freed, and lines   *)
(* that fit the buffer are logged one by one, as they were written.                   *)
THEOREM StdioOutputIsExact == Spec => []OutputIsExact
<1>1. WordsInv => OutputIsExact
  <2> SUFFICES ASSUME WordsInv PROVE OutputIsExact
    OBVIOUS
  <2>1. NothingSaidIsLost
    BY DEF WordsInv, Accounts, Accounted, Buffer, NothingSaidIsLost
  <2>2. LinesStayWhole
    BY DEF WordsInv, Accounts, Accounted, Lines, Line, LinesStayWhole
  <2> QED BY <2>1, <2>2 DEF OutputIsExact
<1> QED BY <1>1, WordsInductive, PTL
=============================================================================
