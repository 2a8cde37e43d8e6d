-------------------------- MODULE FpmWorkersProof --------------------------
(* Every reply goes to the client whose request it answers, once, and the  *)
(* master can rely on the stages, whatever the numbers of workers, of      *)
(* connections, of requests and of deaths.                                 *)
EXTENDS FpmWorkers, FiniteSetTheorems, SequenceTheorems, TLAPS

WorkerType == [
  pc : {"top", "idle", "accept", "accepted", "wait", "read", "info", "exec", "work", "dead"},
  conn : Conn \cup {NoConn},
  keep : BOOLEAN,
  requests : Nat,
  stage : Stage,
  env : {"none", "live", "freed", "leaked", "freed twice"},
  out : Seq(Conn)]

Got == Seq({"body", "end"} \X Conn)

ClientType == [
  phase : {"away", "queued", "open", "left", "closed", "reset"},
  tail : {"none", "half", "bad"},
  sent : 0..MaxSent,
  taken : 0..MaxSent,
  got : Got]

-----------------------------------------------------------------------------
(* What holds of each worker at each place of its loop. *)
Local(v) ==
  /\ v.pc \in {"accepted", "wait", "read", "info", "exec", "work"} => v.conn # NoConn
  /\ v.pc \in {"idle", "accept", "dead"} => v.conn = NoConn
  /\ v.pc \notin {"dead", "accepted"} => (v.stage \in Busy <=> v.conn # NoConn)
  /\ v.env # "leaked"
  /\ v.env = "freed twice" => v.requests = MaxRequests
  /\ v.pc \in {"info", "exec", "work"} => v.env = "live"
  /\ v.env = "live" => v.pc \in {"info", "exec", "work", "top"}
  /\ v.pc = "top" /\ v.conn # NoConn =>
       v.env = "live" \/ (v.env = "freed" /\ v.requests = MaxRequests)
  /\ v.pc = "top" /\ v.conn = NoConn => v.env \in {"none", "freed"}
  /\ v.keep => v.conn \in KeepConn /\ v.pc \notin {"accepted", "wait"}

(* A connection is in the queue, or one worker has it, or neither; before  *)
(* a worker has it nothing was taken of it.                                *)
New(k) == k.taken = 0 /\ k.got = <<>>

Owned ==
  /\ \A w, x \in Worker :
       worker[w].conn = worker[x].conn /\ worker[w].conn # NoConn => w = x
  /\ \A w \in Worker : \A i \in DOMAIN backlog : backlog[i] # worker[w].conn
  /\ \A i, j \in DOMAIN backlog : backlog[i] = backlog[j] => i = j
  /\ \A i \in DOMAIN backlog :
       client[backlog[i]].phase \in {"queued", "left"} /\ New(client[backlog[i]])
  /\ \A c \in Conn : client[c].phase \in {"away", "queued"} => New(client[c])
  /\ \A c \in Conn : client[c].phase = "open" => \E w \in Worker : worker[w].conn = c

-----------------------------------------------------------------------------
(* What a client got. *)
EndsIn(got, c) == Cardinality({i \in DOMAIN got : got[i] = <<"end", c>>})

(* Bodies: the parts that are not an end. *)
Bodies(got, c) == Len(got) - EndsIn(got, c)

Whole(got, c) ==
  \A i \in DOMAIN got :
    /\ got[i][2] = c
    /\ got[i][1] = "body" => i < Len(got) /\ got[i + 1] = <<"end", c>>

InOrder(k, c) ==
  /\ Whole(k.got, c)
  /\ Bodies(k.got, c) <= k.taken
  /\ EndsIn(k.got, c) <= k.taken + (IF c \in KeepConn THEN 2 ELSE 0)
  /\ k.phase = "closed" => EndsIn(k.got, c) >= k.taken

(* By how many ends a connection may be ahead of what was asked: none, or  *)
(* the two of the request that reached max_requests.                       *)
Ahead(v, ends, asked) ==
  \/ ends = asked
  \/ ends = asked + 2 /\ v.conn \in KeepConn /\ v.requests >= MaxRequests

(* What the client of a worker got, at each place of the loop. *)
Answered(v, k) ==
  LET ends == EndsIn(k.got, v.conn)
      bodies == Bodies(k.got, v.conn)
  IN
  /\ k.phase \in {"open", "left"}
  /\ v.pc \in {"accepted", "wait"} => New(k)
  /\ v.pc = "read" => Ahead(v, ends, k.taken) /\ bodies <= k.taken
  /\ v.pc \in {"info", "exec", "work"} =>
       v.out = <<>> /\ Ahead(v, ends + 1, k.taken) /\ bodies + 1 <= k.taken
  /\ v.pc = "top" /\ v.env = "live" =>
       v.out = <<v.conn>> /\ Ahead(v, ends + 1, k.taken) /\ bodies + 1 <= k.taken
  /\ v.pc = "top" /\ v.env # "live" =>
       v.out = <<>> /\ ends = k.taken + 1 /\ bodies <= k.taken /\ v.conn \in KeepConn

IInv ==
  /\ worker \in [Worker -> WorkerType]
  /\ client \in [Conn -> ClientType]
  /\ backlog \in Seq(Conn)
  /\ deaths \in 0..MaxDeaths
  /\ \A c \in Conn : client[c].taken <= client[c].sent
  /\ \A w \in Worker : Local(worker[w])
  /\ Owned
  /\ \A c \in Conn : InOrder(client[c], c)
  /\ \A w \in Worker :
       worker[w].conn # NoConn => Answered(worker[w], client[worker[w].conn])

-----------------------------------------------------------------------------
(* Counting ends. *)
LEMMA EndsType ==
  ASSUME NEW g \in Got, NEW c \in Conn
  PROVE  /\ EndsIn(g, c) \in Nat
         /\ IsFiniteSet({i \in DOMAIN g : g[i] = <<"end", c>>})
<1>1. DOMAIN g = 1..Len(g) /\ Len(g) \in Nat
  BY DEF Got
<1>2. IsFiniteSet(1..Len(g))
  BY <1>1, FS_Interval
<1>3. IsFiniteSet({i \in DOMAIN g : g[i] = <<"end", c>>})
  BY <1>1, <1>2, FS_Subset
<1> QED BY <1>3, FS_CardinalityType DEF EndsIn

LEMMA NoneEnds == ASSUME NEW c \in Conn PROVE EndsIn(<<>>, c) = 0 /\ Bodies(<<>>, c) = 0
<1>1. {i \in DOMAIN <<>> : <<>>[i] = <<"end", c>>} = {}
  OBVIOUS
<1>2. EndsIn(<<>>, c) = 0
  BY <1>1, FS_EmptySet DEF EndsIn
<1> QED BY <1>2 DEF Bodies

LEMMA EndsAppend ==
  ASSUME NEW g \in Got, NEW c \in Conn, NEW p \in {"body", "end"} \X Conn
  PROVE  EndsIn(Append(g, p), c) =
           IF p = <<"end", c>> THEN EndsIn(g, c) + 1 ELSE EndsIn(g, c)
<1> DEFINE h == Append(g, p)
           G == {i \in DOMAIN g : g[i] = <<"end", c>>}
           H == {i \in DOMAIN h : h[i] = <<"end", c>>}
<1>1. /\ DOMAIN g = 1..Len(g) /\ Len(g) \in Nat
      /\ DOMAIN h = 1..(Len(g) + 1)
      /\ \A i \in 1..Len(g) : h[i] = g[i]
      /\ h[Len(g) + 1] = p
  BY DEF Got
<1> HIDE DEF h
<1>2. IsFiniteSet(G)
  BY EndsType
<1>3. CASE p = <<"end", c>>
  <2>1. H = G \cup {Len(g) + 1}
    BY <1>1, <1>3
  <2>2. Len(g) + 1 \notin G
    BY <1>1
  <2>3. Cardinality(G \cup {Len(g) + 1}) = Cardinality(G) + 1
    BY <1>2, <2>2, FS_AddElement
  <2> QED BY <1>3, <2>1, <2>3 DEF EndsIn, h
<1>4. CASE p # <<"end", c>>
  <2>1. H = G
    BY <1>1, <1>4
  <2> QED BY <1>4, <2>1 DEF EndsIn, h
<1> QED BY <1>3, <1>4

(* An end behind the rest. *)
LEMMA AppendEnd ==
  ASSUME NEW c \in Conn, NEW g \in Got, Whole(g, c)
  PROVE  LET h == Append(g, <<"end", c>>)
         IN  /\ h \in Got /\ Whole(h, c)
             /\ EndsIn(h, c) = EndsIn(g, c) + 1
             /\ Bodies(h, c) = Bodies(g, c)
<1> DEFINE h == Append(g, <<"end", c>>)
<1>1. /\ DOMAIN g = 1..Len(g) /\ Len(g) \in Nat
      /\ DOMAIN h = 1..(Len(g) + 1) /\ Len(h) = Len(g) + 1
      /\ \A i \in 1..Len(g) : h[i] = g[i]
      /\ h[Len(g) + 1] = <<"end", c>>
      /\ h \in Got
  BY DEF Got
<1>2. EndsIn(h, c) = EndsIn(g, c) + 1
  BY EndsAppend
<1> HIDE DEF h
<1>3. Whole(h, c)
  BY <1>1 DEF Whole
<1>4. Bodies(h, c) = Bodies(g, c)
  <2>1. EndsIn(g, c) \in Nat
    BY EndsType
  <2> QED BY <1>1, <1>2, <2>1 DEF Bodies
<1> QED BY <1>1, <1>2, <1>3, <1>4 DEF h

(* A reply and its end. *)
LEMMA AppendReply ==
  ASSUME NEW c \in Conn, NEW g \in Got, Whole(g, c)
  PROVE  LET h == Append(Append(g, <<"body", c>>), <<"end", c>>)
         IN  /\ h \in Got /\ Whole(h, c)
             /\ EndsIn(h, c) = EndsIn(g, c) + 1
             /\ Bodies(h, c) = Bodies(g, c) + 1
<1> DEFINE b == Append(g, <<"body", c>>)
           h == Append(b, <<"end", c>>)
<1>1. /\ DOMAIN g = 1..Len(g) /\ Len(g) \in Nat
      /\ DOMAIN b = 1..(Len(g) + 1) /\ Len(b) = Len(g) + 1
      /\ \A i \in 1..Len(g) : b[i] = g[i]
      /\ b[Len(g) + 1] = <<"body", c>>
      /\ b \in Got
  BY DEF Got
<1>2. EndsIn(b, c) = EndsIn(g, c)
  BY EndsAppend
<1> HIDE DEF b
<1>3. /\ DOMAIN h = 1..(Len(g) + 2) /\ Len(h) = Len(g) + 2
      /\ \A i \in 1..(Len(g) + 1) : h[i] = b[i]
      /\ h[Len(g) + 2] = <<"end", c>>
      /\ h \in Got
  BY <1>1 DEF Got
<1>4. EndsIn(h, c) = EndsIn(b, c) + 1
  BY <1>1, EndsAppend
<1> HIDE DEF h
<1>5. Whole(h, c)
  BY <1>1, <1>3 DEF Whole
<1>6. Bodies(h, c) = Bodies(g, c) + 1
  <2>1. EndsIn(g, c) \in Nat
    BY EndsType
  <2> QED BY <1>1, <1>2, <1>3, <1>4, <2>1 DEF Bodies
<1> QED BY <1>2, <1>3, <1>4, <1>5, <1>6 DEF h, b

LEMMA ConcatTwo ==
  ASSUME NEW S, NEW g \in Seq(S), NEW x \in S, NEW y \in S
  PROVE  /\ <<x>> \o <<y>> \in Seq(S)
         /\ g \o (<<x>> \o <<y>>) = Append(Append(g, x), y)
<1>1. <<x>> \in Seq(S) /\ <<y>> \in Seq(S)
  OBVIOUS
<1>2. <<x>> \o <<y>> \in Seq(S)
  BY <1>1, ConcatProperties
<1>3. g \o (<<x>> \o <<y>>) = (g \o <<x>>) \o <<y>>
  BY <1>1, ConcatAssociative
<1>4. g \o <<x>> = Append(g, x) /\ Append(g, x) \in Seq(S)
  BY AppendIsConcat, AppendProperties
<1>5. Append(g, x) \o <<y>> = Append(Append(g, x), y)
  BY <1>4, AppendIsConcat
<1> QED BY <1>2, <1>3, <1>4, <1>5

LEMMA ConcatThree ==
  \A S : \A g, x, y \in Seq(S) : (g \o x) \o y = g \o (x \o y)
<1> TAKE S
<1> TAKE g, x, y \in Seq(S)
<1> QED BY ConcatAssociative

(* fcgi_flush sends what is in the buffer with its end, or fails.          *)
LEMMA FlushLemma ==
  ASSUME NEW v \in WorkerType, v.conn \in Conn, v.out \in {<<>>, <<v.conn>>},
         NEW g \in Got, Whole(g, v.conn), NEW f \in FlushEnd(v)
  PROVE  \/ /\ f.v = [v EXCEPT !.out = <<>>]
            /\ g \o f.got \in Got /\ Whole(g \o f.got, v.conn)
            /\ EndsIn(g \o f.got, v.conn) = EndsIn(g, v.conn) + 1
            /\ Bodies(g \o f.got, v.conn) = Bodies(g, v.conn) + Len(v.out)
            /\ f.got \in Got
         \/ /\ f.v = [v EXCEPT !.keep = FALSE] /\ f.got = <<>>
            /\ client[v.conn].phase = "left"
<1>1. CASE f = [v |-> [v EXCEPT !.keep = FALSE], got |-> <<>>] /\ client[v.conn].phase = "left"
  BY <1>1
<1>2. CASE f = [v |-> [v EXCEPT !.out = <<>>],
                got |-> [i \in DOMAIN v.out |-> <<"body", v.out[i]>>] \o <<<<"end", v.conn>>>>]
  <2>1. CASE v.out = <<>>
    <3>1. f.got = <<<<"end", v.conn>>>>
      BY <1>2, <2>1
    <3>2. g \o f.got = Append(g, <<"end", v.conn>>) /\ f.got \in Got
      BY <3>1 DEF Got
    <3>3. f.v = [v EXCEPT !.out = <<>>] /\ Len(v.out) = 0
      BY <1>2, <2>1
    <3>4. Bodies(g, v.conn) + 0 = Bodies(g, v.conn)
      <4>1. EndsIn(g, v.conn) \in Nat
        BY EndsType
      <4>2. Len(g) \in Nat
        BY DEF Got
      <4> QED BY <4>1, <4>2 DEF Bodies
    <3> QED BY <3>2, <3>3, <3>4, AppendEnd
  <2>2. CASE v.out = <<v.conn>>
    <3> DEFINE b == [i \in DOMAIN v.out |-> <<"body", v.out[i]>>]
    <3>4. b = <<<<"body", v.conn>>>>
      <4>1. DOMAIN v.out = {1} /\ v.out[1] = v.conn
        BY <2>2
      <4>2. DOMAIN b = 1..1 /\ b[1] = <<"body", v.conn>>
        BY <4>1
      <4> QED BY <4>1
    <3>5. f.got = b \o <<<<"end", v.conn>>>>
      BY <1>2
    <3> HIDE DEF b
    <3>2. g \o f.got = Append(Append(g, <<"body", v.conn>>), <<"end", v.conn>>) /\ f.got \in Got
      <4> DEFINE S == {"body", "end"} \X Conn
                 x == <<"body", v.conn>>
                 y == <<"end", v.conn>>
      <4>1. x \in S /\ y \in S
        OBVIOUS
      <4>2. f.got = <<x>> \o <<y>>
        BY <3>4, <3>5
      <4>3. g \in Seq(S) /\ Got = Seq(S)
        BY DEF Got
      <4> HIDE DEF S, x, y
      <4>4. /\ <<x>> \o <<y>> \in Seq(S)
            /\ g \o (<<x>> \o <<y>>) = Append(Append(g, x), y)
        BY <4>1, <4>3, ConcatTwo
      <4> QED BY <4>2, <4>3, <4>4 DEF x, y
    <3>3. f.v = [v EXCEPT !.out = <<>>] /\ Len(v.out) = 1
      BY <1>2, <2>2
    <3> QED BY <3>2, <3>3, AppendReply
  <2> QED BY <2>1, <2>2
<1> QED BY <1>1, <1>2 DEF FlushEnd

-----------------------------------------------------------------------------
(* What a step of one actor leaves as it was. *)

(* A worker without a connection. *)
LEMMA FreeLemma ==
  ASSUME IInv, NEW w \in Worker, worker[w].conn = NoConn,
         NEW v \in WorkerType, Local(v), v.conn = NoConn,
         worker' = [worker EXCEPT ![w] = v],
         client' = client, backlog' = backlog, deaths' \in 0..MaxDeaths
  PROVE  IInv'
<1>1. /\ worker' \in [Worker -> WorkerType]
      /\ worker'[w] = v
      /\ \A x \in Worker : x # w => worker'[x] = worker[x]
  BY DEF IInv
<1>2. \A x \in Worker : worker'[x].conn = worker[x].conn
  BY <1>1
<1>3. \A x \in Worker : Local(worker'[x])
  BY <1>1 DEF IInv
<1>4. Owned'
  BY <1>2 DEF IInv, Owned
<1>5. \A x \in Worker :
        worker'[x].conn # NoConn => Answered(worker'[x], client'[worker'[x].conn])
  BY <1>1, <1>2 DEF IInv
<1> QED BY <1>1, <1>3, <1>4, <1>5 DEF IInv

(* A worker and the client of its connection, which it keeps or gives up.  *)
LEMMA ServeLemma ==
  ASSUME IInv, NEW w \in Worker, NEW c \in Conn, worker[w].conn = c,
         NEW v \in WorkerType, Local(v), v.conn \in {c, NoConn},
         NEW k \in ClientType, k.taken <= k.sent, InOrder(k, c),
         v.conn = c => Answered(v, k),
         v.conn = NoConn => k.phase \in {"left", "closed", "reset"},
         worker' = [worker EXCEPT ![w] = v],
         client' = [client EXCEPT ![c] = k],
         backlog' = backlog, deaths' \in 0..MaxDeaths
  PROVE  IInv'
<1>1. /\ worker' \in [Worker -> WorkerType]
      /\ worker'[w] = v
      /\ \A x \in Worker : x # w => worker'[x] = worker[x]
  BY DEF IInv
<1>2. /\ client' \in [Conn -> ClientType]
      /\ client'[c] = k
      /\ \A d \in Conn : d # c => client'[d] = client[d]
  BY DEF IInv
<1>3. NoConn \notin Conn
  BY WorkersAssumption
<1>4. \A x \in Worker : x # w => worker[x].conn # c
  BY <1>3 DEF IInv, Owned
<1>5. \A x \in Worker : worker[x].conn \in Conn \cup {NoConn}
  BY DEF IInv, WorkerType
<1>6. \A x \in Worker : Local(worker'[x])
  BY <1>1 DEF IInv
<1>7. \A x \in Worker :
        worker'[x].conn # NoConn => Answered(worker'[x], client'[worker'[x].conn])
  <2> SUFFICES ASSUME NEW x \in Worker, worker'[x].conn # NoConn
               PROVE  Answered(worker'[x], client'[worker'[x].conn])
    OBVIOUS
  <2>1. CASE x = w
    BY <1>1, <1>2, <2>1
  <2>2. CASE x # w
    <3>1. worker[x].conn \in Conn /\ worker[x].conn # c
      BY <1>1, <1>4, <1>5, <2>2
    <3> QED BY <1>1, <1>2, <2>2, <3>1 DEF IInv
  <2> QED BY <2>1, <2>2
<1>8. Owned'
  <2>1. \A x, y \in Worker :
          worker'[x].conn = worker'[y].conn /\ worker'[x].conn # NoConn => x = y
    BY <1>1, <1>4 DEF IInv, Owned
  <2>2. \A i \in DOMAIN backlog : backlog[i] \in Conn /\ backlog[i] # c
    BY DEF IInv, Owned
  <2>3. \A x \in Worker : \A i \in DOMAIN backlog : backlog[i] # worker'[x].conn
    BY <1>1, <1>3, <2>2 DEF IInv, Owned
  <2>4. \A i \in DOMAIN backlog :
          client'[backlog[i]].phase \in {"queued", "left"} /\ New(client'[backlog[i]])
    BY <1>2, <2>2 DEF IInv, Owned
  <2>5. k.phase \in {"open", "left", "closed", "reset"}
    BY DEF Answered
  <2>6. \A d \in Conn : client'[d].phase \in {"away", "queued"} => New(client'[d])
    BY <1>2, <2>5 DEF IInv, Owned
  <2>7. \A d \in Conn : client'[d].phase = "open" => \E x \in Worker : worker'[x].conn = d
    <3> SUFFICES ASSUME NEW d \in Conn, client'[d].phase = "open"
                 PROVE  \E x \in Worker : worker'[x].conn = d
      OBVIOUS
    <3>1. CASE d = c
      BY <1>1, <1>2, <3>1
    <3>2. CASE d # c
      <4>1. PICK x \in Worker : worker[x].conn = d
        BY <1>2, <3>2 DEF IInv, Owned
      <4> QED BY <1>1, <3>2, <4>1
    <3> QED BY <3>1, <3>2
  <2>8. \A i, j \in DOMAIN backlog : backlog[i] = backlog[j] => i = j
    BY DEF IInv, Owned
  <2> QED BY <2>1, <2>3, <2>4, <2>6, <2>7, <2>8 DEF Owned
<1>9. \A d \in Conn : client'[d].taken <= client'[d].sent /\ InOrder(client'[d], d)
  BY <1>2 DEF IInv
<1> QED BY <1>1, <1>2, <1>6, <1>7, <1>8, <1>9 DEF IInv

(* A worker alone, while its client waits. *)
LEMMA WorkLemma ==
  ASSUME IInv, NEW w \in Worker, NEW c \in Conn, worker[w].conn = c,
         NEW v \in WorkerType, Local(v), v.conn = c, Answered(v, client[c]),
         worker' = [worker EXCEPT ![w] = v],
         client' = client, backlog' = backlog, deaths' \in 0..MaxDeaths
  PROVE  IInv'
<1>1. /\ client[c] \in ClientType
      /\ client[c].taken <= client[c].sent
      /\ InOrder(client[c], c)
      /\ client' = [client EXCEPT ![c] = client[c]]
  BY DEF IInv
<1>2. NoConn \notin Conn
  BY WorkersAssumption
<1> QED BY <1>1, <1>2, ServeLemma

(* The web server, which may do so at any moment. *)
LEMMA PeerLemma ==
  ASSUME IInv, NEW c \in Conn, NEW k \in ClientType,
         k.taken = client[c].taken, k.got = client[c].got, k.taken <= k.sent,
         k.phase = client[c].phase
           \/ (client[c].phase \in {"queued", "open"} /\ k.phase = "left"),
         client' = [client EXCEPT ![c] = k],
         worker' = worker, backlog' = backlog, deaths' = deaths
  PROVE  IInv'
<1>1. /\ client' \in [Conn -> ClientType]
      /\ client'[c] = k
      /\ \A d \in Conn : d # c => client'[d] = client[d]
  BY DEF IInv
<1>2. \A d \in Conn :
        /\ client'[d].taken <= client'[d].sent
        /\ InOrder(client'[d], d)
  BY <1>1 DEF IInv, InOrder
<1>3. \A x \in Worker :
        worker[x].conn # NoConn => Answered(worker[x], client'[worker[x].conn])
  <2> SUFFICES ASSUME NEW x \in Worker, worker[x].conn # NoConn
               PROVE  Answered(worker[x], client'[worker[x].conn])
    OBVIOUS
  <2>1. worker[x].conn \in Conn /\ Answered(worker[x], client[worker[x].conn])
    BY DEF IInv, WorkerType
  <2>2. CASE worker[x].conn = c
    BY <1>1, <2>1, <2>2 DEF Answered, New
  <2>3. CASE worker[x].conn # c
    BY <1>1, <2>1, <2>3
  <2> QED BY <2>2, <2>3
<1>4. Owned'
  <2>1. \A i \in DOMAIN backlog : backlog[i] \in Conn
    BY DEF IInv
  <2> QED BY <1>1, <2>1 DEF IInv, Owned, New
<1> QED BY <1>1, <1>2, <1>3, <1>4 DEF IInv

(* What is known of a worker and of its client. *)
LEMMA KnownLemma ==
  ASSUME IInv, NEW w \in Worker
  PROVE  /\ worker[w] \in WorkerType /\ Local(worker[w])
         /\ worker[w].conn # NoConn =>
              LET c == worker[w].conn IN
              /\ c \in Conn /\ client[c] \in ClientType
              /\ client[c].taken <= client[c].sent
              /\ InOrder(client[c], c)
              /\ Answered(worker[w], client[c])
BY DEF IInv, WorkerType

-----------------------------------------------------------------------------
(* The steps of a worker. *)

LEMMA AcceptingLemma == ASSUME IInv, NEW w \in Worker, Accepting(w) PROVE IInv'
<1> DEFINE v == [worker[w] EXCEPT !.pc = "accept", !.stage = "ACCEPTING"]
<1>1. worker[w] \in WorkerType /\ Local(worker[w]) /\ worker[w].pc = "idle"
  BY KnownLemma DEF Accepting
<1>2. v \in WorkerType /\ Local(v) /\ v.conn = NoConn /\ worker[w].conn = NoConn
  BY <1>1 DEF WorkerType, Local, Stage, Busy
<1>3. worker' = [worker EXCEPT ![w] = v] /\ client' = client
      /\ backlog' = backlog /\ deaths' \in 0..MaxDeaths
  BY DEF Accepting, IInv
<1> HIDE DEF v
<1> QED BY <1>2, <1>3, FreeLemma

LEMMA AcceptLemma == ASSUME IInv, NEW w \in Worker, Accept(w) PROVE IInv'
<1> DEFINE c == Head(backlog)
           v == [worker[w] EXCEPT !.pc = "accepted", !.conn = c]
           k == [client[c] EXCEPT !.phase = IF @ = "queued" THEN "open" ELSE @]
<1>1. worker[w] \in WorkerType /\ Local(worker[w]) /\ worker[w].pc = "accept"
      /\ worker[w].conn = NoConn
  BY KnownLemma DEF Accept, Local
<1>2. /\ backlog \in Seq(Conn) /\ backlog # <<>> /\ c = backlog[1]
      /\ 1 \in DOMAIN backlog /\ c \in Conn
  BY DEF Accept, IInv
<1>3. /\ client[c] \in ClientType /\ New(client[c]) /\ client[c].phase \in {"queued", "left"}
      /\ client[c].taken <= client[c].sent /\ InOrder(client[c], c)
  BY <1>2 DEF IInv, Owned
<1>4. /\ worker' = [worker EXCEPT ![w] = v] /\ client' = [client EXCEPT ![c] = k]
      /\ backlog' = Tail(backlog) /\ deaths' = deaths
  BY DEF Accept
<1>5. NoConn \notin Conn /\ KeepConn \subseteq Conn
  BY WorkersAssumption
<1>6. /\ DOMAIN backlog = 1..Len(backlog) /\ Len(backlog) \in Nat
      /\ backlog' \in Seq(Conn)
      /\ \A i \in DOMAIN backlog' : i \in Nat /\ i + 1 \in DOMAIN backlog /\ backlog'[i] = backlog[i + 1]
  <2>1. /\ backlog' \in Seq(Conn) /\ Len(backlog') = Len(backlog) - 1
        /\ \A i \in 1..Len(backlog') : backlog'[i] = backlog[i + 1]
    BY <1>2, <1>4, HeadTailProperties
  <2>2. DOMAIN backlog = 1..Len(backlog) /\ Len(backlog) \in Nat
    BY <1>2
  <2>3. DOMAIN backlog' = 1..Len(backlog')
    BY <2>1
  <2> QED BY <2>1, <2>2, <2>3
<1> HIDE DEF c
<1>7. v \in WorkerType /\ Local(v) /\ v.conn = c /\ v.pc = "accepted"
  BY <1>1, <1>2, <1>5 DEF WorkerType, Local
<1>8. k \in ClientType /\ New(k) /\ k.phase \in {"open", "left"}
      /\ k.taken <= k.sent /\ InOrder(k, c)
  BY <1>3 DEF ClientType, New, InOrder
<1>9. Answered(v, k)
  BY <1>7, <1>8 DEF Answered
<1> HIDE DEF v, k
<1>10. /\ worker' \in [Worker -> WorkerType] /\ worker'[w] = v
       /\ \A x \in Worker : x # w => worker'[x] = worker[x]
       /\ client' \in [Conn -> ClientType] /\ client'[c] = k
       /\ \A d \in Conn : d # c => client'[d] = client[d]
  BY <1>2, <1>4, <1>7, <1>8 DEF IInv
<1>11. \A x \in Worker : worker[x].conn # c
  BY <1>2 DEF IInv, Owned
<1>12. \A i \in DOMAIN backlog' : backlog'[i] # c /\ backlog'[i] \in Conn
  BY <1>2, <1>6 DEF IInv, Owned
<1>13. Owned'
  <2>1. \A x, y \in Worker :
          worker'[x].conn = worker'[y].conn /\ worker'[x].conn # NoConn => x = y
    BY <1>7, <1>10, <1>11 DEF IInv, Owned
  <2>2. \A x \in Worker : \A i \in DOMAIN backlog' : backlog'[i] # worker'[x].conn
    BY <1>6, <1>7, <1>10, <1>12 DEF IInv, Owned
  <2>3. \A i, j \in DOMAIN backlog' : backlog'[i] = backlog'[j] => i = j
    <3> SUFFICES ASSUME NEW i \in DOMAIN backlog', NEW j \in DOMAIN backlog',
                        backlog'[i] = backlog'[j]
                 PROVE  i = j
      OBVIOUS
    <3>1. i + 1 = j + 1
      BY <1>6 DEF IInv, Owned
    <3> QED BY <3>1, <1>6
  <2>4. \A i \in DOMAIN backlog' :
          client'[backlog'[i]].phase \in {"queued", "left"} /\ New(client'[backlog'[i]])
    <3> SUFFICES ASSUME NEW i \in DOMAIN backlog'
                 PROVE  client'[backlog'[i]].phase \in {"queued", "left"}
                        /\ New(client'[backlog'[i]])
      OBVIOUS
    <3>1. client'[backlog'[i]] = client[backlog[i + 1]] /\ i + 1 \in DOMAIN backlog
      BY <1>6, <1>10, <1>12
    <3> QED BY <3>1 DEF IInv, Owned
  <2>5. \A d \in Conn : client'[d].phase \in {"away", "queued"} => New(client'[d])
    BY <1>8, <1>10 DEF IInv, Owned
  <2>6. \A d \in Conn : client'[d].phase = "open" => \E x \in Worker : worker'[x].conn = d
    <3> SUFFICES ASSUME NEW d \in Conn, client'[d].phase = "open"
                 PROVE  \E x \in Worker : worker'[x].conn = d
      OBVIOUS
    <3>1. CASE d = c
      BY <1>7, <1>10, <3>1
    <3>2. CASE d # c
      <4>1. PICK x \in Worker : worker[x].conn = d
        BY <1>10, <3>2 DEF IInv, Owned
      <4> QED BY <1>1, <1>5, <1>10, <4>1
    <3> QED BY <3>1, <3>2
  <2> QED BY <2>1, <2>2, <2>3, <2>4, <2>5, <2>6 DEF Owned
<1>14. \A x \in Worker : Local(worker'[x])
  BY <1>7, <1>10 DEF IInv
<1>15. \A d \in Conn : client'[d].taken <= client'[d].sent /\ InOrder(client'[d], d)
  BY <1>8, <1>10 DEF IInv
<1>16. \A x \in Worker :
         worker'[x].conn # NoConn => Answered(worker'[x], client'[worker'[x].conn])
  <2> SUFFICES ASSUME NEW x \in Worker, worker'[x].conn # NoConn
               PROVE  Answered(worker'[x], client'[worker'[x].conn])
    OBVIOUS
  <2>1. CASE x = w
    BY <1>7, <1>9, <1>10, <2>1
  <2>2. CASE x # w
    <3>1. worker[x].conn \in Conn /\ worker[x].conn # c
      BY <1>10, <1>11, <2>2 DEF IInv, WorkerType
    <3> QED BY <1>10, <2>2, <3>1 DEF IInv
  <2> QED BY <2>1, <2>2
<1> QED BY <1>4, <1>6, <1>10, <1>13, <1>14, <1>15, <1>16 DEF IInv

LEMMA ReadingHeadersLemma == ASSUME IInv, NEW w \in Worker, ReadingHeaders(w) PROVE IInv'
<1> DEFINE v == [worker[w] EXCEPT !.pc = "wait", !.stage = "READING_HEADERS"]
           c == worker[w].conn
<1>1. /\ worker[w] \in WorkerType /\ Local(worker[w]) /\ worker[w].pc = "accepted"
      /\ c # NoConn /\ c \in Conn /\ Answered(worker[w], client[c])
  BY KnownLemma DEF ReadingHeaders, Local
<1>2. v \in WorkerType /\ Local(v) /\ v.conn = c /\ Answered(v, client[c])
  BY <1>1 DEF WorkerType, Local, Stage, Busy, Answered
<1>3. worker' = [worker EXCEPT ![w] = v] /\ client' = client
      /\ backlog' = backlog /\ deaths' \in 0..MaxDeaths
  BY DEF ReadingHeaders, IInv
<1> HIDE DEF v
<1> QED BY <1>1, <1>2, <1>3, WorkLemma

LEMMA FirstByteLemma == ASSUME IInv, NEW w \in Worker, FirstByte(w) PROVE IInv'
<1> DEFINE v == [worker[w] EXCEPT !.pc = "read"]
           c == worker[w].conn
<1>1. /\ worker[w] \in WorkerType /\ Local(worker[w]) /\ worker[w].pc = "wait"
      /\ c # NoConn /\ c \in Conn /\ Answered(worker[w], client[c])
  BY KnownLemma DEF FirstByte, Local
<1>2. New(client[c]) /\ EndsIn(client[c].got, c) = 0 /\ Bodies(client[c].got, c) = 0
  BY <1>1, NoneEnds DEF Answered, New
<1>3. v \in WorkerType /\ Local(v) /\ v.conn = c /\ v.pc = "read"
  BY <1>1 DEF WorkerType, Local, Stage, Busy
<1>4. Answered(v, client[c])
  BY <1>1, <1>2, <1>3 DEF Answered, New, Ahead
<1>5. worker' = [worker EXCEPT ![w] = v] /\ client' = client
      /\ backlog' = backlog /\ deaths' \in 0..MaxDeaths
  BY DEF FirstByte, IInv
<1> HIDE DEF v
<1> QED BY <1>1, <1>3, <1>4, <1>5, WorkLemma

LEMMA RequestInfoLemma == ASSUME IInv, NEW w \in Worker, RequestInfo(w) PROVE IInv'
<1> DEFINE v == [worker[w] EXCEPT !.pc = "exec", !.stage = "INFO"]
           c == worker[w].conn
<1>1. /\ worker[w] \in WorkerType /\ Local(worker[w]) /\ worker[w].pc = "info"
      /\ c # NoConn /\ c \in Conn /\ Answered(worker[w], client[c])
  BY KnownLemma DEF RequestInfo, Local
<1>2. v \in WorkerType /\ Local(v) /\ v.conn = c /\ Answered(v, client[c])
  BY <1>1 DEF WorkerType, Local, Stage, Busy, Answered, Ahead
<1>3. worker' = [worker EXCEPT ![w] = v] /\ client' = client
      /\ backlog' = backlog /\ deaths' \in 0..MaxDeaths
  BY DEF RequestInfo, IInv
<1> HIDE DEF v
<1> QED BY <1>1, <1>2, <1>3, WorkLemma

LEMMA ExecutingLemma == ASSUME IInv, NEW w \in Worker, Executing(w) PROVE IInv'
<1> DEFINE v == [worker[w] EXCEPT !.pc = "work", !.stage = "EXECUTING"]
           c == worker[w].conn
<1>1. /\ worker[w] \in WorkerType /\ Local(worker[w]) /\ worker[w].pc = "exec"
      /\ c # NoConn /\ c \in Conn /\ Answered(worker[w], client[c])
  BY KnownLemma DEF Executing, Local
<1>2. v \in WorkerType /\ Local(v) /\ v.conn = c /\ Answered(v, client[c])
  BY <1>1 DEF WorkerType, Local, Stage, Busy, Answered, Ahead
<1>3. worker' = [worker EXCEPT ![w] = v] /\ client' = client
      /\ backlog' = backlog /\ deaths' \in 0..MaxDeaths
  BY DEF Executing, IInv
<1> HIDE DEF v
<1> QED BY <1>1, <1>2, <1>3, WorkLemma

LEMMA ReplyLemma == ASSUME IInv, NEW w \in Worker, Reply(w) PROVE IInv'
<1> DEFINE c == worker[w].conn
           v == [worker[w] EXCEPT !.requests = @ + 1, !.out = Append(@, c), !.pc = "top"]
<1>0. worker[w] \in WorkerType /\ Local(worker[w])
  BY KnownLemma
<1>1. /\ worker[w].pc = "work" /\ worker[w].env = "live"
      /\ c # NoConn /\ c \in Conn /\ Answered(worker[w], client[c])
  BY <1>0, KnownLemma DEF Reply, Local, WorkerType
<1>2. /\ v \in WorkerType
      /\ v.conn = c /\ v.pc = "top" /\ v.env = "live" /\ v.stage = worker[w].stage
      /\ v.requests = worker[w].requests + 1 /\ v.out = <<c>> /\ v.keep = worker[w].keep
      /\ worker[w].requests \in Nat
  <2>1. worker[w].out = <<>>
    BY <1>1 DEF Answered
  <2>2. Append(worker[w].out, c) = <<c>> /\ <<c>> \in Seq(Conn)
    BY <1>1, <2>1
  <2>3. v.out \in Seq(Conn) /\ v.out = <<c>>
    BY <1>0, <2>2 DEF WorkerType
  <2>4. v \in WorkerType
    <3>1. \A r \in Nat, o \in Seq(Conn) :
            [worker[w] EXCEPT !.requests = r, !.out = o, !.pc = "top"] \in WorkerType
      BY <1>0 DEF WorkerType
    <3>2. worker[w].requests + 1 \in Nat
      <4>1. worker[w].requests \in Nat
        BY <1>0 DEF WorkerType
      <4> QED BY <4>1
    <3>3. Append(worker[w].out, c) \in Seq(Conn)
      BY <2>2, Zenon
    <3> QED BY <3>1, <3>2, <3>3, Zenon
  <2>5. /\ v.conn = c /\ v.pc = "top" /\ v.env = worker[w].env /\ v.stage = worker[w].stage
        /\ v.requests = worker[w].requests + 1 /\ v.keep = worker[w].keep
        /\ worker[w].requests \in Nat
    BY <1>0 DEF WorkerType
  <2> QED BY <1>1, <2>3, <2>4, <2>5
<1>3. Local(v)
  BY <1>0, <1>1, <1>2 DEF Local
<1>4. Answered(v, client[c])
  BY <1>1, <1>2, WorkersAssumption DEF Answered, Ahead
<1>5. worker' = [worker EXCEPT ![w] = v] /\ client' = client
      /\ backlog' = backlog /\ deaths' \in 0..MaxDeaths
  BY <1>0 DEF Reply, Goes, IInv, WorkerType
<1> HIDE DEF v
<1> QED BY <1>1, <1>2, <1>3, <1>4, <1>5, WorkLemma

(* What Becomes makes of the client. *)
LEMMA BecomesLemma ==
  ASSUME IInv, NEW w \in Worker, NEW c \in Conn, worker[w].conn = c,
         NEW v \in WorkerType, Local(v), v.conn \in {c, NoConn},
         NEW more, Becomes(w, v, c, more),
         NEW g \in Got, g = client[c].got \o more,
         Whole(g, c), Bodies(g, c) <= client[c].taken,
         EndsIn(g, c) <= client[c].taken + (IF c \in KeepConn THEN 2 ELSE 0),
         v.conn = NoConn /\ client[c].phase = "open" => EndsIn(g, c) >= client[c].taken,
         v.conn = c => Answered(v, [client[c] EXCEPT !.got = g])
  PROVE  IInv'
<1> DEFINE k == [client[c] EXCEPT !.got = g, !.phase = IF v.conn = NoConn THEN Closed(c) ELSE @]
<1>1. /\ client[c] \in ClientType /\ client[c].taken <= client[c].sent
      /\ client[c].phase \in {"open", "left"}
      /\ NoConn \notin Conn
  BY KnownLemma, WorkersAssumption DEF Answered
<1>2. worker' = [worker EXCEPT ![w] = v] /\ client' = [client EXCEPT ![c] = k]
      /\ backlog' = backlog /\ deaths' \in 0..MaxDeaths
  BY <1>1 DEF Becomes, IInv
<1>3. /\ k \in ClientType /\ k.taken = client[c].taken /\ k.sent = client[c].sent /\ k.got = g
      /\ v.conn = NoConn => k.phase = IF client[c].phase = "open" THEN "closed" ELSE "left"
      /\ v.conn = c => k = [client[c] EXCEPT !.got = g]
      /\ v.conn = c => k.phase = client[c].phase
  BY <1>1 DEF ClientType, Closed
<1> HIDE DEF k
<1>4. InOrder(k, c)
  BY <1>1, <1>3 DEF InOrder
<1>5. v.conn = NoConn => k.phase \in {"left", "closed", "reset"}
  BY <1>3
<1> QED BY <1>1, <1>2, <1>3, <1>4, <1>5, ServeLemma

(* Close and Destroy, as fcgi_finish_request calls them. *)
LEMMA FinishedLemma ==
  ASSUME NEW v \in WorkerType, v.conn \in Conn
  PROVE  LET x == Destroy(Close(v, FALSE)) IN
         /\ x \in WorkerType
         /\ x.pc = v.pc /\ x.requests = v.requests /\ x.out = v.out /\ x.keep = v.keep
         /\ x.env = IF v.env = "freed" THEN "freed twice" ELSE "freed"
         /\ v.keep => x.conn = v.conn /\ x.stage = v.stage
         /\ ~v.keep => x.conn = NoConn /\ x.stage = "FINISHED"
<1> DEFINE y == Close(v, FALSE)
<1>1. v.conn # NoConn
  BY WorkersAssumption
<1>2. /\ y \in WorkerType
      /\ y.pc = v.pc /\ y.requests = v.requests /\ y.out = v.out /\ y.keep = v.keep /\ y.env = v.env
      /\ v.keep => y.conn = v.conn /\ y.stage = v.stage
      /\ ~v.keep => y.conn = NoConn /\ y.stage = "FINISHED"
  <2>1. CASE v.keep
    BY <1>1, <2>1 DEF Close
  <2>2. CASE ~v.keep
    <3>1. y = [v EXCEPT !.conn = NoConn, !.stage = "FINISHED"]
      BY <1>1, <2>2 DEF Close
    <3> HIDE DEF y
    <3> QED BY <2>2, <3>1 DEF WorkerType, Stage
  <2> QED BY <2>1, <2>2
<1> HIDE DEF y
<1>3. Destroy(y) = [y EXCEPT !.env = IF y.env = "freed" THEN "freed twice" ELSE "freed"]
  BY DEF Destroy
<1>4. /\ Destroy(y) \in WorkerType
      /\ Destroy(y).pc = y.pc /\ Destroy(y).requests = y.requests /\ Destroy(y).out = y.out
      /\ Destroy(y).keep = y.keep /\ Destroy(y).conn = y.conn /\ Destroy(y).stage = y.stage
      /\ Destroy(y).env = IF y.env = "freed" THEN "freed twice" ELSE "freed"
  BY <1>2, <1>3 DEF WorkerType
<1> QED BY <1>2, <1>4 DEF y

LEMMA GoesLemma ==
  ASSUME NEW v \in WorkerType,
         NEW p \in {"top", "idle", "accept", "accepted", "wait", "read", "info", "exec", "work", "dead"}
  PROVE  LET x == Goes(v, p) IN
         /\ x \in WorkerType /\ x.pc = p
         /\ x.requests = v.requests /\ x.out = v.out /\ x.keep = v.keep
         /\ x.env = v.env /\ x.conn = v.conn /\ x.stage = v.stage
<1> DEFINE x == Goes(v, p)
<1>1. x = [v EXCEPT !.pc = p]
  BY DEF Goes
<1> HIDE DEF x
<1>2. x \in WorkerType /\ x.pc = p
  BY <1>1 DEF WorkerType
<1>3. /\ x.requests = v.requests /\ x.out = v.out /\ x.keep = v.keep
      /\ x.env = v.env /\ x.conn = v.conn /\ x.stage = v.stage
  BY <1>1 DEF WorkerType
<1> QED BY <1>2, <1>3 DEF x

(* What FlushEnd leaves of a worker. *)
LEMMA FlushedLemma ==
  ASSUME NEW v \in WorkerType
  PROVE  /\ [v EXCEPT !.out = <<>>] \in WorkerType
         /\ [v EXCEPT !.keep = FALSE] \in WorkerType
         /\ \A x \in {[v EXCEPT !.out = <<>>], [v EXCEPT !.keep = FALSE]} :
              /\ x.pc = v.pc /\ x.requests = v.requests /\ x.env = v.env
              /\ x.conn = v.conn /\ x.stage = v.stage
         /\ [v EXCEPT !.out = <<>>].out = <<>> /\ [v EXCEPT !.out = <<>>].keep = v.keep
         /\ [v EXCEPT !.keep = FALSE].keep = FALSE
<1>1. <<>> \in Seq(Conn)
  OBVIOUS
<1> QED BY <1>1 DEF WorkerType

(* A request that is finished: its end was sent, or the client has left.   *)
Sent(v, x, g, h) ==
  /\ x.out = <<>>
  /\ EndsIn(h, v.conn) = EndsIn(g, v.conn) + 1
  /\ Bodies(h, v.conn) = Bodies(g, v.conn) + Len(v.out)
  /\ v.keep => x.conn = v.conn /\ x.stage = v.stage /\ x.keep = v.keep
  /\ ~v.keep => x.conn = NoConn /\ x.stage = "FINISHED" /\ ~x.keep

Failed(v, x, g, h) ==
  /\ x.conn = NoConn /\ x.stage = "FINISHED" /\ ~x.keep
  /\ h = g /\ client[v.conn].phase = "left"

Outcome(v, x, g, h) ==
  /\ x \in WorkerType /\ x.requests = v.requests /\ x.pc = v.pc
  /\ x.env = IF v.env = "freed" THEN "freed twice" ELSE "freed"
  /\ h \in Got /\ Whole(h, v.conn)
  /\ Sent(v, x, g, h) \/ Failed(v, x, g, h)

LEMMA SentLemma ==
  ASSUME NEW v \in WorkerType, v.conn \in Conn, v.out \in {<<>>, <<v.conn>>},
         NEW g \in Got, Whole(g, v.conn), NEW f \in FlushEnd(v),
         NEW x, x = Destroy(Close(f.v, FALSE)), NEW h, h = g \o f.got
  PROVE  Outcome(v, x, g, h)
<1>1. CASE /\ f.v = [v EXCEPT !.out = <<>>]
           /\ h \in Got /\ Whole(h, v.conn) /\ f.got \in Got
           /\ EndsIn(h, v.conn) = EndsIn(g, v.conn) + 1
           /\ Bodies(h, v.conn) = Bodies(g, v.conn) + Len(v.out)
  <2>1. /\ f.v \in WorkerType /\ f.v.pc = v.pc /\ f.v.requests = v.requests
        /\ f.v.env = v.env /\ f.v.conn = v.conn /\ f.v.stage = v.stage /\ f.v.out = <<>>
        /\ f.v.keep = v.keep
    BY <1>1, FlushedLemma
  <2>2. /\ x \in WorkerType /\ x.pc = f.v.pc /\ x.requests = f.v.requests
        /\ x.out = f.v.out /\ x.keep = f.v.keep
        /\ x.env = IF f.v.env = "freed" THEN "freed twice" ELSE "freed"
        /\ f.v.keep => x.conn = f.v.conn /\ x.stage = f.v.stage
        /\ ~f.v.keep => x.conn = NoConn /\ x.stage = "FINISHED"
    BY <2>1, FinishedLemma
  <2> QED BY <1>1, <2>1, <2>2 DEF Sent, Outcome
<1>2. CASE /\ f.v = [v EXCEPT !.keep = FALSE] /\ f.got = <<>>
           /\ client[v.conn].phase = "left"
  <2>1. /\ f.v \in WorkerType /\ f.v.pc = v.pc /\ f.v.requests = v.requests
        /\ f.v.env = v.env /\ f.v.conn = v.conn /\ f.v.keep = FALSE
    BY <1>2, FlushedLemma
  <2>2. /\ x \in WorkerType /\ x.pc = f.v.pc /\ x.requests = f.v.requests
        /\ x.keep = f.v.keep
        /\ x.env = IF f.v.env = "freed" THEN "freed twice" ELSE "freed"
        /\ ~f.v.keep => x.conn = NoConn /\ x.stage = "FINISHED"
    BY <2>1, FinishedLemma
  <2>3. h = g
    BY <1>2 DEF Got
  <2> QED BY <1>2, <2>1, <2>2, <2>3 DEF Failed, Outcome
<1> QED BY <1>1, <1>2, FlushLemma, ZenonT(30)

LEMMA FinishLemma == ASSUME IInv, NEW w \in Worker, Finish(w) PROVE IInv'
<1> DEFINE v == worker[w]
           c == v.conn
<1>1. v \in WorkerType /\ Local(v) /\ v.pc = "top"
  BY KnownLemma DEF Finish
<1>2. CASE c = NoConn
  <2> DEFINE x == Goes(v, "idle")
  <2>1. Becomes(w, AfterFinish(v), NoConn, <<>>)
    BY <1>2 DEF Finish
  <2>2. worker' = [worker EXCEPT ![w] = x] /\ client' = client
        /\ backlog' = backlog /\ deaths' \in 0..MaxDeaths
    BY <1>2, <2>1 DEF Becomes, AfterFinish, IInv
  <2>3. x \in WorkerType /\ Local(x) /\ x.conn = NoConn
    BY <1>1, <1>2, GoesLemma, ZenonT(30) DEF Local
  <2> HIDE DEF x
  <2> QED BY <1>2, <2>2, <2>3, FreeLemma
<1>3. CASE c # NoConn
  <2> DEFINE k == client[c]
             g == k.got
             t == k.taken
  <2>1. /\ c \in Conn /\ k \in ClientType /\ InOrder(k, c) /\ Answered(v, k)
    BY <1>3, KnownLemma
  <2>2. PICK f \in FlushEnd(v) : Becomes(w, AfterFinish(Destroy(Close(f.v, FALSE))), c, f.got)
    BY <1>3 DEF Finish
  <2> DEFINE y == Destroy(Close(f.v, FALSE))
             x == AfterFinish(y)
             h == g \o f.got
  <2>3. Becomes(w, x, c, f.got) /\ h = g \o f.got /\ x = AfterFinish(y)
        /\ y = Destroy(Close(f.v, FALSE)) /\ v = worker[w] /\ c = v.conn
        /\ k = client[c] /\ g = k.got /\ t = k.taken
    BY <2>2
  <2> HIDE DEF v, c, k, g, t, y, x, h
  <2>4. g \in Got /\ t \in Nat /\ MaxRequests \in Nat /\ v.requests \in Nat
        /\ k.phase \in {"open", "left"}
    <3>1. g \in Got
      BY <2>1, <2>3 DEF ClientType
    <3>2. t \in Nat
      BY <2>1, <2>3, WorkersAssumption, SMTT(30) DEF ClientType
    <3>3. v.requests \in Nat
      BY <1>1 DEF WorkerType
    <3>4. k.phase \in {"open", "left"}
      BY <2>1 DEF Answered
    <3> QED BY <3>1, <3>2, <3>3, <3>4, WorkersAssumption
  <2>5. EndsIn(g, c) \in Nat /\ Len(g) \in Nat /\ Bodies(g, c) \in Int
    <3>1. EndsIn(g, c) \in Nat
      BY <2>1, <2>4, EndsType
    <3>2. Len(g) \in Nat
      BY <2>4 DEF Got
    <3> QED BY <3>1, <3>2 DEF Bodies
  <2>6. /\ Whole(g, c) /\ Bodies(g, c) <= t
        /\ EndsIn(g, c) <= t + (IF c \in KeepConn THEN 2 ELSE 0)
    BY <2>1, <2>3 DEF InOrder
  <2>7. \/ /\ v.out = <<c>> /\ v.env = "live"
           /\ Ahead(v, EndsIn(g, c) + 1, t) /\ Bodies(g, c) + 1 <= t
        \/ /\ v.out = <<>> /\ v.env = "freed" /\ v.requests = MaxRequests
           /\ EndsIn(g, c) = t + 1 /\ c \in KeepConn
    BY <1>1, <1>3, <2>1, <2>3 DEF Answered, Local
  <2>8. /\ y \in WorkerType /\ y.requests = v.requests /\ y.pc = v.pc
        /\ y.env = IF v.env = "freed" THEN "freed twice" ELSE "freed"
        /\ h \in Got /\ Whole(h, c)
        /\ Sent(v, y, g, h) \/ Failed(v, y, g, h)
    <3>1. v \in WorkerType /\ v.conn \in Conn /\ Whole(g, v.conn) /\ v.conn = c
      BY <1>1, <2>1, <2>3, <2>6
    <3>2. v.out \in {<<>>, <<v.conn>>}
      BY <2>7, <3>1
    <3>3. f \in FlushEnd(v) /\ y = Destroy(Close(f.v, FALSE)) /\ h = g \o f.got
      BY <2>2, <2>3
    <3>4. Outcome(v, y, g, h)
      BY <2>4, <3>1, <3>2, <3>3, SentLemma, Zenon
    <3> QED BY <3>1, <3>4 DEF Outcome
  <2>9. v.keep => c \in KeepConn
    BY <1>1, <2>3 DEF Local
  <2>10. CASE Failed(v, y, g, h)
    <3>1. /\ y.conn = NoConn /\ y.stage = "FINISHED" /\ ~y.keep
          /\ h = g /\ k.phase = "left"
      BY <2>3, <2>10 DEF Failed
    <3>2. /\ x \in WorkerType /\ x.requests = v.requests /\ ~x.keep /\ x.env = y.env
          /\ x.conn = NoConn /\ x.stage = "FINISHED" /\ x.pc = "idle"
      <4>1. x = Goes(y, "idle")
        BY <2>3, <3>1 DEF AfterFinish
      <4> QED BY <2>8, <3>1, <4>1, GoesLemma, ZenonT(30)
    <3>3. Local(x)
      BY <2>7, <2>8, <3>2 DEF Local, Busy
    <3>4. /\ worker[w].conn = c /\ Becomes(w, x, c, f.got)
          /\ g = client[c].got /\ h = g \o f.got /\ h = g
          /\ client[c].taken = t /\ client[c].phase # "open"
      BY <2>3, <3>1
    <3>5. h \in Got /\ x.conn # c /\ c \in Conn /\ NoConn \notin Conn
      BY <2>1, <2>8, <3>2, WorkersAssumption
    <3> QED BY <2>1, <2>3, <2>4, <2>6, <3>2, <3>3, <3>4, <3>5, BecomesLemma, ZenonT(30)
  <2>11. CASE Sent(v, y, g, h)
    <3>1. /\ y.out = <<>>
          /\ EndsIn(h, c) = EndsIn(g, c) + 1
          /\ Bodies(h, c) = Bodies(g, c) + Len(v.out)
          /\ v.keep => y.conn = c /\ y.stage = v.stage /\ y.keep = v.keep
          /\ ~v.keep => y.conn = NoConn /\ y.stage = "FINISHED" /\ ~y.keep
      BY <2>3, <2>11 DEF Sent
    <3>2. /\ Bodies(h, c) <= t /\ EndsIn(h, c) >= t
          /\ EndsIn(h, c) = t \/ (EndsIn(h, c) = t + 2 /\ c \in KeepConn /\ v.requests >= MaxRequests)
      <4>1. Len(<<c>>) = 1 /\ Len(<<>>) = 0
        OBVIOUS
      <4>2. CASE v.out = <<c>> /\ Ahead(v, EndsIn(g, c) + 1, t) /\ Bodies(g, c) + 1 <= t
        <5>1. Len(v.out) = 1
          BY <4>1, <4>2
        <5>2. EndsIn(g, c) + 1 = t \/ (EndsIn(g, c) + 1 = t + 2 /\ c \in KeepConn /\ v.requests >= MaxRequests)
          BY <2>3, <4>2 DEF Ahead
        <5> QED BY <2>4, <2>5, <3>1, <4>2, <5>1, <5>2
      <4>3. CASE v.out = <<>> /\ v.requests = MaxRequests /\ EndsIn(g, c) = t + 1 /\ c \in KeepConn
        <5>1. Len(v.out) = 0
          BY <4>1, <4>3
        <5> QED BY <2>4, <2>5, <2>6, <3>1, <4>3, <5>1
      <4> QED BY <2>7, <4>2, <4>3
    <3>3. CASE v.keep
      <4>1. /\ x \in WorkerType /\ x.requests = v.requests /\ x.env = y.env
            /\ x.conn = c /\ x.stage = v.stage /\ x.pc = "read" /\ x.out = <<>>
        <5>1. x = Goes(y, "read")
          BY <1>3, <2>3, <3>1, <3>3 DEF AfterFinish
        <5> QED BY <2>8, <3>1, <3>3, <5>1, GoesLemma, ZenonT(30)
      <4>2. Local(x)
        BY <1>1, <1>3, <2>3, <2>7, <2>8, <2>9, <3>3, <4>1 DEF Local
      <4>3. Answered(x, [k EXCEPT !.got = h])
        <5>1. /\ [k EXCEPT !.got = h].got = h
              /\ [k EXCEPT !.got = h].taken = t
              /\ [k EXCEPT !.got = h].phase = k.phase
          BY <2>1, <2>3 DEF ClientType
        <5> QED BY <2>4, <3>2, <4>1, <5>1 DEF Answered, Ahead
      <4>4. h = client[c].got \o f.got /\ worker[w].conn = c /\ Becomes(w, x, c, f.got)
            /\ k = client[c] /\ t = client[c].taken /\ c # NoConn
        BY <1>3, <2>3
      <4>5. EndsIn(h, c) <= t + (IF c \in KeepConn THEN 2 ELSE 0)
        BY <2>4, <3>2
      <4> QED BY <2>1, <2>8, <3>2, <4>1, <4>2, <4>3, <4>4, <4>5, BecomesLemma
    <3>4. CASE ~v.keep
      <4>1. /\ x \in WorkerType /\ x.requests = v.requests /\ x.env = y.env /\ ~x.keep
            /\ x.conn = NoConn /\ x.stage = "FINISHED" /\ x.pc = "idle"
        <5>1. x = Goes(y, "idle")
          BY <2>3, <3>1, <3>4 DEF AfterFinish
        <5> QED BY <2>8, <3>1, <3>4, <5>1, GoesLemma, ZenonT(30)
      <4>2. Local(x)
        BY <2>7, <2>8, <4>1 DEF Local, Busy
      <4>4. h = client[c].got \o f.got /\ worker[w].conn = c /\ Becomes(w, x, c, f.got)
            /\ k = client[c] /\ t = client[c].taken /\ c # NoConn
        BY <1>3, <2>3
      <4>5. EndsIn(h, c) <= t + (IF c \in KeepConn THEN 2 ELSE 0)
        BY <2>4, <3>2
      <4> QED BY <2>1, <2>8, <3>2, <4>1, <4>2, <4>4, <4>5, BecomesLemma
    <3> QED BY <3>3, <3>4
  <2> QED BY <2>8, <2>10, <2>11
<1> QED BY <1>2, <1>3

(* A connection that is closed by force. *)
LEMMA ForcedLemma ==
  ASSUME NEW v \in WorkerType, v.conn # NoConn, NEW x, x = Close(v, TRUE)
  PROVE  /\ x \in WorkerType /\ x.conn = NoConn /\ x.stage = "FINISHED"
         /\ x.pc = v.pc /\ x.requests = v.requests /\ x.keep = v.keep
         /\ x.env = v.env /\ x.out = v.out
<1>1. x = [v EXCEPT !.conn = NoConn, !.stage = "FINISHED"]
  BY DEF Close
<1> QED BY <1>1 DEF WorkerType, Stage

LEMMA SilentLemma == ASSUME IInv, NEW w \in Worker, Silent(w) PROVE IInv'
<1> DEFINE v == worker[w]
           c == v.conn
           k == client[c]
           y == Close(v, TRUE)
           x == Goes(y, "idle")
<1>1. /\ v \in WorkerType /\ Local(v) /\ v.pc = "wait" /\ c # NoConn
      /\ c \in Conn /\ k \in ClientType /\ InOrder(k, c) /\ Answered(v, k)
  BY KnownLemma DEF Silent, Local
<1>2. Becomes(w, x, c, <<>>)
  BY DEF Silent
<1>3. /\ y \in WorkerType /\ y.conn = NoConn /\ y.stage = "FINISHED"
      /\ y.requests = v.requests /\ y.keep = v.keep /\ y.env = v.env
  BY <1>1, ForcedLemma
<1> HIDE DEF y
<1>4. /\ x \in WorkerType /\ x.conn = NoConn /\ x.stage = "FINISHED" /\ x.pc = "idle"
      /\ x.requests = v.requests /\ x.keep = v.keep /\ x.env = v.env
  BY <1>3, GoesLemma
<1> HIDE DEF x
<1>5. Local(x)
  BY <1>1, <1>4 DEF Local, Busy
<1>6. /\ k.got = <<>> /\ k.taken = 0 /\ EndsIn(<<>>, c) = 0 /\ Bodies(<<>>, c) = 0
      /\ Whole(<<>>, c) /\ <<>> \in Got /\ <<>> = k.got \o <<>>
  BY <1>1, NoneEnds DEF Answered, New, Whole, Got
<1>7. /\ Bodies(<<>>, c) <= k.taken /\ EndsIn(<<>>, c) >= k.taken
      /\ EndsIn(<<>>, c) <= k.taken + (IF c \in KeepConn THEN 2 ELSE 0)
  BY <1>6
<1>8. x.conn # c
  BY <1>1, <1>4
<1> QED BY <1>1, <1>2, <1>4, <1>5, <1>6, <1>7, <1>8, BecomesLemma

(* The assignments fcgi_read_request begins with. *)
LEMMA FreshLemma ==
  ASSUME NEW v \in WorkerType, v.env \notin {"live", "leaked"}, NEW x, x = Fresh(v)
  PROVE  /\ x \in WorkerType /\ x.keep = FALSE /\ x.out = <<>> /\ x.env = "live"
         /\ x.conn = v.conn /\ x.stage = v.stage /\ x.pc = v.pc /\ x.requests = v.requests
<1>1. x = [v EXCEPT !.keep = FALSE, !.out = <<>>, !.env = "live"]
  BY DEF Fresh
<1>2. <<>> \in Seq(Conn)
  OBVIOUS
<1> QED BY <1>1, <1>2 DEF WorkerType

LEMMA ReadRequestLemma == ASSUME IInv, NEW w \in Worker, ReadRequest(w) PROVE IInv'
<1> DEFINE v == worker[w]
           c == v.conn
           k == client[c]
           y == Fresh(v)
           z == [y EXCEPT !.keep = c \in KeepConn]
           x == Goes(z, "info")
           l == [k EXCEPT !.taken = @ + 1]
<1>1. /\ v \in WorkerType /\ Local(v) /\ v.pc = "read" /\ c # NoConn
      /\ c \in Conn /\ k \in ClientType /\ InOrder(k, c) /\ Answered(v, k)
      /\ k.sent > k.taken
  BY KnownLemma DEF ReadRequest, Local, HasRequest
<1>2. /\ worker' = [worker EXCEPT ![w] = x] /\ client' = [client EXCEPT ![c] = l]
      /\ backlog' = backlog /\ deaths' \in 0..MaxDeaths
  BY DEF ReadRequest, IInv
<1>3. /\ y \in WorkerType /\ y.out = <<>> /\ y.env = "live"
      /\ y.conn = c /\ y.stage = v.stage /\ y.requests = v.requests
  <2>1. v.env \notin {"live", "leaked"}
    BY <1>1 DEF Local
  <2> QED BY <1>1, <2>1, FreshLemma
<1> HIDE DEF y
<1>4. /\ z \in WorkerType /\ z.out = <<>> /\ z.env = "live" /\ (z.keep <=> c \in KeepConn)
      /\ z.conn = c /\ z.stage = v.stage /\ z.requests = v.requests
  <2>1. \A b \in BOOLEAN :
          /\ [y EXCEPT !.keep = b] \in WorkerType
          /\ [y EXCEPT !.keep = b].keep = b
          /\ [y EXCEPT !.keep = b].out = <<>> /\ [y EXCEPT !.keep = b].env = "live"
          /\ [y EXCEPT !.keep = b].conn = c /\ [y EXCEPT !.keep = b].stage = v.stage
          /\ [y EXCEPT !.keep = b].requests = v.requests
    BY <1>3 DEF WorkerType
  <2>2. (c \in KeepConn) \in BOOLEAN
    OBVIOUS
  <2>3. /\ z \in WorkerType /\ z.out = <<>> /\ z.env = "live" /\ z.keep = (c \in KeepConn)
        /\ z.conn = c /\ z.stage = v.stage /\ z.requests = v.requests
    BY <2>1, <2>2, Zenon
  <2> QED BY <2>3
<1> HIDE DEF z
<1>5. /\ x \in WorkerType /\ x.out = <<>> /\ x.env = "live" /\ (x.keep <=> c \in KeepConn)
      /\ x.conn = c /\ x.stage = v.stage /\ x.requests = v.requests /\ x.pc = "info"
  BY <1>4, GoesLemma
<1> HIDE DEF x
<1>6. Local(x)
  BY <1>1, <1>5 DEF Local
<1>7. /\ l \in ClientType /\ l.taken = k.taken + 1 /\ l.got = k.got /\ l.phase = k.phase
      /\ l.sent = k.sent /\ l.taken <= l.sent /\ k.taken \in Nat /\ k.got \in Got
  BY <1>1, WorkersAssumption DEF ClientType
<1> HIDE DEF l
<1>8. EndsIn(k.got, c) \in Nat /\ Bodies(k.got, c) \in Int /\ k.phase \in {"open", "left"}
  <2>1. EndsIn(k.got, c) \in Nat
    BY <1>1, <1>7, EndsType
  <2>2. Len(k.got) \in Nat
    BY <1>7 DEF Got
  <2>3. k.phase \in {"open", "left"}
    BY <1>1 DEF Answered
  <2> QED BY <2>1, <2>2, <2>3 DEF Bodies
<1>9. InOrder(l, c)
  BY <1>1, <1>7, <1>8 DEF InOrder
<1>10. Ahead(v, EndsIn(k.got, c), k.taken) /\ Bodies(k.got, c) <= k.taken
  BY <1>1 DEF Answered
<1>11. Answered(x, l)
  <2>1. Ahead(x, EndsIn(k.got, c) + 1, k.taken + 1)
    BY <1>5, <1>7, <1>8, <1>10 DEF Ahead
  <2> QED BY <1>5, <1>7, <1>8, <1>10, <2>1, SMTT(30) DEF Answered
<1> QED BY <1>1, <1>2, <1>5, <1>6, <1>7, <1>9, <1>11, ServeLemma

LEMMA ReadFailsLemma == ASSUME IInv, NEW w \in Worker, ReadFails(w) PROVE IInv'
<1> DEFINE v == worker[w]
           c == v.conn
           k == client[c]
           y == Fresh(v)
           z == Close(y, TRUE)
           u == Destroy(z)
           x == Goes(u, "idle")
<1>1. /\ v \in WorkerType /\ Local(v) /\ v.pc = "read" /\ c # NoConn
      /\ c \in Conn /\ k \in ClientType /\ InOrder(k, c) /\ Answered(v, k)
  BY KnownLemma DEF ReadFails, Local
<1>2. Becomes(w, x, c, <<>>)
  BY DEF ReadFails
<1>3. /\ y \in WorkerType /\ y.conn = c /\ y.env = "live" /\ y.keep = FALSE
      /\ y.requests = v.requests
  <2>1. v.env \notin {"live", "leaked"}
    BY <1>1 DEF Local
  <2> QED BY <1>1, <2>1, FreshLemma
<1> HIDE DEF y
<1>4. /\ z \in WorkerType /\ z.conn = NoConn /\ z.stage = "FINISHED" /\ z.keep = FALSE
      /\ z.env = "live" /\ z.requests = v.requests
  BY <1>1, <1>3, ForcedLemma
<1> HIDE DEF z
<1>5. /\ u \in WorkerType /\ u.conn = NoConn /\ u.stage = "FINISHED" /\ u.keep = FALSE
      /\ u.env = "freed"
  <2>1. u = [z EXCEPT !.env = "freed"]
    BY <1>4 DEF Destroy
  <2> QED BY <1>4, <2>1 DEF WorkerType
<1> HIDE DEF u
<1>6. /\ x \in WorkerType /\ x.conn = NoConn /\ x.stage = "FINISHED" /\ x.pc = "idle"
      /\ x.keep = FALSE /\ x.env = "freed"
  BY <1>5, GoesLemma
<1> HIDE DEF x
<1>7. Local(x)
  BY <1>6 DEF Local, Busy
<1>8. /\ k.got \in Got /\ k.taken \in Nat
  BY <1>1, WorkersAssumption DEF ClientType
<1>9. EndsIn(k.got, c) \in Nat /\ EndsIn(k.got, c) >= k.taken
  <2>1. EndsIn(k.got, c) \in Nat
    BY <1>1, <1>8, EndsType
  <2>2. Ahead(v, EndsIn(k.got, c), k.taken)
    BY <1>1 DEF Answered
  <2> QED BY <1>8, <2>1, <2>2 DEF Ahead
<1>10. /\ k.got = k.got \o <<>> /\ Whole(k.got, c) /\ Bodies(k.got, c) <= k.taken
       /\ EndsIn(k.got, c) <= k.taken + (IF c \in KeepConn THEN 2 ELSE 0)
  BY <1>1, <1>8 DEF InOrder, Got
<1> QED BY <1>1, <1>2, <1>6, <1>7, <1>8, <1>9, <1>10, BecomesLemma

(* The request that reaches max_requests is finished, and then flushed and *)
(* closed again.                                                           *)
LEMMA LastRequestLemma == ASSUME IInv, NEW w \in Worker, LastRequest(w) PROVE IInv'
<1> DEFINE v == [worker[w] EXCEPT !.requests = @ + 1]
           c == worker[w].conn
           k == client[c]
           g == k.got
           t == k.taken
<1>1. /\ worker[w] \in WorkerType /\ Local(worker[w])
  BY KnownLemma
<1>2. /\ v \in WorkerType /\ v.requests = worker[w].requests + 1 /\ worker[w].requests \in Nat
      /\ v.pc = worker[w].pc /\ v.conn = c /\ v.keep = worker[w].keep /\ v.stage = worker[w].stage
      /\ v.env = worker[w].env /\ v.out = worker[w].out
  <2>1. worker[w].requests \in Nat
    BY <1>1 DEF WorkerType
  <2>2. worker[w].requests + 1 \in Nat
    BY <2>1
  <2>3. \A r \in Nat : LET q == [worker[w] EXCEPT !.requests = r] IN
          /\ q \in WorkerType /\ q.requests = r
          /\ q.pc = worker[w].pc /\ q.conn = c /\ q.keep = worker[w].keep
          /\ q.stage = worker[w].stage /\ q.env = worker[w].env /\ q.out = worker[w].out
    BY <1>1 DEF WorkerType
  <2> QED BY <2>1, <2>2, <2>3, Zenon
<1>3. /\ worker[w].pc = "work" /\ v.requests = MaxRequests
  BY <1>2 DEF LastRequest
<1>4. /\ c # NoConn /\ c \in Conn /\ k \in ClientType /\ InOrder(k, c) /\ Answered(worker[w], k)
      /\ worker[w].env = "live" /\ worker[w].stage \in Busy
  BY <1>1, <1>3, KnownLemma DEF Local
<1>5. PICK f \in FlushEnd(v) :
        LET u == Destroy(Close(f.v, FALSE)) IN
        \/ /\ u.conn = NoConn
           /\ Becomes(w, Goes([u EXCEPT !.keep = FALSE], "top"), v.conn, f.got)
        \/ /\ u.conn # NoConn
           /\ \E e \in FlushEnd(u) :
                Becomes(w, Goes(Close(e.v, FALSE), "top"), v.conn, f.got \o e.got)
  BY DEF LastRequest
<1> DEFINE u == Destroy(Close(f.v, FALSE))
           h == g \o f.got
<1>6. /\ u = Destroy(Close(f.v, FALSE)) /\ h = g \o f.got
      /\ c = worker[w].conn /\ k = client[c] /\ g = k.got /\ t = k.taken
  OBVIOUS
<1>7. \/ /\ u.conn = NoConn
         /\ Becomes(w, Goes([u EXCEPT !.keep = FALSE], "top"), c, f.got)
      \/ /\ u.conn # NoConn
         /\ \E e \in FlushEnd(u) : Becomes(w, Goes(Close(e.v, FALSE), "top"), c, f.got \o e.got)
  BY <1>2, <1>5
<1> HIDE DEF v, c, k, g, t, u, h
<1>8. g \in Got /\ t \in Nat /\ MaxRequests \in Nat /\ k.phase \in {"open", "left"}
  <2>1. g \in Got
    BY <1>4, <1>6 DEF ClientType
  <2>2. t \in Nat
    BY <1>4, <1>6, WorkersAssumption, SMTT(30) DEF ClientType
  <2>3. k.phase \in {"open", "left"}
    BY <1>4 DEF Answered
  <2> QED BY <2>1, <2>2, <2>3, WorkersAssumption
<1>9. EndsIn(g, c) \in Nat /\ Bodies(g, c) \in Int
  <2>1. EndsIn(g, c) \in Nat
    BY <1>4, <1>8, EndsType
  <2>2. Len(g) \in Nat
    BY <1>8 DEF Got
  <2> QED BY <2>1, <2>2 DEF Bodies
<1>10. /\ Whole(g, c) /\ v.out = <<>> /\ EndsIn(g, c) + 1 = t /\ Bodies(g, c) + 1 <= t
  <2>1. worker[w].out = <<>> /\ Ahead(worker[w], EndsIn(g, c) + 1, t) /\ Bodies(g, c) + 1 <= t
    BY <1>3, <1>4, <1>6 DEF Answered
  <2>2. ~(worker[w].requests >= MaxRequests)
    BY <1>2, <1>3, <1>8
  <2> QED BY <1>2, <1>4, <1>6, <2>1, <2>2 DEF Ahead, InOrder
<1>11. Outcome(v, u, g, h)
  <2>1. v.conn \in Conn /\ Whole(g, v.conn) /\ v.out \in {<<>>, <<v.conn>>}
    BY <1>2, <1>4, <1>10
  <2>2. f \in FlushEnd(v)
    BY <1>5
  <2> QED BY <1>2, <1>6, <1>8, <2>1, <2>2, SentLemma, Zenon
<1>12. /\ u \in WorkerType /\ u.requests = MaxRequests /\ u.env = "freed"
       /\ h \in Got /\ Whole(h, c)
       /\ Sent(v, u, g, h) \/ Failed(v, u, g, h)
  BY <1>2, <1>3, <1>4, <1>11 DEF Outcome
<1>13. Len(v.out) = 0
  BY <1>10
<1>14. c \in KeepConn \/ ~v.keep
  BY <1>1, <1>2, <1>6 DEF Local
<1>15. CASE u.conn = NoConn
  <2> DEFINE z == [u EXCEPT !.keep = FALSE]
             x == Goes(z, "top")
  <2>1. Becomes(w, x, c, f.got)
    BY <1>7, <1>15
  <2>2. u.stage = "FINISHED"
    BY <1>2, <1>4, <1>12, <1>15 DEF Sent, Failed
  <2>3. /\ z \in WorkerType /\ z.env = "freed" /\ z.conn = NoConn /\ z.stage = "FINISHED"
        /\ z.requests = MaxRequests /\ z.keep = FALSE
    BY <1>12, <1>15, <2>2 DEF WorkerType
  <2> HIDE DEF z
  <2>4. /\ x \in WorkerType /\ x.env = "freed" /\ x.conn = NoConn /\ x.stage = "FINISHED"
        /\ x.requests = MaxRequests /\ x.keep = FALSE /\ x.pc = "top"
    BY <2>3, GoesLemma
  <2> HIDE DEF x
  <2>5. Local(x)
    BY <2>4 DEF Local, Busy
  <2>6. \/ h = g /\ k.phase = "left"
        \/ EndsIn(h, c) = EndsIn(g, c) + 1 /\ Bodies(h, c) = Bodies(g, c) + 0
    BY <1>2, <1>6, <1>12, <1>13 DEF Sent, Failed
  <2>7. /\ Bodies(h, c) <= t
        /\ EndsIn(h, c) <= t + (IF c \in KeepConn THEN 2 ELSE 0)
        /\ k.phase = "open" => EndsIn(h, c) >= t
    BY <1>8, <1>9, <1>10, <2>6
  <2>8. x.conn # c
    BY <1>4, <2>4
  <2>9. /\ h = client[c].got \o f.got /\ worker[w].conn = c /\ t = client[c].taken
        /\ Bodies(h, c) <= client[c].taken
        /\ EndsIn(h, c) <= client[c].taken + (IF c \in KeepConn THEN 2 ELSE 0)
        /\ x.conn = NoConn /\ client[c].phase = "open" => EndsIn(h, c) >= client[c].taken
    BY <1>6, <2>7
  <2> QED BY <1>4, <1>12, <2>1, <2>4, <2>5, <2>8, <2>9, BecomesLemma
<1>16. CASE u.conn # NoConn
  <2>1. PICK e \in FlushEnd(u) : Becomes(w, Goes(Close(e.v, FALSE), "top"), c, f.got \o e.got)
    BY <1>7, <1>16
  <2>2. /\ u.out = <<>> /\ EndsIn(h, c) = t /\ Bodies(h, c) <= t
        /\ v.keep /\ u.conn = c /\ u.stage = v.stage /\ u.keep /\ c \in KeepConn
    <3>1. Sent(v, u, g, h)
      BY <1>12, <1>16 DEF Failed
    <3>2. /\ u.out = <<>> /\ EndsIn(h, c) = EndsIn(g, c) + 1 /\ Bodies(h, c) = Bodies(g, c) + 0
      BY <1>2, <1>13, <3>1 DEF Sent
    <3>3. v.keep /\ u.conn = c /\ u.stage = v.stage /\ u.keep
      BY <1>2, <1>16, <3>1 DEF Sent
    <3> QED BY <1>8, <1>9, <1>10, <1>14, <3>2, <3>3
  <2> DEFINE y == Close(e.v, FALSE)
             x == Goes(y, "top")
             i == h \o e.got
  <2>3. Becomes(w, x, c, f.got \o e.got) /\ i = h \o e.got /\ y = Close(e.v, FALSE)
    BY <2>1
  <2>4. \/ /\ e.v = [u EXCEPT !.out = <<>>]
           /\ i \in Got /\ Whole(i, c)
           /\ EndsIn(i, c) = EndsIn(h, c) + 1
           /\ Bodies(i, c) = Bodies(h, c) + Len(u.out)
           /\ e.got \in Got
        \/ /\ e.v = [u EXCEPT !.keep = FALSE] /\ e.got = <<>>
           /\ client[c].phase = "left"
    <3>1. u.out \in {<<>>, <<u.conn>>} /\ u.conn \in Conn /\ Whole(h, u.conn)
      <4>1. u.out = <<>> /\ u.conn = c
        BY <2>2
      <4> QED BY <1>4, <1>12, <4>1
    <3>2. e \in FlushEnd(u)
      BY <2>1
    <3>3. \/ /\ e.v = [u EXCEPT !.out = <<>>]
             /\ h \o e.got \in Got /\ Whole(h \o e.got, u.conn)
             /\ EndsIn(h \o e.got, u.conn) = EndsIn(h, u.conn) + 1
             /\ Bodies(h \o e.got, u.conn) = Bodies(h, u.conn) + Len(u.out)
             /\ e.got \in Got
          \/ /\ e.v = [u EXCEPT !.keep = FALSE] /\ e.got = <<>>
             /\ client[u.conn].phase = "left"
      BY <1>12, <3>1, <3>2, FlushLemma, Zenon
    <3>4. u.conn = c
      BY <2>2
    <3> QED BY <2>3, <3>3, <3>4
  <2>5. f.got \in Got /\ e.got \in Got
    <3>1. f.got \in Got \/ f.got = <<>>
      <4>1. v.conn \in Conn /\ Whole(g, v.conn) /\ v.out \in {<<>>, <<v.conn>>}
        BY <1>2, <1>4, <1>10
      <4>2. f \in FlushEnd(v)
        BY <1>5
      <4> QED BY <1>2, <1>8, <4>1, <4>2, FlushLemma, Zenon
    <3>2. <<>> \in Got
      BY DEF Got
    <3> QED BY <2>4, <3>1, <3>2
  <2>6. i = client[c].got \o (f.got \o e.got)
    <3> DEFINE S == {"body", "end"} \X Conn
    <3>1. g \in Seq(S) /\ f.got \in Seq(S) /\ e.got \in Seq(S)
      BY <1>8, <2>5 DEF Got
    <3> HIDE DEF S
    <3>3. (g \o f.got) \o e.got = g \o (f.got \o e.got)
      <4> DEFINE a == f.got
                 b == e.got
      <4>1. a \in Seq(S) /\ b \in Seq(S) /\ g \in Seq(S)
        BY <3>1
      <4> HIDE DEF a, b, g
      <4>2. (g \o a) \o b = g \o (a \o b)
        BY <4>1, ConcatThree
      <4> QED BY <4>2 DEF a, b
    <3> QED BY <1>6, <2>3, <3>3
  <2> HIDE DEF y, i
  <2>7. CASE /\ e.v = [u EXCEPT !.out = <<>>]
             /\ i \in Got /\ Whole(i, c)
             /\ EndsIn(i, c) = EndsIn(h, c) + 1
             /\ Bodies(i, c) = Bodies(h, c) + Len(u.out)
    <3>1. /\ e.v \in WorkerType /\ e.v.requests = MaxRequests /\ e.v.env = "freed"
          /\ e.v.conn = c /\ e.v.stage = v.stage /\ e.v.out = <<>> /\ e.v.keep
      <4>1. /\ e.v \in WorkerType /\ e.v.requests = u.requests /\ e.v.env = u.env
            /\ e.v.conn = u.conn /\ e.v.stage = u.stage /\ e.v.out = <<>> /\ e.v.keep = u.keep
        BY <1>12, <2>7, FlushedLemma
      <4> QED BY <1>12, <2>2, <4>1
    <3>2. y = e.v
      BY <2>3, <3>1 DEF Close
    <3>3. /\ x \in WorkerType /\ x.requests = MaxRequests /\ x.env = "freed"
          /\ x.conn = c /\ x.stage = v.stage /\ x.out = <<>> /\ x.keep /\ x.pc = "top"
      BY <3>1, <3>2, GoesLemma
    <3> HIDE DEF x
    <3>4. Local(x)
      BY <1>2, <1>4, <2>2, <3>3 DEF Local
    <3>5. Len(u.out) = 0
      BY <2>2
    <3>6. /\ EndsIn(i, c) = t + 1 /\ Bodies(i, c) <= t
          /\ EndsIn(i, c) <= t + (IF c \in KeepConn THEN 2 ELSE 0)
      <4>1. Bodies(h, c) \in Int
        BY <1>2, <1>9, <1>12, <1>13, <1>16 DEF Sent, Failed
      <4> QED BY <1>8, <2>2, <2>7, <3>5, <4>1
    <3>7. Answered(x, [client[c] EXCEPT !.got = i])
      <4>1. /\ [k EXCEPT !.got = i].got = i
            /\ [k EXCEPT !.got = i].taken = t
            /\ [k EXCEPT !.got = i].phase = k.phase
        BY <1>4, <1>6 DEF ClientType
      <4> QED BY <1>6, <1>8, <2>2, <3>3, <3>6, <4>1 DEF Answered
    <3>8. x.conn # NoConn
      BY <1>4, <3>3
    <3> QED BY <1>4, <1>6, <2>3, <2>6, <2>7, <3>3, <3>4, <3>6, <3>7, <3>8, BecomesLemma
  <2>8. CASE /\ e.v = [u EXCEPT !.keep = FALSE] /\ e.got = <<>>
             /\ client[c].phase = "left"
    <3>1. /\ e.v \in WorkerType /\ e.v.requests = MaxRequests /\ e.v.env = "freed"
          /\ e.v.conn = c /\ e.v.keep = FALSE
      <4>1. /\ e.v \in WorkerType /\ e.v.requests = u.requests /\ e.v.env = u.env
            /\ e.v.conn = u.conn /\ e.v.keep = FALSE
        BY <1>12, <2>8, FlushedLemma
      <4> QED BY <1>12, <2>2, <4>1
    <3>2. /\ y \in WorkerType /\ y.requests = MaxRequests /\ y.env = "freed"
          /\ y.conn = NoConn /\ y.stage = "FINISHED" /\ y.keep = FALSE
      <4>1. y = [e.v EXCEPT !.conn = NoConn, !.stage = "FINISHED"]
        BY <1>4, <2>3, <3>1 DEF Close
      <4> QED BY <3>1, <4>1 DEF WorkerType, Stage
    <3>3. /\ x \in WorkerType /\ x.requests = MaxRequests /\ x.env = "freed"
          /\ x.conn = NoConn /\ x.stage = "FINISHED" /\ x.keep = FALSE /\ x.pc = "top"
      BY <3>2, GoesLemma
    <3> HIDE DEF x
    <3>4. Local(x)
      BY <3>3 DEF Local, Busy
    <3>5. i = h
      BY <1>12, <2>3, <2>8 DEF Got
    <3>6. /\ i \in Got /\ Whole(i, c) /\ Bodies(i, c) <= t /\ EndsIn(i, c) >= t
          /\ EndsIn(i, c) <= t + (IF c \in KeepConn THEN 2 ELSE 0)
      <4>1. EndsIn(h, c) = t /\ Bodies(h, c) <= t /\ t \in Nat
        BY <1>8, <2>2
      <4> QED BY <1>12, <3>5, <4>1
    <3>7. x.conn # c
      BY <1>4, <3>3
    <3> QED BY <1>4, <1>6, <2>3, <2>6, <3>3, <3>4, <3>6, <3>7, BecomesLemma
  <2> QED BY <2>4, <2>7, <2>8
<1> QED BY <1>15, <1>16

-----------------------------------------------------------------------------
(* The signals and the master. *)

LEMMA DeadLemma ==
  ASSUME NEW v \in WorkerType
  PROVE  LET x == Goes([NewWorker EXCEPT !.stage = v.stage], "dead") IN
         x \in WorkerType /\ Local(x) /\ x.conn = NoConn
<1> DEFINE x == Goes([NewWorker EXCEPT !.stage = v.stage], "dead")
           n == [NewWorker EXCEPT !.stage = v.stage]
<1>1. x = [n EXCEPT !.pc = "dead"]
  BY DEF Goes
<1>2. /\ v.stage \in Stage
      /\ NewWorker \in WorkerType
      /\ NewWorker.conn = NoConn /\ NewWorker.keep = FALSE /\ NewWorker.env = "none"
  <2>1. v.stage \in Stage
    BY DEF WorkerType
  <2>2. <<>> \in Seq(Conn)
    OBVIOUS
  <2>3. NewWorker \in WorkerType
    BY <2>2 DEF NewWorker, WorkerType, Stage
  <2> QED BY <2>1, <2>3 DEF NewWorker
<1>3. /\ n \in WorkerType
      /\ n.conn = NoConn /\ n.keep = FALSE /\ n.env = "none"
  BY <1>2 DEF WorkerType
<1> HIDE DEF n, x
<1>4. /\ x \in WorkerType /\ x.pc = "dead"
      /\ x.conn = NoConn /\ x.keep = FALSE /\ x.env = "none"
  BY <1>1, <1>3 DEF WorkerType
<1>5. Local(x)
  BY <1>4 DEF Local
<1> QED BY <1>4, <1>5 DEF x

LEMMA DiesLemma == ASSUME IInv, NEW w \in Worker, Dies(w) PROVE IInv'
<1> DEFINE c == worker[w].conn
           x == Goes([NewWorker EXCEPT !.stage = worker[w].stage], "dead")
           k == [client[c] EXCEPT !.phase = IF Unanswered(c) THEN "reset" ELSE Closed(c)]
<1>1. worker[w] \in WorkerType
  BY KnownLemma
<1>2. x \in WorkerType /\ Local(x) /\ x.conn = NoConn
  BY <1>1, DeadLemma
<1>3. /\ worker' = [worker EXCEPT ![w] = x]
      /\ client' = IF c = NoConn THEN client ELSE [client EXCEPT ![c] = k]
      /\ backlog' = backlog
  BY DEF Dies
<1>4. deaths' \in 0..MaxDeaths
  BY WorkersAssumption DEF Dies, IInv
<1> HIDE DEF x
<1>5. CASE c = NoConn
  BY <1>2, <1>3, <1>4, <1>5, FreeLemma
<1>6. CASE c # NoConn
  <2>1. /\ c \in Conn /\ client[c] \in ClientType
        /\ client[c].taken <= client[c].sent
        /\ InOrder(client[c], c)
        /\ client[c].phase \in {"open", "left"}
    BY <1>6, KnownLemma DEF Answered
  <2>2. EndsIn(client[c].got, c) \in Nat
    BY <2>1, EndsType DEF ClientType
  <2>3. Ends(c) = EndsIn(client[c].got, c)
    BY DEF Ends, EndsIn
  <2> HIDE DEF c
  <2>4. /\ k \in ClientType
        /\ k.taken = client[c].taken /\ k.sent = client[c].sent /\ k.got = client[c].got
        /\ k.phase = IF Unanswered(c) THEN "reset" ELSE Closed(c)
    BY <2>1 DEF ClientType, Closed
  <2>5. /\ k.phase \in {"left", "closed", "reset"}
        /\ k.phase = "closed" => EndsIn(client[c].got, c) >= client[c].sent
    <3>1. client[c].sent \in Nat
      BY <2>1 DEF ClientType
    <3> QED BY <2>1, <2>2, <2>3, <2>4, <3>1 DEF Unanswered, Closed
  <2> HIDE DEF k
  <2>6. InOrder(k, c)
    <3>1. client[c].sent \in Nat /\ client[c].taken \in Nat
      BY <2>1 DEF ClientType
    <3>2. k.phase = "closed" => EndsIn(k.got, c) >= k.taken
      BY <2>1, <2>2, <2>4, <2>5, <3>1
    <3> QED BY <2>1, <2>4, <3>2 DEF InOrder
  <2>7. k.taken <= k.sent
    BY <2>1, <2>4
  <2>8. x.conn # c
    BY <1>2, <2>1, WorkersAssumption
  <2>9. worker[w].conn = c
    BY DEF c
  <2> QED BY <1>2, <1>3, <1>4, <1>6, <2>1, <2>4, <2>5, <2>6, <2>7, <2>8, <2>9, ServeLemma
<1> QED BY <1>5, <1>6

LEMMA RespawnLemma == ASSUME IInv, NEW w \in Worker, Respawn(w) PROVE IInv'
<1>1. worker[w].conn = NoConn
  BY KnownLemma DEF Respawn, Local
<1>2. NewWorker \in WorkerType
  BY DEF NewWorker, WorkerType, Stage
<1>3. Local(NewWorker) /\ NewWorker.conn = NoConn
  BY DEF NewWorker, Local, Busy
<1>4. deaths' \in 0..MaxDeaths /\ client' = client /\ backlog' = backlog
      /\ worker' = [worker EXCEPT ![w] = NewWorker]
  BY DEF Respawn, IInv
<1> QED BY <1>1, <1>2, <1>3, <1>4, FreeLemma

-----------------------------------------------------------------------------
(* The web server. *)

LEMMA SendLemma == ASSUME IInv, NEW c \in Conn, Send(c) PROVE IInv'
<1> DEFINE k == [client[c] EXCEPT !.sent = @ + 1]
<1>1. client[c] \in ClientType /\ client[c].taken <= client[c].sent
  BY DEF IInv
<1>2. client[c].sent \in 0..MaxSent /\ client[c].sent < MaxSent /\ client[c].taken \in Nat
  BY <1>1 DEF Send, ClientType
<1>3. client[c].sent + 1 \in 0..MaxSent
  BY <1>2, WorkersAssumption
<1>4. /\ k \in ClientType /\ k.sent = client[c].sent + 1
      /\ k.taken = client[c].taken /\ k.got = client[c].got /\ k.phase = client[c].phase
  BY <1>1, <1>3 DEF ClientType
<1>5. k.taken <= k.sent
  BY <1>1, <1>2, <1>4
<1>6. client' = [client EXCEPT ![c] = k] /\ worker' = worker /\ backlog' = backlog /\ deaths' = deaths
  BY DEF Send
<1> HIDE DEF k
<1> QED BY <1>4, <1>5, <1>6, PeerLemma

LEMMA StallLemma == ASSUME IInv, NEW c \in Conn, Stall(c) PROVE IInv'
<1>1. PICK t \in {"half", "bad"} : client' = [client EXCEPT ![c].tail = t]
  BY DEF Stall
<1> DEFINE k == [client[c] EXCEPT !.tail = t]
<1>2. client[c] \in ClientType /\ client[c].taken <= client[c].sent
  BY DEF IInv
<1>3. /\ k \in ClientType /\ k.sent = client[c].sent
      /\ k.taken = client[c].taken /\ k.got = client[c].got /\ k.phase = client[c].phase
  BY <1>2 DEF ClientType
<1>4. client' = [client EXCEPT ![c] = k] /\ worker' = worker /\ backlog' = backlog /\ deaths' = deaths
  BY <1>1 DEF Stall
<1>5. k.taken <= k.sent
  BY <1>2, <1>3
<1> HIDE DEF k
<1> QED BY <1>3, <1>4, <1>5, PeerLemma

LEMMA LeaveLemma == ASSUME IInv, NEW c \in Conn, Leave(c) PROVE IInv'
<1> DEFINE k == [client[c] EXCEPT !.phase = "left"]
<1>2. client[c] \in ClientType /\ client[c].taken <= client[c].sent
      /\ client[c].phase \in {"queued", "open"}
  BY DEF IInv, Leave
<1>3. /\ k \in ClientType /\ k.sent = client[c].sent
      /\ k.taken = client[c].taken /\ k.got = client[c].got /\ k.phase = "left"
  BY <1>2 DEF ClientType
<1>4. client' = [client EXCEPT ![c] = k] /\ worker' = worker /\ backlog' = backlog /\ deaths' = deaths
  BY DEF Leave
<1>5. k.taken <= k.sent
  BY <1>2, <1>3
<1> HIDE DEF k
<1> QED BY <1>2, <1>3, <1>4, <1>5, PeerLemma

(* A connection that comes into the queue has no worker yet. *)
LEMMA ConnectLemma == ASSUME IInv, NEW c \in Conn, Connect(c) PROVE IInv'
<1> DEFINE k == [client[c] EXCEPT !.phase = "queued"]
<1>1. /\ client[c] \in ClientType /\ client[c].phase = "away" /\ New(client[c])
      /\ client[c].taken <= client[c].sent /\ InOrder(client[c], c)
  BY DEF IInv, Owned, Connect
<1>2. /\ k \in ClientType /\ k.sent = client[c].sent /\ k.phase = "queued"
      /\ k.taken = client[c].taken /\ k.got = client[c].got
  BY <1>1 DEF ClientType
<1>3. New(k) /\ InOrder(k, c) /\ k.taken <= k.sent
  BY <1>1, <1>2 DEF New, InOrder
<1>4. /\ client' = [client EXCEPT ![c] = k] /\ worker' = worker
      /\ backlog' = Append(backlog, c) /\ deaths' = deaths
  BY DEF Connect
<1> HIDE DEF k
<1>5. /\ client' \in [Conn -> ClientType] /\ client'[c] = k
      /\ \A d \in Conn : d # c => client'[d] = client[d]
  BY <1>2, <1>4 DEF IInv
<1>6. \A w \in Worker : worker[w].conn # c
  <2> SUFFICES ASSUME NEW w \in Worker, worker[w].conn = c PROVE FALSE
    OBVIOUS
  <2>1. Answered(worker[w], client[c])
    BY WorkersAssumption, KnownLemma
  <2> QED BY <1>1, <2>1 DEF Answered
<1>7. \A i \in DOMAIN backlog : backlog[i] \in Conn /\ backlog[i] # c
  BY <1>1 DEF IInv, Owned
<1>8. /\ backlog' \in Seq(Conn) /\ Len(backlog) \in Nat
      /\ DOMAIN backlog = 1..Len(backlog) /\ DOMAIN backlog' = 1..(Len(backlog) + 1)
      /\ \A i \in 1..Len(backlog) : backlog'[i] = backlog[i]
      /\ backlog'[Len(backlog) + 1] = c
  BY <1>4 DEF IInv
<1>9. \A i \in DOMAIN backlog' :
        (i \in DOMAIN backlog /\ backlog'[i] = backlog[i]) \/ (i = Len(backlog) + 1 /\ backlog'[i] = c)
  BY <1>8
<1>10. Owned'
  <2>1. \A w, x \in Worker :
          worker'[w].conn = worker'[x].conn /\ worker'[w].conn # NoConn => w = x
    BY <1>4 DEF IInv, Owned
  <2>2. \A w \in Worker : \A i \in DOMAIN backlog' : backlog'[i] # worker'[w].conn
    BY <1>4, <1>6, <1>9 DEF IInv, Owned
  <2>3. \A i, j \in DOMAIN backlog' : backlog'[i] = backlog'[j] => i = j
    BY <1>7, <1>9 DEF IInv, Owned
  <2>4. \A i \in DOMAIN backlog' :
          client'[backlog'[i]].phase \in {"queued", "left"} /\ New(client'[backlog'[i]])
    <3> SUFFICES ASSUME NEW i \in DOMAIN backlog'
                 PROVE  client'[backlog'[i]].phase \in {"queued", "left"} /\ New(client'[backlog'[i]])
      OBVIOUS
    <3>1. CASE i \in DOMAIN backlog /\ backlog'[i] = backlog[i]
      BY <1>5, <1>7, <3>1 DEF IInv, Owned
    <3>2. CASE backlog'[i] = c
      BY <1>2, <1>3, <1>5, <3>2
    <3> QED BY <1>9, <3>1, <3>2
  <2>5. \A d \in Conn : client'[d].phase \in {"away", "queued"} => New(client'[d])
    BY <1>3, <1>5 DEF IInv, Owned
  <2>6. \A d \in Conn : client'[d].phase = "open" => \E w \in Worker : worker'[w].conn = d
    BY <1>2, <1>4, <1>5 DEF IInv, Owned
  <2> QED BY <2>1, <2>2, <2>3, <2>4, <2>5, <2>6 DEF Owned
<1>11. \A d \in Conn : client'[d].taken <= client'[d].sent /\ InOrder(client'[d], d)
  BY <1>3, <1>5 DEF IInv
<1>12. \A w \in Worker :
         worker'[w].conn # NoConn => Answered(worker'[w], client'[worker'[w].conn])
  <2> SUFFICES ASSUME NEW w \in Worker, worker[w].conn # NoConn
               PROVE  Answered(worker[w], client'[worker[w].conn])
    BY <1>4
  <2>1. worker[w].conn \in Conn /\ Answered(worker[w], client[worker[w].conn])
    BY KnownLemma
  <2> QED BY <1>5, <1>6, <2>1
<1> QED BY <1>4, <1>5, <1>8, <1>10, <1>11, <1>12 DEF IInv

-----------------------------------------------------------------------------
(* The invariant. *)

LEMMA InitLemma == Init => IInv
<1> SUFFICES ASSUME Init PROVE IInv
  OBVIOUS
<1>1. /\ worker = [w \in Worker |-> NewWorker] /\ client = [c \in Conn |-> NewClient]
      /\ backlog = <<>> /\ deaths = 0
  BY DEF Init
<1>2. NewWorker \in WorkerType /\ Local(NewWorker) /\ NewWorker.conn = NoConn
  BY DEF NewWorker, WorkerType, Stage, Local, Busy
<1>3. /\ NewClient.phase = "away" /\ NewClient.taken = 0 /\ NewClient.sent = 0
      /\ NewClient.got = <<>>
  BY DEF NewClient
<1>4. NewClient \in ClientType
  <2>1. <<>> \in Got
    BY DEF Got
  <2>2. 0 \in 0..MaxSent
    BY WorkersAssumption
  <2> QED BY <2>1, <2>2 DEF NewClient, ClientType
<1>5. \A c \in Conn : InOrder(NewClient, c)
  <2> TAKE c \in Conn
  <2>1. EndsIn(<<>>, c) = 0 /\ Bodies(<<>>, c) = 0
    BY NoneEnds
  <2>2. Whole(<<>>, c)
    BY DEF Whole
  <2> QED BY <1>3, <2>1, <2>2 DEF InOrder
<1>6. \A w \in Worker : worker[w] = NewWorker
  BY <1>1
<1>7. \A c \in Conn : client[c] = NewClient
  BY <1>1
<1>8. worker \in [Worker -> WorkerType] /\ client \in [Conn -> ClientType]
  BY <1>1, <1>2, <1>4
<1>9. backlog \in Seq(Conn) /\ DOMAIN backlog = {} /\ deaths \in 0..MaxDeaths
  BY <1>1, WorkersAssumption
<1>10. Owned
  BY <1>2, <1>3, <1>6, <1>7, <1>9 DEF Owned, New
<1> QED BY <1>2, <1>3, <1>5, <1>6, <1>7, <1>8, <1>9, <1>10 DEF IInv

LEMMA StutterLemma == IInv /\ UNCHANGED vars => IInv'
BY DEF IInv, vars, Owned

(* The invariant holds of every step. *)
LEMMA StepLemma == IInv /\ [Next]_vars => IInv'
<1> SUFFICES ASSUME IInv, [Next]_vars PROVE IInv'
  OBVIOUS
<1>1. CASE UNCHANGED vars
  BY <1>1, StutterLemma
<1>2. ASSUME NEW w \in Worker, Serve(w) PROVE IInv'
  <2>1. CASE Finish(w)
    BY <2>1, FinishLemma
  <2>2. CASE Accepting(w)
    BY <2>2, AcceptingLemma
  <2>3. CASE Accept(w)
    BY <2>3, AcceptLemma
  <2>4. CASE ReadingHeaders(w)
    BY <2>4, ReadingHeadersLemma
  <2>5. CASE FirstByte(w)
    BY <2>5, FirstByteLemma
  <2>6. CASE Silent(w)
    BY <2>6, SilentLemma
  <2>7. CASE ReadRequest(w)
    BY <2>7, ReadRequestLemma
  <2>8. CASE ReadFails(w)
    BY <2>8, ReadFailsLemma
  <2>9. CASE RequestInfo(w)
    BY <2>9, RequestInfoLemma
  <2>10. CASE Executing(w)
    BY <2>10, ExecutingLemma
  <2>11. CASE Reply(w)
    BY <2>11, ReplyLemma
  <2>12. CASE LastRequest(w)
    BY <2>12, LastRequestLemma
  <2> QED BY <1>2, <2>1, <2>2, <2>3, <2>4, <2>5, <2>6, <2>7, <2>8, <2>9, <2>10, <2>11, <2>12
          DEF Serve
<1>3. CASE Peers
  <2>1. PICK c \in Conn : Connect(c) \/ Send(c) \/ Stall(c) \/ Leave(c)
    BY <1>3 DEF Peers
  <2> QED BY <2>1, ConnectLemma, SendLemma, StallLemma, LeaveLemma
<1>4. CASE Master
  <2>1. PICK w \in Worker : Dies(w) \/ Respawn(w)
    BY <1>4 DEF Master, Quit, Die
  <2> QED BY <2>1, DiesLemma, RespawnLemma
<1> QED BY <1>1, <1>2, <1>3, <1>4 DEF Next

LEMMA InvariantLemma == Spec => []IInv
BY InitLemma, StepLemma, PTL DEF Spec

-----------------------------------------------------------------------------
(* Of fpm_request.c, fastcgi.cpp and main.cpp: the state of every worker   *)
(* and client keeps its type, and no more is taken than was sent.          *)
THEOREM WorkersTypeCorrect == Spec => []TypeOK
<1>1. IInv => TypeOK
  BY DEF IInv, TypeOK, WorkerType, ClientType, Got
<1> QED BY <1>1, InvariantLemma, PTL

(* fpm_request.c: a living worker reports a busy stage exactly while it    *)
(* has a connection, so that the master counts and times the right ones.   *)
THEOREM WorkersStageIsTrue == Spec => []StageIsTrue
<1>1. IInv => StageIsTrue
  BY DEF IInv, StageIsTrue, Local
<1> QED BY <1>1, InvariantLemma, PTL

(* fcgi_read_request, fcgi_close: the variables of a request are freed     *)
(* once, but for the request that reaches max_requests.                    *)
THEOREM WorkersEnvIsFreedOnce == Spec => []EnvIsFreedOnce
<1>1. IInv => EnvIsFreedOnce
  BY DEF IInv, EnvIsFreedOnce, Local
<1> QED BY <1>1, InvariantLemma, PTL

(* fcgi_accept_request, fcgi_flush: a client receives the replies to its   *)
(* own requests, each once and whole, and none that was taken is forgotten.*)
THEOREM WorkersAnswersAreExact == Spec => []AnswersAreExact
<1>1. ASSUME IInv PROVE RepliesInOrder
  <2>1. \A c \in Conn : Ends(c) = EndsIn(client[c].got, c)
    BY DEF Ends, EndsIn
  <2>2. \A c \in Conn : InOrder(client[c], c)
    BY <1>1 DEF IInv
  <2> QED BY <2>1, <2>2 DEF RepliesInOrder, InOrder, Whole, Bodies
<1>2. ASSUME IInv PROVE NothingOwed
  <2> SUFFICES ASSUME NEW c \in Conn, client[c].phase \in {"open", "closed"},
                      Ends(c) < client[c].taken
               PROVE  \E w \in Worker :
                        worker[w].conn = c /\ worker[w].pc \in {"info", "exec", "work", "top"}
    BY DEF NothingOwed
  <2>1. /\ client[c] \in ClientType /\ InOrder(client[c], c)
        /\ Ends(c) = EndsIn(client[c].got, c)
    BY <1>2 DEF IInv, Ends, EndsIn
  <2>2. client[c].taken \in Nat /\ EndsIn(client[c].got, c) \in Nat
    <3>1. client[c].taken \in Nat /\ client[c].got \in Got
      BY <2>1 DEF ClientType
    <3> QED BY <3>1, EndsType
  <2>3. client[c].phase = "open"
    BY <2>1, <2>2 DEF InOrder
  <2>4. PICK w \in Worker : worker[w].conn = c
    BY <1>2, <2>3 DEF IInv, Owned
  <2>5. worker[w].conn # NoConn
    BY <2>4, WorkersAssumption
  <2>6. worker[w] \in WorkerType /\ Local(worker[w]) /\ Answered(worker[w], client[c])
    BY <1>2, <2>4, <2>5, KnownLemma
  <2>7. worker[w].pc \notin {"idle", "accept", "dead"}
    BY <2>5, <2>6 DEF Local
  <2>8. worker[w].pc \notin {"accepted", "wait"}
    BY <2>1, <2>2, <2>6 DEF Answered, New
  <2>9. worker[w].pc # "read"
    <3>1. Ahead(worker[w], EndsIn(client[c].got, c), client[c].taken) => Ends(c) >= client[c].taken
      BY <2>1, <2>2 DEF Ahead
    <3> QED BY <2>1, <2>2, <2>4, <2>6, <3>1 DEF Answered
  <2> QED BY <2>4, <2>6, <2>7, <2>8, <2>9 DEF WorkerType
<1>3. IInv => AnswersAreExact
  BY <1>1, <1>2 DEF AnswersAreExact
<1> QED BY <1>3, InvariantLemma, PTL

=============================================================================
