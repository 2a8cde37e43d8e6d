------------------------------ MODULE FpmStdio ------------------------------
(***************************************************************************)
(* What workers write to stdout and stderr: the pipes of fpm_stdio.c from  *)
(* their preparation in fpm_children_make to their end in fpm_child_close, *)
(* by descriptor number, with the events that read them and the lines the  *)
(* master logs.  One pool that catches its workers' output.  A child       *)
(* structure and the process it stands for have one name.                  *)
(*                                                                         *)
(*   make   the loop of fpm_children_make                                  *)
(*   fork   the resources of fresh are prepared                            *)
(*   loop   the event loop, between two callbacks                          *)
(*   said   fpm_stdio_child_said; reader has its local variables           *)
(*   close  fpm_child_close of victim, at the stream half                  *)
(***************************************************************************)
EXTENDS Integers, FiniteSets, SequencesExt

CONSTANTS Child,        \* child structures, and the processes
          NoChild,      \* not a child
          MaxChildren,  \* max_children of the pool
          MaxFd,        \* descriptor numbers the master has for pipes
          BufSize,      \* characters the buffer of fpm_stdio_child_said takes
          Say,          \* what a worker may write at once
          MaxSaid,      \* bound: writes of all workers
          MaxMishaps    \* bound: failures of pipe, fcntl, slot, fork, epoll_ctl,
                        \* streams closed by workers, and deaths of workers

Char   == {"x", "nl"}
Stream == {"out", "err"}
Fd     == 1..MaxFd

ASSUME StdioAssumption ==
  /\ IsFiniteSet(Child) /\ NoChild \notin Child
  /\ MaxChildren \in Nat /\ BufSize \in Nat \ {0}
  /\ MaxFd \in Nat /\ MaxFd >= 2 * MaxChildren + 2
  /\ Say \subseteq Seq(Char) \ {<<>>}
  /\ MaxSaid \in Nat /\ MaxMishaps \in Nat

VARIABLES
  pc, fresh, victim, half, reader, \* control of the master, see above
  stage,                           \* the life of a child structure
  fd,                              \* child->fd_stdout and fd_stderr
  evfd,                            \* ev_fd of its two events
  events, active,                  \* the events added, and those to be called
  tab,                             \* the master's descriptors
  proc,                            \* the processes
  wtab,                            \* their descriptors with the master's numbers
  list,                            \* numbers in their copy of wp->children
  std,                             \* their descriptors 1 and 2
  text,                            \* what is in the pipes
  written, told,                   \* ghosts: what workers wrote, what was logged
  lost,                            \* ghost: words of a freed child not logged
  astray,                          \* ghost: close() hit another's descriptor
  quota                            \* writes and mishaps left

master  == <<pc, fresh, victim, half, reader>>
structs == <<stage, fd, evfd, events, active>>
workers == <<proc, wtab, list, std>>
words   == <<text, written, told, lost>>
vars    == <<master, structs, tab, workers, words, astray, quota>>

NoEnd   == <<>>
Rd(c, s) == <<c, s, "r">>
Wr(c, s) == <<c, s, "w">>
End     == Child \X Stream \X {"r", "w"}
Empty   == [n \in Fd |-> NoEnd]
NoReader == [child |-> NoChild, stream |-> "out", fd |-> -1, buf |-> <<>>,
             in |-> FALSE]

TypeOK ==
  /\ pc \in {"make", "fork", "loop", "said", "close"}
  /\ fresh \in Child \cup {NoChild} /\ victim \in Child \cup {NoChild}
  /\ half \in Stream
  /\ reader \in [child : Child \cup {NoChild}, stream : Stream, fd : Fd \cup {-1},
                 buf : Seq(Char), in : BOOLEAN]
  /\ Len(reader.buf) <= BufSize
  /\ stage \in [Child -> {"free", "prepared", "linked", "closing"}]
  /\ fd \in [Child -> [Stream -> [rd : Fd \cup {-1}, wr : Fd \cup {-1}]]]
  /\ evfd \in [Child -> [Stream -> Fd \cup {-1}]]
  /\ events \subseteq Child \X Stream /\ active \subseteq events
  /\ tab \in [Fd -> End \cup {NoEnd}]
  /\ proc \in [Child -> {"none", "young", "ready", "dead"}]
  /\ wtab \in [Child -> [Fd -> End \cup {NoEnd}]]
  /\ list \in [Child -> SUBSET Fd]
  /\ std \in [Child -> [Stream -> End \cup {NoEnd}]]
  /\ text \in [Child -> [Stream -> Seq(Char)]]
  /\ written \in [Child -> [Stream -> Seq(Say)]]
  /\ told \in [Child -> [Stream -> Seq(Seq(Char))]]
  /\ lost \in BOOLEAN /\ astray \in BOOLEAN
  /\ quota \in [said : 0..MaxSaid, mishaps : 0..MaxMishaps]

OfBoth(x) == [s \in Stream |-> x]

Init ==
  /\ pc = "make" /\ fresh = NoChild /\ victim = NoChild /\ half = "out"
  /\ reader = NoReader
  /\ stage = [c \in Child |-> "free"]
  /\ fd = [c \in Child |-> OfBoth([rd |-> -1, wr |-> -1])]
  /\ evfd = [c \in Child |-> OfBoth(-1)]
  /\ events = {} /\ active = {}
  /\ tab = Empty
  /\ proc = [c \in Child |-> "none"]
  /\ wtab = [c \in Child |-> Empty] /\ list = [c \in Child |-> {}]
  /\ std = [c \in Child |-> OfBoth(NoEnd)]
  /\ text = [c \in Child |-> OfBoth(<<>>)]
  /\ written = text /\ told = text
  /\ lost = FALSE /\ astray = FALSE
  /\ quota = [said |-> MaxSaid, mishaps |-> MaxMishaps]

-----------------------------------------------------------------------------
(* Descriptor tables. *)

Unused(t) == {n \in Fd : t[n] = NoEnd}

BothFit(t) == Cardinality(Unused(t)) >= 4

(* pipe() takes the two lowest numbers; with fewer left it opens nothing. *)
Pipe(t, c, s) ==
  IF Cardinality(Unused(t)) < 2 THEN t ELSE
  LET r == Min(Unused(t))
      w == Min(Unused(t) \ {r})
  IN  [t EXCEPT ![r] = Rd(c, s), ![w] = Wr(c, s)]

Closed(t, ns) == [n \in Fd |-> IF n \in ns THEN NoEnd ELSE t[n]]

(* close() of the numbers ns, which are c's. *)
Close(t, ns, c) ==
  /\ tab' = Closed(t, ns)
  /\ astray' = (astray \/ \E n \in ns \cap Fd : t[n] # NoEnd /\ t[n][1] # c)

Numbers(t, c) ==
  LET At(e) == IF \E n \in Fd : t[n] = e THEN CHOOSE n \in Fd : t[n] = e ELSE -1
  IN  [s \in Stream |-> [rd |-> At(Rd(c, s)), wr |-> At(Wr(c, s))]]

WritersOf(d) == {d[s].wr : s \in Stream}

AllOf(d) == UNION {{d[s].rd, d[s].wr} : s \in Stream}

Mishap == quota.mishaps > 0 /\ quota' = [quota EXCEPT !.mishaps = @ - 1]

-----------------------------------------------------------------------------
(* fpm_children_make *)

Running == Cardinality({c \in Child : stage[c] = "linked"})

MayMake(c) == pc = "make" /\ Running < MaxChildren /\ stage[c] = "free"

PreparePipes(c) ==
  LET t == Pipe(Pipe(tab, c, "out"), c, "err") IN
  /\ MayMake(c) /\ BothFit(tab)
  /\ pc' = "fork" /\ fresh' = c
  /\ stage' = [stage EXCEPT ![c] = "prepared"]
  /\ fd' = [fd EXCEPT ![c] = Numbers(t, c)]
  /\ tab' = t
  /\ UNCHANGED <<victim, half, reader, evfd, events, active, workers, words, astray, quota>>

(* fpm_stdio_prepare_pipes fails at its first pipe (none is open), at the  *)
(* second (only stdout's is) or at fd_set_blocked (both are).  It closes   *)
(* what is open and fpm_stdio_discard_pipes closes the same numbers again. *)
PreparePipesFails(c) ==
  /\ MayMake(c)
  /\ \/ Mishap
     \/ ~BothFit(tab) /\ UNCHANGED quota
  /\ \E t \in {tab, Pipe(tab, c, "out"), Pipe(Pipe(tab, c, "out"), c, "err")} :
       LET ns == AllOf(Numbers(t, c)) IN Close(Closed(t, ns), ns, c)
  /\ pc' = "loop"
  /\ UNCHANGED <<fresh, victim, half, reader, structs, workers, words>>

(* The slot cannot be prepared, or fork fails: fpm_resources_discard. *)
Discard(c) ==
  /\ pc = "fork" /\ c = fresh /\ Mishap
  /\ Close(tab, AllOf(fd[c]), c)
  /\ pc' = "loop" /\ fresh' = NoChild
  /\ stage' = [stage EXCEPT ![c] = "free"]
  /\ fd' = [fd EXCEPT ![c] = OfBoth([rd |-> -1, wr |-> -1])]
  /\ UNCHANGED <<victim, half, reader, evfd, events, active, workers, words>>

(* fpm_stdio_parent_use_pipes: the write ends are closed and the events    *)
(* added; a failure of event_add is ignored.                               *)
ParentUsesPipes(c) ==
  /\ Close(tab, WritersOf(fd[c]), c)
  /\ evfd' = [evfd EXCEPT ![c] = [s \in Stream |-> fd[c][s].rd]]
  /\ \/ events' = events \cup ({c} \X Stream) /\ UNCHANGED quota
     \/ Mishap /\ \E s \in Stream : events' = events \cup {<<c, s>>}

(* The child has a copy of all descriptors and of the list of children.    *)
Fork(c) ==
  /\ pc = "fork" /\ c = fresh
  /\ pc' = "make" /\ fresh' = NoChild
  /\ stage' = [stage EXCEPT ![c] = "linked"]
  /\ ParentUsesPipes(c)
  /\ proc' = [proc EXCEPT ![c] = "young"]
  /\ wtab' = [wtab EXCEPT ![c] = tab]
  /\ list' = [list EXCEPT ![c] = {fd[d][s].rd : d \in {e \in Child : stage[e] = "linked"},
                                                s \in Stream} \ {-1}]
  /\ UNCHANGED <<victim, half, reader, fd, active, std, words>>

(* max_children is reached, or the controller allows no more. *)
MakeEnds ==
  /\ pc = "make" /\ pc' = "loop"
  /\ UNCHANGED <<fresh, victim, half, reader, structs, tab, workers, words, astray, quota>>

-----------------------------------------------------------------------------
(* The workers. *)

(* Mutant: the child keeps the pipes of the others. *)
ReleasedOwn(c) == AllOf(fd[c])

Released(c) == AllOf(fd[c]) \cup list[c]

(* fpm_stdio_child_use_pipes, and fpm_children_free on the copied list.    *)
WorkerStarts(c) ==
  /\ proc[c] = "young"
  /\ proc' = [proc EXCEPT ![c] = "ready"]
  /\ std' = [std EXCEPT ![c] = [s \in Stream |-> wtab[c][fd[c][s].wr]]]
  /\ wtab' = [wtab EXCEPT ![c] = Closed(@, Released(c))]
  /\ list' = [list EXCEPT ![c] = {}]
  /\ UNCHANGED <<master, structs, tab, words, astray, quota>>

WorkerSays(c, s) ==
  /\ proc[c] = "ready" /\ std[c][s] # NoEnd
  /\ quota.said > 0 /\ quota' = [quota EXCEPT !.said = @ - 1]
  /\ \E w \in Say : LET e == std[c][s] IN
       /\ text' = [text EXCEPT ![e[1]][e[2]] = @ \o w]
       /\ written' = [written EXCEPT ![c][s] = Append(@, w)]
  /\ UNCHANGED <<master, structs, tab, workers, told, lost, astray>>

WorkerCloses(c, s) ==
  /\ proc[c] = "ready" /\ std[c][s] # NoEnd
  /\ Mishap
  /\ std' = [std EXCEPT ![c][s] = NoEnd]
  /\ UNCHANGED <<master, structs, tab, proc, wtab, list, words, astray>>

WorkerDies(c) ==
  /\ proc[c] \in {"young", "ready"}
  /\ Mishap
  /\ proc' = [proc EXCEPT ![c] = "dead"]
  /\ wtab' = [wtab EXCEPT ![c] = Empty] /\ list' = [list EXCEPT ![c] = {}]
  /\ std' = [std EXCEPT ![c] = OfBoth(NoEnd)]
  /\ UNCHANGED <<master, structs, tab, words, astray>>

-----------------------------------------------------------------------------
(* The events of the pipes. *)

(* Some process has the end e open. *)
IsOpen(e) ==
  \/ \E n \in Fd : tab[n] = e
  \/ \E d \in Child : \/ \E n \in Fd : wtab[d][n] = e
                      \/ \E s \in Stream : std[d][s] = e

HasEof(e) == ~IsOpen(Wr(e[1], e[2]))

Readable(n) ==
  /\ n \in Fd /\ tab[n] # NoEnd
  /\ text[tab[n][1]][tab[n][2]] # <<>> \/ HasEof(tab[n])

Dispatch ==
  /\ pc = "loop" /\ active = {}
  /\ active' = {e \in events : Readable(evfd[e[1]][e[2]])}
  /\ active' # {}
  /\ UNCHANGED <<master, stage, fd, evfd, events, tab, workers, words, astray, quota>>

(* The callback of the event <<c, s>> is called, by the loop or by         *)
(* fpm_event_fire; it looks which stream its descriptor is.                *)
CallSaid(c, s) ==
  /\ pc' = "said"
  /\ reader' = [child |-> c, stream |-> IF evfd[c][s] = fd[c]["out"].rd THEN "out" ELSE "err",
                fd |-> evfd[c][s], buf |-> <<>>, in |-> TRUE]

EventSaid(c, s) ==
  /\ pc = "loop" /\ <<c, s>> \in active
  /\ active' = active \ {<<c, s>>}
  /\ CallSaid(c, s)
  /\ UNCHANGED <<fresh, victim, half, stage, fd, evfd, events, tab, workers, words, astray, quota>>

(* Mutants: a buffer that is full is not printed; the newline is left. *)
MustPrintAtEnd(b, in) == ~in

MessageBefore(b, in) ==
  IF "nl" \in Range(b) THEN SubSeq(b, 1, Min({i \in DOMAIN b : b[i] = "nl"}) - 1)
  ELSE IF Len(b) = BufSize \/ ~in THEN b
  ELSE <<>>

(* The half of a turn that prints, with b in the buffer: a line if there   *)
(* is one, all of it if nothing can be added, or nothing.                  *)
MustPrint(b, in) == Len(b) = BufSize \/ ~in

Message(b, in) ==
  IF "nl" \in Range(b) THEN SubSeq(b, 1, Min({i \in DOMAIN b : b[i] = "nl"}))
  ELSE IF MustPrint(b, in) THEN b
  ELSE <<>>

Log(b, in) ==
  LET m == Message(b, in) IN
  /\ reader' = [reader EXCEPT !.buf = SubSeq(b, Len(m) + 1, Len(b)), !.in = in]
  /\ told' = IF m = <<>> THEN told
             ELSE [told EXCEPT ![reader.child][reader.stream] = Append(@, m)]

(* Mutant: the room is the whole buffer. *)
RoomAll(b) == BufSize

Room(b) == BufSize - Len(b)

(* read() returns what is in the pipe and fits. *)
SaidReads ==
  LET e == tab[reader.fd]
      n == Min({Room(reader.buf), Len(text[e[1]][e[2]])})
  IN  /\ pc = "said" /\ reader.in /\ e # NoEnd /\ n > 0
      /\ text' = [text EXCEPT ![e[1]][e[2]] = SubSeq(@, n + 1, Len(@))]
      /\ Log(reader.buf \o SubSeq(text[e[1]][e[2]], 1, n), TRUE)
      /\ UNCHANGED <<pc, fresh, victim, half, structs, tab, workers, written, lost, astray, quota>>

(* read() finds nothing now: EAGAIN. *)
SaidAgain ==
  LET e == tab[reader.fd] IN
  /\ pc = "said" /\ reader.in /\ e # NoEnd
  /\ text[e[1]][e[2]] = <<>> /\ ~HasEof(e) /\ Room(reader.buf) > 0
  /\ Log(reader.buf, FALSE)
  /\ UNCHANGED <<pc, fresh, victim, half, structs, tab, workers, text, written, lost, astray, quota>>

(* Mutant: the number stays in the structure. *)
ShutKept(c, s) == UNCHANGED fd

Shut(c, s) == fd' = [fd EXCEPT ![c][s].rd = -1]

(* read() returns 0, at the end or for want of room, or fails: the event   *)
(* is deleted and the descriptor closed.                                   *)
SaidEof ==
  LET e == tab[reader.fd]
      c == reader.child
      s == reader.stream
  IN  /\ pc = "said" /\ reader.in
      /\ \/ e = NoEnd
         \/ e # NoEnd /\ text[e[1]][e[2]] = <<>> /\ HasEof(e)
         \/ Room(reader.buf) = 0
      /\ events' = events \ {<<c, s>>} /\ active' = active \ {<<c, s>>}
      /\ Close(tab, {fd[c][s].rd}, c)
      /\ Shut(c, s)
      /\ Log(reader.buf, FALSE)
      /\ UNCHANGED <<pc, fresh, victim, half, stage, evfd, workers, text, written, lost, quota>>

SaidPrints ==
  /\ pc = "said" /\ ~reader.in /\ reader.buf # <<>>
  /\ Log(reader.buf, FALSE)
  /\ UNCHANGED <<pc, fresh, victim, half, structs, tab, workers, text, written, lost, astray, quota>>

-----------------------------------------------------------------------------
(* fpm_children_bury and fpm_child_close. *)

Bury(c) ==
  /\ pc = "loop" /\ proc[c] = "dead" /\ stage[c] = "linked"
  /\ pc' = "close" /\ victim' = c /\ half' = "out"
  /\ proc' = [proc EXCEPT ![c] = "none"]
  /\ stage' = [stage EXCEPT ![c] = "closing"]
  /\ UNCHANGED <<fresh, reader, fd, evfd, events, active, tab, wtab, list, std, words, astray, quota>>

(* A stream still open is read for the last time. *)
Fire ==
  /\ pc = "close" /\ fd[victim][half].rd # -1
  /\ CallSaid(victim, half)
  /\ UNCHANGED <<fresh, victim, half, structs, tab, workers, words, astray, quota>>

(* On to stderr, or free the structure and make another child. *)
NextHalf ==
  IF half = "out"
  THEN pc' = "close" /\ half' = "err" /\ UNCHANGED <<victim, stage, fd, evfd, words>>
  ELSE /\ pc' = "make" /\ half' = "out" /\ victim' = NoChild
       /\ stage' = [stage EXCEPT ![victim] = "free"]
       /\ fd' = [fd EXCEPT ![victim] = OfBoth([rd |-> -1, wr |-> -1])]
       /\ evfd' = [evfd EXCEPT ![victim] = OfBoth(-1)]
       /\ lost' = (lost \/ \E s \in Stream :
                     FlattenSeq(told[victim][s]) # FlattenSeq(written[victim][s]))
       /\ text' = [text EXCEPT ![victim] = OfBoth(<<>>)]
       /\ written' = [written EXCEPT ![victim] = OfBoth(<<>>)]
       /\ told' = [told EXCEPT ![victim] = OfBoth(<<>>)]

NotOpen ==
  /\ pc = "close" /\ fd[victim][half].rd = -1
  /\ NextHalf
  /\ UNCHANGED <<fresh, reader, events, active, tab, workers, astray, quota>>

(* The callback returns to the event loop, or to fpm_child_close, which    *)
(* closes what the callback left open.                                     *)
SaidReturns ==
  /\ pc = "said" /\ ~reader.in /\ reader.buf = <<>>
  /\ reader' = NoReader
  /\ IF victim = NoChild
     THEN pc' = "loop" /\ UNCHANGED <<victim, half, stage, fd, evfd, tab, words, astray>>
     ELSE NextHalf /\ Close(tab, {fd[victim][half].rd} \ {-1}, victim)
  /\ UNCHANGED <<fresh, events, active, workers, quota>>

-----------------------------------------------------------------------------
Said  == SaidReads \/ SaidAgain \/ SaidEof \/ SaidPrints \/ SaidReturns
Closing == Fire \/ NotOpen
Make  == MakeEnds \/ \E c \in Child :
           PreparePipes(c) \/ PreparePipesFails(c) \/ Discard(c) \/ Fork(c)
Loop  == Dispatch \/ \E c \in Child : Bury(c) \/ \E s \in Stream : EventSaid(c, s)
Work  == \E c \in Child : \/ WorkerStarts(c) \/ WorkerDies(c)
                          \/ \E s \in Stream : WorkerSays(c, s) \/ WorkerCloses(c, s)

Next == Said \/ Closing \/ Make \/ Loop \/ Work

Spec == Init /\ [][Next]_vars

-----------------------------------------------------------------------------
(* No failure, death or early end of a stream leaves a pipe behind,        *)
(* whatever the order: between two callbacks the master has open what it   *)
(* reads from its children and nothing else; and a worker that has started *)
(* has the write ends of its own pipes at 1 and 2, and holds back nobody's *)
(* end.                                                                    *)
NothingIsLeft ==
  /\ pc = "loop" =>
       \A n \in Fd : tab[n] # NoEnd <=>
         \E c \in Child, s \in Stream : /\ stage[c] = "linked" /\ fd[c][s].rd = n
                                        /\ tab[n] = Rd(c, s)
  /\ \A c \in Child : proc[c] = "ready" =>
       /\ wtab[c] = Empty
       /\ \A s \in Stream : std[c][s] \in {NoEnd, Wr(c, s)}

(* A number is not used after it was closed and handed out again: an event *)
(* that is added or about to be called belongs to a child that exists and  *)
(* reads that child's pipe, and close() is called for descriptors of the   *)
(* child in hand only, though a failed preparation closes its numbers      *)
(* twice.                                                                  *)
NumbersAreCurrent ==
  /\ ~astray
  /\ \A e \in events : /\ stage[e[1]] \in {"linked", "closing"}
                       /\ evfd[e[1]][e[2]] \in Fd
                       /\ tab[evfd[e[1]][e[2]]] = Rd(e[1], e[2])

(* What a worker writes is logged under its name, its stream and in order, *)
(* is still in the pipe or in the buffer; nothing is missing or doubled,   *)
(* not even what it wrote before it died, and after its burial all of it   *)
(* is in the log.                                                          *)
NothingSaidIsLost ==
  ~lost /\ \A c \in Child, s \in Stream :
    FlattenSeq(told[c][s])
      \o (IF reader.child = c /\ reader.stream = s THEN reader.buf ELSE <<>>)
      \o text[c][s]
    = FlattenSeq(written[c][s])

(* A worker that writes whole lines that fit the buffer finds each of them *)
(* in the log as one message, however the reads cut them.                  *)
LinesStayWhole ==
  \A c \in Child, s \in Stream :
    (\A i \in DOMAIN written[c][s] : LET w == written[c][s][i] IN
        Len(w) <= BufSize /\ \A j \in DOMAIN w : w[j] = "nl" <=> j = Len(w))
    => IsPrefix(told[c][s], written[c][s])

(* The log says what the workers said, all of it and line by line: both of *)
(* the above.                                                              *)
OutputIsExact == NothingSaidIsLost /\ LinesStayWhole
=============================================================================
