-------------------------------- MODULE EvPoll --------------------------------
(***************************************************************************)
(* poll.c: the structure pollop and what poll_add, poll_del and one turn   *)
(* of the loop of poll_dispatch make of it.  Its arrays are sequences as   *)
(* long as their memory; idxplus1_by_fd counts places from 1, as they do.  *)
(* back holds event_r_back and event_w_back.  Memory that nothing was      *)
(* written to yet is Junk.                                                 *)
(***************************************************************************)
EXTENDS EvEvents

CONSTANT PollMin   \* the least size of an array: 32

Pollfd == [fd : Fd, events : SUBSET Dir, revents : What]   \* struct pollfd

ASSUME PollAssumption == PollMin \in Nat \ {0} /\ Junk \notin Pollfd

PollInit ==
  [event_set |-> <<>>, back |-> [d \in Dir |-> <<>>], idxplus1_by_fd |-> <<>>,
   nfds |-> 0, event_count |-> 0]

-----------------------------------------------------------------------------
(* poll_add *)
IsFull(pop) == pop.nfds + 1 >= pop.event_count
MoreEvents(pop) ==
  IF pop.event_count < PollMin THEN PollMin ELSE 2 * pop.event_count

IsBeyond(pop, fd) == fd >= Len(pop.idxplus1_by_fd)
MoreFds(pop, fd) ==
  LET n == Len(pop.idxplus1_by_fd)
  IN  Doubled(IF n < PollMin THEN PollMin ELSE 2 * n, fd + 1)

(* The memory after the first k of the three allocations succeeded. *)
WithEvents(pop, k) ==
  LET n == MoreEvents(pop)
  IN  [pop EXCEPT
        !.event_set   = IF k >= 1 THEN Longer(@, n, Junk) ELSE @,
        !.back["in"]  = IF k >= 2 THEN Longer(@, n, Junk) ELSE @,
        !.back["out"] = IF k >= 3 THEN Longer(@, n, Junk) ELSE @,
        !.event_count = IF k >= 3 THEN n ELSE @]

Roomy(pop) == IF IsFull(pop) THEN WithEvents(pop, 3) ELSE pop

WithFd(pop, fd) ==
  IF IsBeyond(pop, fd)
  THEN [pop EXCEPT !.idxplus1_by_fd = Longer(@, MoreFds(pop, fd), 0)]
  ELSE pop

(* What is left when an allocation fails. *)
PollFailures(pop, e) ==
  {WithEvents(pop, k) : k \in IF IsFull(pop) THEN 0..2 ELSE {}}
    \cup (IF IsBeyond(pop, ev_fd[e]) THEN {Roomy(pop)} ELSE {})

PollAdded(before, e) ==
  LET fd    == ev_fd[e]
      pop   == WithFd(Roomy(before), fd)
      known == pop.idxplus1_by_fd[fd + 1]
      i     == IF known # 0 THEN known ELSE pop.nfds + 1
      asked == IF known # 0 THEN pop.event_set[i].events ELSE {}
      kept(d) == IF known # 0 THEN pop.back[d][i] ELSE Null
  IN  [pop EXCEPT
        !.nfds = IF known # 0 THEN @ ELSE i,
        !.event_set[i] = [fd |-> fd, events |-> asked \cup ev_events[e], revents |-> {}],
        !.back["in"][i]  = IF "in" \in ev_events[e] THEN e ELSE kept("in"),
        !.back["out"][i] = IF "out" \in ev_events[e] THEN e ELSE kept("out"),
        !.idxplus1_by_fd[fd + 1] = i]

-----------------------------------------------------------------------------
(* poll_del: does anybody still want to read or write? *)
Cleared(pop, i, dirs) ==
  [pop EXCEPT
    !.event_set[i].events = @ \ dirs,
    !.back["in"][i]  = IF "in" \in dirs THEN Null ELSE @,
    !.back["out"][i] = IF "out" \in dirs THEN Null ELSE @]

(* Mutant: the place that moved is not found any more. *)
ShiftedUnseen(pop, i) ==
  LET last == pop.nfds
      gone == [pop EXCEPT !.idxplus1_by_fd[pop.event_set[i].fd + 1] = 0,
                          !.nfds = last - 1]
  IN  IF i = last THEN gone
      ELSE [gone EXCEPT
             !.event_set[i]   = pop.event_set[last],
             !.back["in"][i]  = pop.back["in"][last],
             !.back["out"][i] = pop.back["out"][last]]

(* Nobody does: the last place moves into the one that became free. *)
Shifted(pop, i) ==
  LET last == pop.nfds
      gone == [pop EXCEPT !.idxplus1_by_fd[pop.event_set[i].fd + 1] = 0,
                          !.nfds = last - 1]
  IN  IF i = last THEN gone
      ELSE [gone EXCEPT
             !.event_set[i]   = pop.event_set[last],
             !.back["in"][i]  = pop.back["in"][last],
             !.back["out"][i] = pop.back["out"][last],
             !.idxplus1_by_fd[pop.event_set[last].fd + 1] = i]

(* Nothing may be there: the descriptor must be one of the table's. *)
PollFinds(pop, e) == ev_fd[e] < Len(pop.idxplus1_by_fd)

PollDeleted(pop, e) ==
  LET i    == pop.idxplus1_by_fd[ev_fd[e] + 1]
      left == Cleared(pop, i, ev_events[e])
  IN  IF i = 0 THEN pop
      ELSE IF left.event_set[i].events # {} THEN left
      ELSE Shifted(left, i)

-----------------------------------------------------------------------------
(* poll_dispatch: the kernel fills in revents, then the loop goes through as many
   places as there were when it was called. *)
PollWaited(pop, ready) ==
  [pop EXCEPT !.event_set = [k \in DOMAIN @ |->
     LET pfd == pop.event_set[k]
     IN  IF k > pop.nfds THEN pfd
         ELSE [pfd EXCEPT !.revents = ready[pfd.fd] \cap (pfd.events \cup {"hup"})]]]

(* What a dispatch leaves behind is written again before it is read. *)
PollForgot(pop) ==
  [pop EXCEPT
    !.event_set = [k \in DOMAIN @ |-> IF k <= pop.nfds THEN [pop.event_set[k] EXCEPT !.revents = {}]
                                       ELSE Junk],
    !.back = [d \in Dir |-> [k \in DOMAIN pop.back[d] |->
                IF k <= pop.nfds THEN pop.back[d][k] ELSE Junk]]]

PollPlaces(pop) == pop.nfds

PollFound(pop, i, d) ==
  IF d \in Seen(pop.event_set[i].revents) THEN pop.back[d][i] ELSE Null

(* The events the arrays lead to. *)
PollWatched(pop, e) ==
  /\ ev_fd[e] < Len(pop.idxplus1_by_fd)
  /\ LET i == pop.idxplus1_by_fd[ev_fd[e] + 1]
     IN  /\ i \in 1..pop.nfds
         /\ pop.event_set[i].fd = ev_fd[e]
         /\ ev_events[e] \subseteq pop.event_set[i].events
         /\ \A d \in ev_events[e] : pop.back[d][i] = e
================================================================================
