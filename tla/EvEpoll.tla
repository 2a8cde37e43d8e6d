-------------------------------- MODULE EvEpoll --------------------------------
(***************************************************************************)
(* epoll.c: the structure epollop, what epoll_add, epoll_del and one turn  *)
(* of the loop of epoll_dispatch make of it, and what the kernel was told. *)
(* interest is the kernel's: what it watches each descriptor for.          *)
(***************************************************************************)
EXTENDS EvEvents

CONSTANT EpollFiles   \* room in the array at first: the limit of open files less one

(* epoll_add asks for room when fd >= nfds, but epoll_recalc makes some only for
   fd > nfds, and stops doubling at fd: behind an array of the size of a descriptor
   the code writes to foreign memory.  The model has no such descriptors. *)
ASSUME EpollAssumption ==
  /\ EpollFiles \in Nat \ {0}
  /\ \A e \in Event : \A j \in 0..ev_fd[e] : ev_fd[e] # Doublings(EpollFiles, ev_fd[e])[j]

NoEvents == [d \in Dir |-> Null]

EpollInit ==
  [fds |-> [k \in 1..EpollFiles |-> NoEvents], events |-> <<>>,
   interest |-> [fd \in Fd |-> {}]]

(* epoll_ctl adds what it does not know and changes or removes what it knows. *)
Accepts(ep, op, fd) == (op = "ADD") = (ep.interest[fd] = {})

Told(ep, op, fd, mask) ==
  IF Accepts(ep, op, fd)
  THEN [ep EXCEPT !.interest[fd] = IF op = "DEL" THEN {} ELSE mask]
  ELSE ep

-----------------------------------------------------------------------------
(* epoll_recalc *)
IsShort(ep, fd) == fd > Len(ep.fds)

EpollRoomy(ep, fd) ==
  IF IsShort(ep, fd)
  THEN [ep EXCEPT !.fds = Longer(@, Doubled(Len(@), fd), NoEvents)]
  ELSE ep

Known(ep, fd) == {d \in Dir : ep.fds[fd + 1][d] # Null}

(* epoll_add.  The kernel may refuse for want of memory, too. *)
EpollFailures(ep, e) ==
  {EpollRoomy(ep, ev_fd[e])} \cup (IF IsShort(ep, ev_fd[e]) THEN {ep} ELSE {})

EpollAdded(before, e) ==
  LET fd == ev_fd[e]
      ep == EpollRoomy(before, fd)
      op == IF Known(ep, fd) # {} THEN "MOD" ELSE "ADD"
  IN  IF ~Accepts(ep, op, fd) THEN ep
      ELSE [Told(ep, op, fd, Known(ep, fd) \cup ev_events[e]) EXCEPT
             !.fds[fd + 1] = [d \in Dir |-> IF d \in ev_events[e] THEN e ELSE @[d]]]

(* Mutant: the descriptor goes with either of its events. *)
EpollDeletedWhole(ep, e) ==
  LET fd == ev_fd[e]
  IN  IF fd >= Len(ep.fds) THEN ep
      ELSE Told([ep EXCEPT !.fds[fd + 1] =
                   [d \in Dir |-> IF d \in ev_events[e] THEN Null ELSE @[d]]],
                "DEL", fd, {})

-----------------------------------------------------------------------------
(* epoll_del: when only one of the two is given up, the other one stays. *)
EpollDeleted(ep, e) ==
  LET fd   == ev_fd[e]
      rest == Known(ep, fd) \ ev_events[e]
      kept == IF ev_events[e] = Dir THEN {} ELSE rest
  IN  IF fd >= Len(ep.fds) THEN ep
      ELSE Told([ep EXCEPT !.fds[fd + 1] = [d \in Dir |-> IF d \in kept THEN @[d] ELSE Null]],
                IF kept = {} THEN "DEL" ELSE "MOD", fd, kept)

-----------------------------------------------------------------------------
(* epoll_dispatch: the kernel returns descriptors in any order, as many as there is
   room for; the loop looks at the events they have when their turn comes. *)
Ready(ep, ready, fd) == ready[fd] \cap (ep.interest[fd] \cup {"hup"})

EpollWaited(ep, ready, order) ==
  [ep EXCEPT !.events = [i \in DOMAIN order |->
     [fd |-> order[i], what |-> Ready(ep, ready, order[i])]]]

EpollPlaces(ep) == Len(ep.events)

EpollFound(ep, i, d) ==
  IF d \in Seen(ep.events[i].what) THEN ep.fds[ep.events[i].fd + 1][d] ELSE Null

(* The events the array leads to and the kernel knows of. *)
EpollWatched(ep, e) ==
  /\ ev_fd[e] < Len(ep.fds)
  /\ ev_events[e] \subseteq ep.interest[ev_fd[e]]
  /\ \A d \in ev_events[e] : ep.fds[ev_fd[e] + 1][d] = e
================================================================================
