-------------------------------- MODULE EvEvents --------------------------------
(***************************************************************************)
(* The events the back ends of the event library are asked to watch, and   *)
(* what poll.c, select.c and epoll.c have in common.                       *)
(***************************************************************************)
EXTENDS Integers, Sequences, FiniteSets

CONSTANTS Event,      \* the events of the program
          ev_fd,      \* the descriptor of each event
          ev_events,  \* what it waits for: EV_READ, EV_WRITE or both
          Persist,    \* the events with EV_PERSIST
          Null,       \* a pointer to no event
          Junk        \* memory nothing was written to yet

Dir == {"in", "out"}

ASSUME EventAssumption ==
  /\ IsFiniteSet(Event)
  /\ ev_fd \in [Event -> Nat]
  /\ ev_events \in [Event -> (SUBSET Dir) \ {{}}]
  /\ Persist \subseteq Event
  /\ Null \notin Event /\ Junk \notin Event

Fd == {ev_fd[e] : e \in Event}

(* What a descriptor may be said to be ready for. *)
What == SUBSET (Dir \cup {"hup"})

(* Two events that wait for the same thing of the same descriptor. *)
Rivals(e, f) == ev_fd[e] = ev_fd[f] /\ ev_events[e] \cap ev_events[f] # {}

(* If the file gets closed, both sides are told. *)
Seen(what) == IF "hup" \in what THEN Dir ELSE what \cap Dir

(* b, 2b, 4b ... *)
Doublings(b, n) == LET f[j \in 0..n] == IF j = 0 THEN b ELSE 2 * f[j - 1] IN f

(* The first of them that is at least n. *)
Doubled(b, n) ==
  LET f == Doublings(b, n)
  IN  f[CHOOSE j \in 0..n : f[j] >= n /\ \A k \in 0..(j - 1) : f[k] < n]

(* realloc: the new memory holds v. *)
Longer(s, n, v) == s \o [k \in 1..(n - Len(s)) |-> v]
================================================================================
