-------------------------------- MODULE EvSelect --------------------------------
(***************************************************************************)
(* select.c: the structure selectop and what select_add, select_del and    *)
(* one turn of the loop of select_dispatch make of it.  fdset holds        *)
(* event_readset_in and event_writeset_in, out what select leaves of them, *)
(* by_fd event_r_by_fd and event_w_by_fd.  event_fdsz is counted in words  *)
(* of an fd_set; an allocation that fails leaves it, and so all that       *)
(* counts, as it was.                                                      *)
(***************************************************************************)
EXTENDS EvEvents

CONSTANTS NFDBITS,    \* bits of a word of an fd_set: 64
          SelectMin   \* descriptors there is room for at first: 32

ASSUME SelectAssumption == NFDBITS \in Nat \ {0} /\ SelectMin \in Nat

Words(n) == (n + NFDBITS - 1) \div NFDBITS

(* Mutant: the pointers are cleared from the start. *)
ResizedAnew(sop, fdsz) ==
  [sop EXCEPT
    !.event_fdsz = fdsz,
    !.by_fd = [d \in Dir |-> [k \in 1..(fdsz * NFDBITS) |-> Null]]]

(* select_resize *)
Resized(sop, fdsz) ==
  [sop EXCEPT
    !.event_fdsz = fdsz,
    !.by_fd = [d \in Dir |-> Longer(sop.by_fd[d], fdsz * NFDBITS, Null)]]

SelectInit ==
  Resized([event_fds |-> 0, event_fdsz |-> 0,
           fdset |-> [d \in Dir |-> {}], out |-> [d \in Dir |-> {}],
           by_fd |-> [d \in Dir |-> <<>>]],
          Words(SelectMin + 1))

-----------------------------------------------------------------------------
(* Mutant: the descriptor itself is not counted. *)
WordsForFewer(sop, fd) ==
  LET n == IF sop.event_fdsz < 1 THEN 1 ELSE sop.event_fdsz
  IN  IF sop.event_fds < fd THEN Doubled(n, Words(fd)) ELSE sop.event_fdsz

(* select_add *)
WordsFor(sop, fd) ==
  LET n == IF sop.event_fdsz < 1 THEN 1 ELSE sop.event_fdsz
  IN  IF sop.event_fds < fd THEN Doubled(n, Words(fd + 1)) ELSE sop.event_fdsz

SelectFailures(sop, e) ==
  IF WordsFor(sop, ev_fd[e]) # sop.event_fdsz THEN {sop} ELSE {}

SelectAdded(before, e) ==
  LET fd  == ev_fd[e]
      n   == WordsFor(before, fd)
      sop == IF n = before.event_fdsz THEN before ELSE Resized(before, n)
  IN  [sop EXCEPT
        !.event_fds = IF @ < fd THEN fd ELSE @,
        !.fdset = [d \in Dir |-> IF d \in ev_events[e] THEN @[d] \cup {fd} ELSE @[d]],
        !.by_fd = [d \in Dir |-> IF d \in ev_events[e] THEN [@[d] EXCEPT ![fd + 1] = e]
                                 ELSE @[d]]]

(* select_del *)
SelectDeleted(sop, e) ==
  LET fd == ev_fd[e]
  IN  IF sop.event_fds < fd THEN sop
      ELSE [sop EXCEPT
             !.fdset = [d \in Dir |-> IF d \in ev_events[e] THEN @[d] \ {fd} ELSE @[d]],
             !.by_fd = [d \in Dir |-> IF d \in ev_events[e]
                                      THEN [@[d] EXCEPT ![fd + 1] = Null]
                                      ELSE @[d]]]

-----------------------------------------------------------------------------
(* select_dispatch: the kernel leaves the ready descriptors in the sets, then the
   loop goes through all descriptors up to the highest; its places are theirs,
   counted from 1. *)
SelectWaited(sop, ready) ==
  [sop EXCEPT
    !.out = [d \in Dir |-> {fd \in sop.fdset[d] : d \in Seen(ready[fd])}]]

SelectPlaces(sop) == sop.event_fds + 1

SelectFound(sop, i, d) == IF i - 1 \in sop.out[d] THEN sop.by_fd[d][i] ELSE Null

(* The events the sets and arrays lead to. *)
SelectWatched(sop, e) ==
  /\ ev_fd[e] <= sop.event_fds
  /\ \A d \in ev_events[e] : ev_fd[e] \in sop.fdset[d] /\ sop.by_fd[d][ev_fd[e] + 1] = e
================================================================================
