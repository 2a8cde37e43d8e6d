-------------------------------- MODULE EvDemux --------------------------------
(***************************************************************************)
(* What a back end of the event library promises to event.c, whichever of  *)
(* epoll.c, poll.c and select.c it is: it watches the events it was given, *)
(* a dispatch reports each event whose descriptor is ready for what the    *)
(* event wants exactly once, and an event that is not persistent is no     *)
(* longer watched when it is reported.                                     *)
(***************************************************************************)
EXTENDS EvEvents

VARIABLES watched,      \* events the back end looks after
          reported,     \* what a dispatch found and has not handed over yet
          dispatching,  \* a dispatch is under way
          active        \* what each active event was activated for

vars == <<watched, reported, dispatching, active>>

Nothing == [e \in Event |-> {}]

Init ==
  /\ watched = {} /\ reported = Nothing
  /\ dispatching = FALSE /\ active = Nothing

Add(e) ==
  /\ ~dispatching
  /\ e \notin watched /\ active[e] = {} /\ \A f \in watched : ~Rivals(e, f)
  /\ watched' = watched \cup {e}
  /\ UNCHANGED <<reported, dispatching, active>>

Del(e) ==
  /\ ~dispatching
  /\ watched' = watched \ {e}
  /\ active' = [active EXCEPT ![e] = {}]
  /\ UNCHANGED <<reported, dispatching>>

(* The kernel says what the descriptors are ready for. *)
Wait ==
  /\ ~dispatching
  /\ dispatching' = TRUE
  /\ \E ready \in [Fd -> SUBSET Dir] :
       reported' = [e \in Event |-> IF e \in watched
                                    THEN ev_events[e] \cap ready[ev_fd[e]] ELSE {}]
  /\ UNCHANGED <<watched, active>>

(* Some of the reported events become active. *)
Report ==
  /\ dispatching
  /\ \E es \in (SUBSET {e \in Event : reported[e] # {}}) \ {{}} :
       /\ active' = [e \in Event |-> IF e \in es THEN active[e] \cup reported[e]
                                     ELSE active[e]]
       /\ reported' = [e \in Event |-> IF e \in es THEN {} ELSE reported[e]]
       /\ watched' = watched \ (es \ Persist)
  /\ UNCHANGED dispatching

(* A dispatch ends when everything it found is handed over. *)
Done ==
  /\ dispatching /\ reported = Nothing
  /\ dispatching' = FALSE
  /\ UNCHANGED <<watched, reported, active>>

Run(e) ==
  /\ ~dispatching
  /\ active[e] # {}
  /\ active' = [active EXCEPT ![e] = {}]
  /\ UNCHANGED <<watched, reported, dispatching>>

Next ==
  \/ \E e \in Event : Add(e) \/ Del(e) \/ Run(e)
  \/ Wait \/ Report \/ Done

Spec == Init /\ [][Next]_vars
================================================================================
