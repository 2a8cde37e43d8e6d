-------------------------------- MODULE EvLoop --------------------------------
(***************************************************************************)
(* The event library: event_base_loop of event.c with its heap of timers,  *)
(* its list of active events, and epoll.c below it.  The program uses one  *)
(* base, one priority, timers, and persistent events for reading, and adds *)
(* and deletes events before the loop starts and inside of callbacks.      *)
(* The clock is gettimeofday: an administrator may set it.                 *)
(***************************************************************************)
EXTENDS MinHeap, FiniteSets, SequencesExt

CONSTANTS Timer,      \* events for a time
          Io,         \* events for reading, with EV_PERSIST
          Fd,         \* descriptors
          None,
          Delays,     \* what timers are added for
          Skews,      \* what the clock may be set to show beyond the elapsed time
          MaxTime,    \* bound: time that passes
          MaxCalls    \* bound: calls of the library by the program

ASSUME EvAssumption ==
  /\ Timer \cap Io = {} /\ None \notin Timer \cup Io \cup Fd
  /\ IsFiniteSet(Fd)                            \* an array of epoll.c
  /\ IsFiniteSet(Timer)                         \* structures in memory
  /\ Delays \subseteq Nat \ {0} /\ Skews \subseteq Int
  /\ MaxTime \in Nat /\ MaxCalls \in Nat

Event == Timer \cup Io

VARIABLES
  time,         \* time that really passed
  skew,         \* what the clock shows beyond it
  clock_set,    \* ghost: how an administrator set the clock (once at most)
  event_tv,     \* the time of the last check of the clock
  heap,         \* timeheap; an event is in it when it has EVLIST_TIMEOUT
  reserved,     \* the array of the heap is allocated
  ev_timeout,   \* when a timer is due, by the clock
  inserted,     \* events with EVLIST_INSERTED
  ev_fd,        \* the descriptor of each of them
  evread,       \* fds[fd].evread of epoll.c
  polled,       \* descriptors the kernel's epoll knows
  active,       \* the active queue; events in it have EVLIST_ACTIVE
  event_count,  \* memberships of queues, counted
  gotterm,      \* event_gotterm
  pc,           \* where the loop is
  running,      \* the event whose callback runs
  now,          \* the clock as timeout_process read it
  deadline,     \* when epoll_wait gives up, in elapsed time
  wanted,       \* ghost: events the program added and did not delete; a timer
                \*        until its callback begins
  old,          \* ghost: timers added before the clock was set
  due,          \* ghost: when a timer was meant to run, in elapsed time
  calls

clocks == <<time, skew, clock_set>>
queues == <<heap, reserved, ev_timeout, inserted, ev_fd, evread, polled, active,
            event_count, wanted, due, old>>
loop   == <<event_tv, gotterm, pc, running, now, deadline, calls>>
vars   == <<clocks, queues, loop>>

(* gettime *)
Clock == time + skew

Forever == MaxTime + 1

IsActive(e) == e \in ToSet(active)
InHeap(e)   == e \in Timer /\ heap.idx[e] # NoPlace

One(b) == IF b THEN 1 ELSE 0

TypeOK ==
  /\ time \in 0..MaxTime /\ skew \in Skews \cup {0}
  /\ clock_set \in {"never", "back", "on"}
  /\ event_tv \in Int /\ now \in Int /\ deadline \in Nat
  /\ heap.p \in Seq(Timer) /\ heap.idx \in [Timer -> 0..Cardinality(Timer)]
  /\ reserved \in BOOLEAN
  /\ ev_timeout \in [Timer -> Int] /\ due \in [Timer -> Nat]
  /\ inserted \subseteq Io /\ ev_fd \in [Io -> Fd \cup {None}]
  /\ evread \in [Fd -> Io \cup {None}] /\ polled \subseteq Fd
  /\ active \in Seq(Event) /\ wanted \subseteq Event /\ old \subseteq Timer
  /\ event_count \in Int /\ gotterm \in BOOLEAN
  /\ pc \in {"setup", "top", "next", "wait", "expire", "process", "callback", "left"}
  /\ running \in Event \cup {None}
  /\ calls \in 0..MaxCalls

(* event_init *)
Init ==
  /\ time = 0 /\ skew = 0 /\ clock_set = "never"
  /\ event_tv = Clock /\ now = 0 /\ deadline = 0
  /\ heap = EmptyHeap(Timer) /\ reserved = FALSE
  /\ ev_timeout = [e \in Timer |-> 0] /\ due = [e \in Timer |-> 0]
  /\ inserted = {} /\ ev_fd = [e \in Io |-> None]
  /\ evread = [fd \in Fd |-> None] /\ polled = {}
  /\ active = <<>> /\ event_count = 0 /\ wanted = {} /\ old = {}
  /\ gotterm = FALSE /\ pc = "setup" /\ running = None /\ calls = 0

-----------------------------------------------------------------------------
(* Time passes at any point, also while a callback runs; the kernel may be late
   to wake the loop. *)
Tick ==
  /\ time < MaxTime
  /\ time' = time + 1
  /\ UNCHANGED <<skew, clock_set, queues, loop>>

SetClock ==
  /\ clock_set = "never"
  /\ skew' \in Skews \ {skew}
  /\ clock_set' = IF skew' < skew THEN "back" ELSE "on"
  /\ UNCHANGED <<time, queues, loop>>

-----------------------------------------------------------------------------
(* Calls of the program: before the loop and in callbacks. *)
Calling ==
  /\ pc \in {"setup", "callback"} /\ calls < MaxCalls
  /\ calls' = calls + 1
  /\ UNCHANGED <<clocks, event_tv, pc, running, now, deadline>>

(* Mutant: the timer is added to the time of the last check. *)
AddTimerCached(e, d) ==
  LET outside == IF InHeap(e) THEN Erase(heap, ev_timeout, e) ELSE heap
  IN  /\ Calling
      /\ ev_timeout' = [ev_timeout EXCEPT ![e] = event_tv + d]
      /\ heap' = Push(outside, ev_timeout', e)
      /\ active' = RemoveFirst(active, e)
      /\ event_count' = event_count - One(InHeap(e)) - One(IsActive(e)) + 1
      /\ reserved' = TRUE
      /\ due' = [due EXCEPT ![e] = time + d]
      /\ wanted' = wanted \cup {e}
      /\ old' = IF clock_set = "never" THEN old \cup {e} ELSE old \ {e}
      /\ UNCHANGED <<inserted, ev_fd, evread, polled, gotterm>>

(* event_add of a timer: a timer in the heap is moved, one that expired and
   waits for its callback is taken back *)
AddTimer(e, d) ==
  LET outside == IF InHeap(e) THEN Erase(heap, ev_timeout, e) ELSE heap
  IN  /\ Calling
      /\ ev_timeout' = [ev_timeout EXCEPT ![e] = Clock + d]
      /\ heap' = Push(outside, ev_timeout', e)
      /\ active' = RemoveFirst(active, e)
      /\ event_count' = event_count - One(InHeap(e)) - One(IsActive(e)) + 1
      /\ reserved' = TRUE
      /\ due' = [due EXCEPT ![e] = time + d]
      /\ wanted' = wanted \cup {e}
      /\ old' = IF clock_set = "never" THEN old \cup {e} ELSE old \ {e}
      /\ UNCHANGED <<inserted, ev_fd, evread, polled, gotterm>>

(* the array of the heap cannot be allocated: later it is never too short for
   the timers of the program *)
AddTimerFails(e) ==
  /\ Calling
  /\ ~ reserved
  /\ UNCHANGED <<queues, gotterm>>

(* fpm_event_add: the program opens a descriptor and registers it; when
   epoll_ctl fails the event stays in the queue *)
AddIo(e, fd) ==
  /\ Calling
  /\ e \notin inserted /\ ~ IsActive(e) /\ \A f \in inserted : ev_fd[f] # fd
  /\ inserted' = inserted \cup {e}
  /\ ev_fd' = [ev_fd EXCEPT ![e] = fd]
  /\ event_count' = event_count + 1
  /\ \/ evread' = [evread EXCEPT ![fd] = e] /\ polled' = polled \cup {fd}
     \/ UNCHANGED <<evread, polled>>
  /\ wanted' = wanted \cup {e}
  /\ UNCHANGED <<heap, reserved, ev_timeout, active, due, old, gotterm>>

(* Mutant: an event that waits for its callback stays active. *)
DelLater(e) ==
  /\ Calling
  /\ e \in wanted \cup {running}
  /\ heap' = IF InHeap(e) THEN Erase(heap, ev_timeout, e) ELSE heap
  /\ inserted' = inserted \ {e}
  /\ event_count' = event_count - One(InHeap(e)) - One(e \in inserted)
  /\ evread' = [fd \in Fd |-> IF evread[fd] = e THEN None ELSE evread[fd]]
  /\ polled' = polled \ {ev_fd[x] : x \in {e} \cap inserted}
  /\ wanted' = wanted \ {e}
  /\ UNCHANGED <<reserved, ev_timeout, ev_fd, active, due, old, gotterm>>

(* event_del takes an event off every queue it is on; epoll_del forgets it *)
Del(e) ==
  /\ Calling
  /\ e \in wanted \cup {running}
  /\ heap' = IF InHeap(e) THEN Erase(heap, ev_timeout, e) ELSE heap
  /\ active' = RemoveFirst(active, e)
  /\ inserted' = inserted \ {e}
  /\ event_count' = event_count - One(InHeap(e)) - One(IsActive(e))
                                - One(e \in inserted)
  /\ \/ /\ e \in inserted
        /\ evread' = [evread EXCEPT ![ev_fd[e]] = None]
        /\ polled' = polled \ {ev_fd[e]}
     \/ /\ e \notin inserted
        /\ UNCHANGED <<evread, polled>>
  /\ wanted' = wanted \ {e}
  /\ UNCHANGED <<reserved, ev_timeout, ev_fd, due, old, gotterm>>

(* event_loopexit: a worker, just forked inside of a callback of the master,
   leaves the loop it inherited *)
LoopExit ==
  /\ Calling
  /\ pc = "callback"
  /\ gotterm' = TRUE
  /\ UNCHANGED queues

Enter ==
  /\ pc = "setup"
  /\ pc' = "top"
  /\ UNCHANGED <<clocks, queues, event_tv, gotterm, running, now, deadline, calls>>

-----------------------------------------------------------------------------
(* The turns of event_base_loop. *)
LoopExits ==
  /\ pc = "top" /\ gotterm
  /\ gotterm' = FALSE /\ pc' = "left"
  /\ UNCHANGED <<clocks, queues, event_tv, running, now, deadline, calls>>

(* Mutant: the first timer is left out. *)
CorrectRest ==
  /\ pc = "top" /\ ~ gotterm
  /\ pc' = "next"
  /\ \/ /\ Clock >= event_tv
        /\ event_tv' = Clock
        /\ UNCHANGED ev_timeout
     \/ /\ Clock < event_tv
        /\ ev_timeout' = [e \in Timer |-> IF InHeap(e) /\ heap.idx[e] # 1
                                          THEN ev_timeout[e] - (event_tv - Clock)
                                          ELSE ev_timeout[e]]
        /\ UNCHANGED event_tv
  /\ UNCHANGED <<clocks, heap, reserved, inserted, ev_fd, evread, polled, active,
                 event_count, wanted, due, old, gotterm, running, now, deadline, calls>>

(* timeout_correct: when the clock shows less than at the last check, every
   timer is brought forward by as much *)
Correct ==
  /\ pc = "top" /\ ~ gotterm
  /\ pc' = "next"
  /\ \/ /\ Clock >= event_tv
        /\ event_tv' = Clock
        /\ UNCHANGED ev_timeout
     \/ /\ Clock < event_tv
        /\ ev_timeout' = [e \in Timer |-> IF InHeap(e)
                                          THEN ev_timeout[e] - (event_tv - Clock)
                                          ELSE ev_timeout[e]]
        /\ UNCHANGED event_tv
  /\ UNCHANGED <<clocks, heap, reserved, inserted, ev_fd, evread, polled, active,
                 event_count, wanted, due, old, gotterm, running, now, deadline, calls>>

(* Mutant: the time to sleep counts from the last check. *)
SleepStale ==
  IF active # <<>> THEN time
  ELSE IF heap.p = <<>> THEN Forever
  ELSE time + (IF ev_timeout[heap.p[1]] <= event_tv THEN 0
               ELSE ev_timeout[heap.p[1]] - event_tv)

(* timeout_next: how long epoll_wait may sleep; not at all with active events *)
Sleep ==
  IF active # <<>> THEN time
  ELSE IF heap.p = <<>> THEN Forever
  ELSE time + (IF ev_timeout[heap.p[1]] <= Clock THEN 0
               ELSE ev_timeout[heap.p[1]] - Clock)

GoToSleep ==
  /\ pc = "next" /\ event_count > 0
  /\ deadline' = Sleep /\ pc' = "wait"
  /\ UNCHANGED <<clocks, queues, event_tv, gotterm, running, now, calls>>

(* event_haveevents: without events the loop ends *)
NoEvents ==
  /\ pc = "next" /\ event_count <= 0
  /\ pc' = "left"
  /\ UNCHANGED <<clocks, queues, event_tv, gotterm, running, now, deadline, calls>>

(* event_active *)
Activated(s, e) == IF e \in ToSet(s) THEN s ELSE Append(s, e)

(* epoll_dispatch: some polled descriptors are readable, in any order, or none,
   when the time is over or a signal interrupts the wait; their events become
   active; then timeout_process reads the clock *)
Dispatch ==
  /\ pc = "wait"
  /\ \E readable \in SUBSET ({evread[fd] : fd \in polled} \ ({None} \cup ToSet(active))) :
       \E order \in SetToSeqs(readable) :
         /\ active' = active \o order
         /\ event_count' = event_count + Len(order)
  /\ now' = Clock /\ deadline' = 0 /\ pc' = "expire"
  /\ UNCHANGED <<clocks, heap, reserved, ev_timeout, inserted, ev_fd, evread, polled,
                 wanted, due, old, event_tv, gotterm, running, calls>>

TopIsDue == heap.p # <<>> /\ ev_timeout[heap.p[1]] <= now

(* one turn of the loop of timeout_process: event_del, then event_active *)
Expire ==
  /\ pc = "expire"
  /\ TopIsDue
  /\ LET e == heap.p[1]
     IN  /\ heap' = Erase(heap, ev_timeout, e)
         /\ active' = Activated(RemoveFirst(active, e), e)
         /\ event_count' = event_count - One(IsActive(e))
  /\ UNCHANGED <<clocks, reserved, ev_timeout, inserted, ev_fd, evread, polled, wanted,
                 due, old, loop>>

NoneExpires ==
  /\ pc = "expire"
  /\ ~ TopIsDue
  /\ now' = 0 /\ pc' = "process"
  /\ UNCHANGED <<clocks, queues, event_tv, gotterm, running, deadline, calls>>

(* event_process_active takes the next event and calls it *)
Process ==
  /\ pc = "process" /\ active # <<>>
  /\ running' = Head(active)
  /\ active' = Tail(active)
  /\ event_count' = event_count - 1
  /\ wanted' = wanted \ ({running'} \cap Timer)
  /\ pc' = "callback"
  /\ UNCHANGED <<clocks, heap, reserved, ev_timeout, inserted, ev_fd, evread, polled,
                 due, old, event_tv, gotterm, now, deadline, calls>>

(* Mutant: event_gotterm is only looked at on the next turn of the loop. *)
ReturnOn ==
  /\ pc = "callback"
  /\ pc' = "process"
  /\ running' = None
  /\ UNCHANGED <<clocks, queues, event_tv, gotterm, now, deadline, calls>>

(* the callback returns: with event_gotterm no other one is called *)
Return ==
  /\ pc = "callback"
  /\ pc' = IF gotterm THEN "top" ELSE "process"
  /\ running' = None
  /\ UNCHANGED <<clocks, queues, event_tv, gotterm, now, deadline, calls>>

Processed ==
  /\ pc = "process" /\ active = <<>>
  /\ pc' = "top"
  /\ UNCHANGED <<clocks, queues, event_tv, gotterm, running, now, deadline, calls>>

Next ==
  \/ Tick \/ SetClock
  \/ \E e \in Timer : AddTimerFails(e) \/ \E d \in Delays : AddTimer(e, d)
  \/ \E e \in Io, fd \in Fd : AddIo(e, fd)
  \/ \E e \in Event : Del(e)
  \/ LoopExit \/ Enter
  \/ LoopExits \/ Correct \/ GoToSleep \/ NoEvents
  \/ Dispatch \/ Expire \/ NoneExpires \/ Process \/ Return \/ Processed

Spec == Init /\ [][Next]_vars

-----------------------------------------------------------------------------
(* Deletes, additions again and expirations in any order leave the queues with
   the events the program wants and nothing else: a timer is in the heap until it
   expires and then active, an event for reading stays registered, its descriptor
   leads to it, and event_count is the sum (event_queue_insert and _remove); and the
   heap stays a heap, even when all timers in it are brought forward because the
   clock was set back (timeout_correct).  No event that was deleted is active, and so
   none is called: events of a child are part of its structure, which is freed then. *)
QueuesAreExact ==
  /\ Holds(heap, {e \in wanted \cap Timer : ~ IsActive(e)})
  /\ inserted = wanted \cap Io
  /\ ToSet(active) \subseteq wanted /\ Cardinality(ToSet(active)) = Len(active)
  /\ \A fd \in Fd : evread[fd] # None => evread[fd] \in inserted /\ ev_fd[evread[fd]] = fd
  /\ event_count = Len(heap.p) + Len(active) + Cardinality(inserted)
  /\ Ordered(heap, ev_timeout)

ActiveTimers == {e \in Timer : IsActive(e)}

(* No timer is called before its time: a worker gets the time to react that it is
   promised before it is sent the next signal. *)
NotEarly == clock_set = "never" => \A e \in ActiveTimers : due[e] <= time

(* What timeout_correct is there for: a timer added before the clock was set back
   is not called early either. *)
NotEarlyWhenSetBack ==
  clock_set # "on" => \A e \in ActiveTimers \cap old : due[e] <= time

(* The loop does not sleep with an event to call, nor beyond the time of a timer,
   though it reads the clock after the last check again (timeout_next). *)
OverdueIsNotSleptOn ==
  clock_set # "back" /\ pc = "wait" /\ deadline > time =>
    /\ active = <<>>
    /\ \A e \in Timer : InHeap(e) => deadline <= due[e]

(* After event_loopexit no other callback runs: a worker forked inside of a callback
   does not serve the pipes and timers of the master, which it has inherited. *)
ExitIsFinal == [][gotterm /\ pc' = "callback" => pc = "callback"]_vars
=============================================================================
