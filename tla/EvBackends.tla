------------------------------- MODULE EvBackends -------------------------------
(***************************************************************************)
(* event.c above its back ends.  event_init takes the first of epoll, poll *)
(* and select that starts: each can be ruled out by an environment         *)
(* variable, and epoll by the kernel.  From then on event_add, event_del   *)
(* and the dispatch of the loop call it through struct eventop.            *)
(*                                                                         *)
(* A dispatch is a loop over places: each turn deletes the events that are *)
(* not persistent and makes the ones found active, which moves what later  *)
(* turns are to look at.  Callbacks run, and the program adds and deletes, *)
(* only between dispatches.                                                *)
(***************************************************************************)
EXTENDS EvPoll, EvSelect, EvEpoll, SequencesExt

VARIABLES
  evsel,     \* the back end
  evbase,    \* its structure
  inserted,  \* events with EVLIST_INSERTED
  active,    \* what the events with EVLIST_ACTIVE were activated for (ev_res)
  at, upto   \* the place whose turn it is in a dispatch, and the last one

vars == <<evsel, evbase, inserted, active, at, upto>>

(* What the kernel may say of a descriptor. *)
Conditions == (SUBSET Dir) \cup {{"hup"}}

-----------------------------------------------------------------------------
(* struct eventop *)
Failures(e) ==
  CASE evsel = "poll"   -> PollFailures(evbase, e)
    [] evsel = "select" -> SelectFailures(evbase, e)
    [] evsel = "epoll"  -> EpollFailures(evbase, e)

Added(e) ==
  CASE evsel = "poll"   -> PollAdded(evbase, e)
    [] evsel = "select" -> SelectAdded(evbase, e)
    [] evsel = "epoll"  -> EpollAdded(evbase, e)

Deleted(base, e) ==
  CASE evsel = "poll"   -> PollDeleted(base, e)
    [] evsel = "select" -> SelectDeleted(base, e)
    [] evsel = "epoll"  -> EpollDeleted(base, e)

Waited ==
  LET all == [Fd -> Conditions]
  IN  CASE evsel = "poll"   -> {PollWaited(evbase, ready) : ready \in all}
        [] evsel = "select" -> {SelectWaited(evbase, ready) : ready \in all}
        [] evsel = "epoll"  ->
             UNION {{EpollWaited(evbase, ready, order) :
                       order \in SetToSeqs({fd \in Fd : evbase.interest[fd] # {}
                                             /\ Ready(evbase, ready, fd) # {}})} :
                    ready \in all}

Places(base) ==
  CASE evsel = "poll"   -> PollPlaces(base)
    [] evsel = "select" -> SelectPlaces(base)
    [] evsel = "epoll"  -> EpollPlaces(base)

Found(i, d) ==
  CASE evsel = "poll"   -> PollFound(evbase, i, d)
    [] evsel = "select" -> SelectFound(evbase, i, d)
    [] evsel = "epoll"  -> EpollFound(evbase, i, d)

Forgot ==
  CASE evsel = "poll"   -> PollForgot(evbase)
    [] evsel = "select" -> [evbase EXCEPT !.out = [d \in Dir |-> {}]]
    [] evsel = "epoll"  -> [evbase EXCEPT !.events = <<>>]

Watched(e) ==
  CASE evsel = "poll"   -> PollWatched(evbase, e)
    [] evsel = "select" -> SelectWatched(evbase, e)
    [] evsel = "epoll"  -> EpollWatched(evbase, e)

-----------------------------------------------------------------------------
(* event_init, with any of the back ends ruled out *)
Init ==
  /\ \/ evsel = "epoll" /\ evbase = EpollInit
     \/ evsel = "poll" /\ evbase = PollInit
     \/ evsel = "select" /\ evbase = SelectInit
  /\ inserted = {} /\ active = [e \in Event |-> {}]
  /\ at = 0 /\ upto = 0

InLoop == at # 0

(* event_add.  An event that is inserted already, or that waits for its callback,
   is left alone.  The program never watches one side of a descriptor twice.  When
   epoll_recalc moves its array the kernel keeps the old addresses of what it already
   watches; such an addition is left out of the model. *)
Adds(e) ==
  /\ ~InLoop
  /\ e \notin inserted /\ active[e] = {}
  /\ \A f \in inserted : ~Rivals(e, f)
  /\ evsel = "epoll" /\ IsShort(evbase, ev_fd[e]) => \A fd \in Fd : evbase.interest[fd] = {}
  /\ inserted' = inserted \cup {e}
  /\ UNCHANGED <<evsel, active, at, upto>>

Add(e) ==
  /\ Adds(e)
  /\ evbase' = Added(e)

(* The back end has no memory: the event stays in the list of inserted events. *)
AddFails(e) ==
  /\ Adds(e)
  /\ evbase' \in Failures(e)

(* event_del of an event that is inserted or active, also of one whose addition
   failed; poll_del would then look behind its table when it is too short, which the
   model leaves out. *)
Del(e) ==
  /\ ~InLoop
  /\ e \in inserted \/ active[e] # {}
  /\ evsel = "poll" /\ e \in inserted => PollFinds(evbase, e)
  /\ inserted' = inserted \ {e}
  /\ active' = [active EXCEPT ![e] = {}]
  /\ evbase' = IF e \in inserted THEN Deleted(evbase, e) ELSE evbase
  /\ UNCHANGED <<evsel, at, upto>>

(* dispatch: the kernel is asked, when all callbacks were called. *)
Wait ==
  /\ ~InLoop
  /\ \A e \in Event : active[e] = {}
  /\ evbase' \in Waited
  /\ at' = 1
  /\ upto' = Places(evbase')
  /\ UNCHANGED <<evsel, inserted, active>>

(* The events of a place, with what they are activated for. *)
Here == {Found(at, d) : d \in Dir} \ {Null}
Res(e) == {d \in Dir : Found(at, d) = e}

(* event_del of those that are not persistent, the reader first. *)
WithoutRead ==
  LET r == Found(at, "in")
  IN  IF r \in Event \ Persist THEN Deleted(evbase, r) ELSE evbase

WithoutBoth ==
  LET w == Found(at, "out")
  IN  IF w \in Event \ Persist /\ w # Found(at, "in")
      THEN Deleted(WithoutRead, w) ELSE WithoutRead

(* One turn of the loop of dispatch. *)
Turn ==
  /\ InLoop /\ at <= upto
  /\ evbase' = WithoutBoth
  /\ inserted' = inserted \ (Here \ Persist)
  /\ active' = [e \in Event |->
       IF e \notin Here THEN active[e]
       ELSE IF e \in Persist THEN active[e] \cup Res(e)
       ELSE Res(e)]
  /\ at' = at + 1
  /\ UNCHANGED <<evsel, upto>>

(* Mutant: the loop ends at the last place there still is. *)
ReturnEarly ==
  /\ InLoop /\ at > Places(evbase)
  /\ at' = 0 /\ upto' = 0
  /\ evbase' = Forgot
  /\ UNCHANGED <<evsel, inserted, active>>

Return ==
  /\ InLoop /\ at > upto
  /\ at' = 0 /\ upto' = 0
  /\ evbase' = Forgot
  /\ UNCHANGED <<evsel, inserted, active>>

(* event_process_active *)
Run(e) ==
  /\ ~InLoop
  /\ active[e] # {}
  /\ active' = [active EXCEPT ![e] = {}]
  /\ UNCHANGED <<evsel, evbase, inserted, at, upto>>

Next ==
  \/ \E e \in Event : Add(e) \/ AddFails(e) \/ Del(e) \/ Run(e)
  \/ Wait \/ Turn \/ Return

Spec == Init /\ [][Next]_vars

-----------------------------------------------------------------------------
(* poll_check_ok of poll.c, and the converse: every place that is in use belongs
   to a descriptor that leads back to it, and holds the events it asks for, of those
   that were added. *)
PollAgrees(pop, added) ==
  /\ \A i \in 1..pop.nfds :
       LET pfd == pop.event_set[i]
       IN  /\ pop.idxplus1_by_fd[pfd.fd + 1] = i
           /\ pfd.events # {}
           /\ \A d \in Dir :
                LET e == pop.back[d][i]
                IN  IF d \in pfd.events
                    THEN e \in added /\ ev_fd[e] = pfd.fd /\ d \in ev_events[e]
                    ELSE e = Null
  /\ \A n \in DOMAIN pop.idxplus1_by_fd :
       LET i == pop.idxplus1_by_fd[n]
       IN  i # 0 => i \in 1..pop.nfds /\ pop.event_set[i].fd = n - 1

(* check_selectop of select.c, over all the memory. *)
SelectAgrees(sop, added) ==
  \A d \in Dir :
    /\ \A fd \in sop.fdset[d] : fd <= sop.event_fds
    /\ \A n \in DOMAIN sop.by_fd[d] :
         LET e == sop.by_fd[d][n]
         IN  IF n - 1 \in sop.fdset[d]
             THEN e \in added /\ ev_fd[e] = n - 1 /\ d \in ev_events[e]
             ELSE e = Null

(* The kernel watches each descriptor for what its events want. *)
EpollAgrees(ep, added) ==
  \A fd \in Fd :
    IF fd < Len(ep.fds)
    THEN /\ ep.interest[fd] = Known(ep, fd)
         /\ \A d \in Known(ep, fd) :
              LET e == ep.fds[fd + 1][d]
              IN  e \in added /\ ev_fd[e] = fd /\ d \in ev_events[e]
    ELSE ep.interest[fd] = {}

(* The tables by descriptor, the tables by place, what the kernel is asked to
   watch and the list of inserted events say the same at every turn: through
   growth, failed growth, the deletion of one of two events of a descriptor, and
   the last place moving into a free one in the middle of a dispatch. *)
TablesAgree ==
  CASE evsel = "poll"   -> PollAgrees(evbase, inserted)
    [] evsel = "select" -> SelectAgrees(evbase, inserted)
    [] evsel = "epoll"  -> EpollAgrees(evbase, inserted)

(* The memory of the back ends: every place in use lies in the arrays; what is not
   Junk was written. *)
PollType(pop) ==
  /\ pop \in [event_set : Seq(Pollfd \cup {Junk}),
              back : [Dir -> Seq(Event \cup {Null, Junk})],
              idxplus1_by_fd : Seq(Nat), nfds : Nat, event_count : Nat]
  /\ pop.nfds <= pop.event_count
  /\ pop.event_count <= Len(pop.event_set)
  /\ \A d \in Dir : pop.event_count <= Len(pop.back[d])
  /\ \A i \in 1..pop.nfds : pop.event_set[i] # Junk
  /\ \A n \in DOMAIN pop.idxplus1_by_fd : pop.idxplus1_by_fd[n] <= pop.nfds

SelectType(sop) ==
  /\ sop \in [event_fds : Nat, event_fdsz : Nat,
              fdset : [Dir -> SUBSET Fd], out : [Dir -> SUBSET Fd],
              by_fd : [Dir -> Seq(Event \cup {Null})]]
  /\ sop.event_fds < sop.event_fdsz * NFDBITS
  /\ \A d \in Dir : Len(sop.by_fd[d]) = sop.event_fdsz * NFDBITS

EpollType(ep) ==
  /\ ep \in [fds : Seq([Dir -> Event \cup {Null}]), interest : [Fd -> SUBSET Dir],
             events : Seq([fd : Fd, what : What])]
  /\ \A fd \in Fd : fd # Len(ep.fds)

(* Each back end's structure stays within its memory. *)
TypeOK ==
  /\ \/ evsel = "poll" /\ PollType(evbase)
     \/ evsel = "select" /\ SelectType(evbase)
     \/ evsel = "epoll" /\ EpollType(evbase)
  /\ inserted \subseteq Event
  /\ active \in [Event -> SUBSET Dir]
  /\ at \in Nat /\ upto \in Nat

-----------------------------------------------------------------------------
Reported(e) ==
  {d \in Dir : InLoop /\ \E i \in at..upto : Found(i, d) = e}

Demux == INSTANCE EvDemux WITH
  watched     <- {e \in Event : Watched(e)},
  reported    <- [e \in Event |-> Reported(e)],
  dispatching <- InLoop,
  active      <- active

(* Each back end, whichever was taken, does what EvDemux promises: an event is
   watched from a successful addition to its deletion, a dispatch activates what
   was ready once and for the right reasons, and passes nothing over although
   deletions move the places under its loop. *)
ImplementsDemux == Demux!Spec
================================================================================
