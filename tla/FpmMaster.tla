------------------------------ MODULE FpmMaster ------------------------------
(***************************************************************************)
(* The master process of fpmcrowd: the process controller                  *)
(* (fpm_process_ctl.c), the children table (fpm_children.c), the signal    *)
(* pipe (fpm_signals.c, fpm_events.c) and the start of the program (fpm.c),*)
(* together with the processes it forks and the kernel's signal queues.    *)
(*                                                                         *)
(* The master is one thread: pc says which loop of the code it is in.      *)
(*   boot   from main() until the signal handlers are installed            *)
(*   start  fpm_run creates the initial children of the pools in todo      *)
(*   loop   event_loop, no callback running                                *)
(*   read   fpm_got_signal reads the pipe one character at a time          *)
(*   bury   fpm_children_bury calls waitpid until it returns nothing       *)
(*   last   fpm_pctl_action_last was called and does not return            *)
(*   gone   the process has ended                                          *)
(* In start and bury, making is the pool fpm_children_make is filling.     *)
(***************************************************************************)
EXTENDS Naturals, Sequences, FiniteSets

CONSTANTS Pool,            \* the configured worker pools
          NoPool,          \* not a pool
          Pid,             \* the process ids the kernel hands out
          MaxChildren,     \* max_children of each pool
          SpCapacity,      \* characters the signal socket pair holds
          AdminSignals,    \* the signals administrators send to the master
          MaxAdminSignals, \* bound: signals administrators send in a behaviour
          FailingPool      \* the pools whose fork, pipes or slot may fail

Command == {"TERM", "INT", "QUIT", "USR1", "USR2"}

ASSUME MasterAssumption ==
  /\ IsFiniteSet(Pool) /\ IsFiniteSet(Pid)
  /\ NoPool \notin Pool
  /\ MaxChildren \in [Pool -> Nat]
  /\ SpCapacity \in Nat /\ MaxAdminSignals \in Nat
  /\ AdminSignals \subseteq Command
  /\ FailingPool \subseteq Pool

VARIABLES
  pc, making, todo,        \* control of the master, see above
  fpm_state,               \* the controller's state
  fpm_signal_sent,         \* the last signal it sent to the children, or "none"
  pctl_event,              \* its timer is armed
  children,                \* wp->children of each pool
  running_children,        \* wp->running_children of each pool
  all_running,             \* fpm_globals.running_children
  proc,                    \* what the kernel knows of each process id
  posted,                  \* the signal posted to a child and not yet taken
  pending,                 \* signals posted to the master and not yet handled
  sp,                      \* the characters in the signal socket pair
  quota                    \* administrator signals that may still be sent

image   == <<pc, making, todo>>
control == <<fpm_state, fpm_signal_sent, pctl_event>>
tables  == <<children, running_children, all_running>>
kernel  == <<proc, posted, pending, sp, quota>>
vars    == <<image, control, tables, kernel>>

State == {"normal", "reloading", "finishing", "terminating"}

(* A child runs with the master's handlers (init), then with its own       *)
(* (ready); a stopped one is trapped until the master is told of it.       *)
Living == {"init", "ready", "trapped", "stopped"}
Zombie == {"exited", "faulted"}      \* faulted: by SIGSEGV or SIGBUS

Linked   == UNION {children[q] : q \in Pool}
Unreaped == {p \in Pid : proc[p] # "free"}

TypeOK ==
  /\ pc \in {"boot", "start", "loop", "read", "bury", "last", "gone"}
  /\ making \in Pool \cup {NoPool}
  /\ todo \in SUBSET Pool
  /\ fpm_state \in State
  /\ fpm_signal_sent \in {"none", "QUIT", "TERM", "KILL"}
  /\ pctl_event \in BOOLEAN
  /\ children \in [Pool -> SUBSET Pid]
  /\ running_children \in [Pool -> Nat]
  /\ \A q \in Pool : running_children[q] <= MaxChildren[q]
  /\ all_running \in Nat
  /\ proc \in [Pid -> {"free"} \cup Living \cup Zombie]
  /\ posted \in [Pid -> {"none", "soft", "KILL"}]
  /\ pending \in SUBSET (Command \cup {"CHLD"})
  /\ sp \in Seq(Command \cup {"CHLD"}) /\ Len(sp) <= SpCapacity
  /\ quota \in 0..MaxAdminSignals

-----------------------------------------------------------------------------
(* A new image of the program: static data, an empty children table. *)
Boot ==
  /\ pc' = "boot" /\ making' = NoPool /\ todo' = Pool
  /\ fpm_state' = "normal" /\ fpm_signal_sent' = "none" /\ pctl_event' = FALSE
  /\ children' = [q \in Pool |-> {}]
  /\ running_children' = [q \in Pool |-> 0]
  /\ all_running' = 0
  /\ sp' = <<>>

Init ==
  /\ pc = "boot" /\ making = NoPool /\ todo = Pool
  /\ fpm_state = "normal" /\ fpm_signal_sent = "none" /\ pctl_event = FALSE
  /\ children = [q \in Pool |-> {}]
  /\ running_children = [q \in Pool |-> 0]
  /\ all_running = 0
  /\ sp = <<>>
  /\ proc = [p \in Pid |-> "free"]
  /\ posted = [p \in Pid |-> "none"]
  /\ pending = {}
  /\ quota = MaxAdminSignals

(* exit() of the master: the kernel forgets what was posted to it. *)
Gone == pc' = "gone" /\ pending' = {}

(* startfpm start *)
Start == pc = "gone" /\ Boot /\ UNCHANGED <<proc, posted, pending, quota>>

(* Until fpm_signals_init_main every signal has its default action. *)
DefaultAction(s) ==
  /\ pc = "boot" /\ s \in pending
  /\ IF s = "CHLD" THEN pending' = pending \ {s} /\ UNCHANGED pc ELSE Gone
  /\ UNCHANGED <<making, todo, control, tables, proc, posted, sp, quota>>

(* fpm_unix_init_main forks: the master goes on as a process of its own,   *)
(* and what was posted to the one that exits is lost.                      *)
Daemonize ==
  /\ pc = "boot" /\ pending # {}
  /\ pending' = {}
  /\ UNCHANGED <<image, control, tables, proc, posted, sp, quota>>

InitMain ==
  /\ pc = "boot" /\ pc' = "start"
  /\ UNCHANGED <<making, todo, control, tables, kernel>>

(* Mutant: a variable with the latest signal instead of a queue of them. *)
SigHandlerLatest(s) ==
  /\ pc \notin {"boot", "gone"} /\ s \in pending
  /\ pending' = pending \ {s} /\ sp' = <<s>>
  /\ UNCHANGED <<image, control, tables, proc, posted, quota>>

(* sig_handler, which interrupts the master anywhere: the socket pair does *)
(* not block, so that a character that does not fit is dropped.            *)
SigHandler(s) ==
  /\ pc \notin {"boot", "gone"} /\ s \in pending
  /\ pending' = pending \ {s}
  /\ sp' = IF Len(sp) < SpCapacity THEN Append(sp, s) ELSE sp
  /\ UNCHANGED <<image, control, tables, proc, posted, quota>>

-----------------------------------------------------------------------------
(* fpm_process_ctl.c *)

(* Mutant: a reload is taken up while the master is finishing. *)
OverridesAnything(new, old) == old # "terminating"

Overrides(new, old) ==
  CASE old = "normal"      -> TRUE
    [] old = "reloading"   -> new \in {"finishing", "terminating"}
    [] old = "finishing"   -> new = "terminating"
    [] old = "terminating" -> FALSE

(* Mutant: the escalation stops at SIGTERM. *)
NextSignalNoKill(st, sent) == IF sent = "none" /\ st # "terminating" THEN "QUIT" ELSE "TERM"

NextSignal(st, sent) ==
  CASE sent = "none" -> IF st = "terminating" THEN "TERM" ELSE "QUIT"
    [] sent = "QUIT" -> "TERM"
    [] OTHER         -> "KILL"

(* kill() of every child of every pool.  SIGQUIT and SIGTERM have the same *)
(* effect on a child; a zombie takes no signal.                            *)
KillAll(sig) ==
  posted' = [p \in Pid |-> IF p \in Linked /\ proc[p] \in Living
                           THEN IF sig = "KILL" \/ posted[p] = "KILL" THEN "KILL" ELSE "soft"
                           ELSE posted[p]]

(* Mutant: the counter is compared before the child in hand is taken off. *)
NoneRunningOffByOne(n) == n <= 1

NoneRunning(n) == n = 0

(* fpm_pctl_action_next with n running children, called in the place where. *)
ActionNext(st, sent, n, where) ==
  /\ fpm_state' = st
  /\ IF NoneRunning(n)
     THEN pc' = "last" /\ fpm_signal_sent' = sent /\ UNCHANGED <<pctl_event, posted>>
     ELSE /\ pc' = where
          /\ fpm_signal_sent' = NextSignal(st, sent)
          /\ KillAll(NextSignal(st, sent))
          /\ pctl_event' = TRUE

(* fpm_pctl(new, FPM_PCTL_ACTION_SET) *)
SetState(new, n, where) ==
  IF new # fpm_state /\ Overrides(new, fpm_state)
  THEN ActionNext(new, "none", n, where)
  ELSE pc' = where /\ UNCHANGED <<control, posted>>

(* Mutant: fpm_pctl_child_exited is not called. *)
LastChildIgnored(n) == FALSE

(* fpm_pctl_child_exited: an order was given and this was the last child. *)
LastChild(n) == fpm_state # "normal" /\ NoneRunning(n)

(* fpm_pctl_action: the timer has expired. *)
Timeout ==
  /\ pc = "loop" /\ pctl_event
  /\ ActionNext(fpm_state, fpm_signal_sent, all_running, "loop")
  /\ UNCHANGED <<making, todo, tables, proc, pending, sp, quota>>

(* fpm_pctl_action_last: fpm_pctl_exec, whose execvp may fail, or fpm_pctl_exit. *)
Exec ==
  /\ pc = "last" /\ fpm_state = "reloading"
  /\ Boot /\ UNCHANGED <<proc, posted, pending, quota>>

Exit ==
  /\ pc = "last"
  /\ Gone
  /\ UNCHANGED <<making, todo, control, tables, proc, posted, sp, quota>>

-----------------------------------------------------------------------------
(* fpm_children.c *)

Link(p, q) ==
  /\ children' = [children EXCEPT ![q] = @ \cup {p}]
  /\ running_children' = [running_children EXCEPT ![q] = @ + 1]
  /\ all_running' = all_running + 1

(* Mutant: the global counter is forgotten. *)
UnlinkPoolOnly(p, q) ==
  /\ children' = [children EXCEPT ![q] = @ \ {p}]
  /\ running_children' = [running_children EXCEPT ![q] = @ - 1]
  /\ UNCHANGED all_running

Unlink(p, q) ==
  /\ children' = [children EXCEPT ![q] = @ \ {p}]
  /\ running_children' = [running_children EXCEPT ![q] = @ - 1]
  /\ all_running' = all_running - 1

(* Mutant: off by one. *)
WantsChildTooMany(q) == fpm_state = "normal" /\ running_children[q] <= MaxChildren[q]

(* The condition of the loop of fpm_children_make. *)
WantsChild(q) == fpm_state = "normal" /\ running_children[q] < MaxChildren[q]

Making == pc \in {"start", "bury"} /\ making # NoPool

Fork(p) ==
  /\ Making /\ WantsChild(making) /\ proc[p] = "free"
  /\ proc' = [proc EXCEPT ![p] = "init"]
  /\ Link(p, making)
  /\ UNCHANGED <<image, control, posted, pending, sp, quota>>

(* Mutant: one attempt per call instead of a loop. *)
MakeEndsAtOnce ==
  /\ Making /\ making' = NoPool
  /\ UNCHANGED <<pc, todo, control, tables, kernel>>

MakeEnds ==
  /\ Making /\ (WantsChild(making) => making \in FailingPool)
  /\ making' = NoPool
  /\ UNCHANGED <<pc, todo, control, tables, kernel>>

(* fpm_run *)
StartPool(q) ==
  /\ pc = "start" /\ making = NoPool /\ q \in todo
  /\ making' = q /\ todo' = todo \ {q}
  /\ UNCHANGED <<pc, control, tables, kernel>>

EnterLoop ==
  /\ pc = "start" /\ making = NoPool /\ todo = {}
  /\ pc' = "loop"
  /\ UNCHANGED <<making, todo, control, tables, kernel>>

(* What fpm_children_bury does with a child it found, after the unlink:    *)
(* fpm_pctl_child_exited, which does not return for the last child of an   *)
(* order, then the restart condition of crashes, then fpm_children_make.   *)
AfterChild(q, n, crash) ==
  \/ /\ LastChild(n)
     /\ pc' = "last"
     /\ UNCHANGED <<making, control, posted>>
  \/ /\ ~LastChild(n)
     /\ making' = q
     /\ \/ crash /\ SetState("reloading", n, "bury")
        \/ UNCHANGED <<pc, control, posted>>

CanWait == pc = "bury" /\ making = NoPool

BuryChild(p, q) ==
  /\ CanWait /\ proc[p] \in Zombie /\ p \in children[q]
  /\ proc' = [proc EXCEPT ![p] = "free"]
  /\ Unlink(p, q)
  /\ AfterChild(q, all_running - 1, proc[p] = "faulted")
  /\ UNCHANGED <<todo, pending, sp, quota>>

(* A child stopped by a signal is reported once; no child has a tracer. *)
BuryStopped(p) ==
  /\ CanWait /\ proc[p] = "trapped"
  /\ proc' = [proc EXCEPT ![p] = "stopped"]
  /\ UNCHANGED <<image, control, tables, posted, pending, sp, quota>>

BuryEnds ==
  /\ CanWait /\ \A p \in Pid : proc[p] \notin Zombie \cup {"trapped"}
  /\ pc' = "read"
  /\ UNCHANGED <<making, todo, control, tables, kernel>>

-----------------------------------------------------------------------------
(* fpm_events.c *)

SignalEvent ==
  /\ pc = "loop" /\ sp # <<>>
  /\ pc' = "read"
  /\ UNCHANGED <<making, todo, control, tables, kernel>>

(* One turn of the loop of fpm_got_signal. *)
GotSignal ==
  /\ pc = "read" /\ sp # <<>>
  /\ sp' = Tail(sp)
  /\ CASE Head(sp) = "CHLD" -> pc' = "bury" /\ UNCHANGED <<control, posted>>
       [] Head(sp) = "USR1" -> UNCHANGED <<pc, control, posted>>
       [] Head(sp) \in {"TERM", "INT"} -> SetState("terminating", all_running, "read")
       [] Head(sp) = "QUIT" -> SetState("finishing", all_running, "read")
       [] Head(sp) = "USR2" -> SetState("reloading", all_running, "read")
  /\ UNCHANGED <<making, todo, tables, proc, pending, quota>>

ReadEnds ==
  /\ pc = "read" /\ sp = <<>>
  /\ pc' = "loop"
  /\ UNCHANGED <<making, todo, control, tables, kernel>>

-----------------------------------------------------------------------------
(* The workers, and the administrators. *)

(* The kernel changes the state of p and tells the master. *)
Becomes(p, s) ==
  /\ proc' = [proc EXCEPT ![p] = s]
  /\ pending' = pending \cup {"CHLD"}

(* fpm_signals_init_child *)
WorkerReady(p) ==
  /\ proc[p] = "init"
  /\ proc' = [proc EXCEPT ![p] = "ready"]
  /\ UNCHANGED <<image, control, tables, posted, pending, sp, quota>>

WorkerEnds(p) ==
  /\ proc[p] \in {"init", "ready"}
  /\ \E how \in Zombie : Becomes(p, how)
  /\ posted' = [posted EXCEPT ![p] = "none"]
  /\ UNCHANGED <<image, control, tables, sp, quota>>

(* While it runs with the master's handlers, a child drops the signal. *)
WorkerTakes(p) ==
  /\ \/ posted[p] = "KILL" /\ Becomes(p, "exited")
     \/ posted[p] = "soft" /\ proc[p] = "ready" /\ Becomes(p, "exited")
     \/ posted[p] = "soft" /\ proc[p] = "init" /\ UNCHANGED <<proc, pending>>
  /\ posted' = [posted EXCEPT ![p] = "none"]
  /\ UNCHANGED <<image, control, tables, sp, quota>>

Spend == pc # "gone" /\ quota > 0 /\ quota' = quota - 1

StopWorker(p) ==
  /\ Spend /\ proc[p] = "ready" /\ Becomes(p, "trapped")
  /\ UNCHANGED <<image, control, tables, posted, sp>>

ContinueWorker(p) ==
  /\ Spend /\ proc[p] \in {"trapped", "stopped"} /\ Becomes(p, "ready")
  /\ UNCHANGED <<image, control, tables, posted, sp>>

SignalMaster(s) ==
  /\ Spend /\ s \notin pending
  /\ pending' = pending \cup {s}
  /\ UNCHANGED <<image, control, tables, proc, posted, sp>>

-----------------------------------------------------------------------------
Master ==
  \/ InitMain \/ EnterLoop \/ MakeEnds \/ BuryEnds
  \/ SignalEvent \/ GotSignal \/ ReadEnds \/ Exec \/ Exit
  \/ \E q \in Pool : StartPool(q)
  \/ \E p \in Pid : Fork(p) \/ BuryStopped(p) \/ \E q \in Pool : BuryChild(p, q)

Signals == \E s \in Command \cup {"CHLD"} : SigHandler(s) \/ DefaultAction(s)

Workers == \E p \in Pid : WorkerReady(p) \/ WorkerEnds(p) \/ WorkerTakes(p)

Admin ==
  \/ Start
  \/ \E s \in AdminSignals : SignalMaster(s)
  \/ \E p \in Pid : StopWorker(p) \/ ContinueWorker(p)

Next == Master \/ Timeout \/ Signals \/ Daemonize \/ Workers \/ Admin

Spec == Init /\ [][Next]_vars

(* The master and the kernel do not stop.  The timer is strongly fair, for *)
(* event_base_loop runs what has expired on every turn and pc leaves loop  *)
(* for every signal; waitpid takes children in the order of their birth,   *)
(* hence no zombie is passed over for ever.  Nothing is asked of workers   *)
(* but to die of a signal, and nothing of administrators.                  *)
Fairness ==
  /\ WF_vars(Master)
  /\ SF_vars(Timeout)
  /\ \A s \in Command \cup {"CHLD"} : WF_vars(SigHandler(s) \/ DefaultAction(s))
  /\ \A p \in Pid : /\ SF_vars(WorkerTakes(p) /\ (posted[p] = "KILL" \/ proc[p] = "ready"))
                    /\ SF_vars(\E q \in Pool : BuryChild(p, q))

FairSpec == Spec /\ Fairness

-----------------------------------------------------------------------------
(* The children table, its two counters and the kernel agree at every      *)
(* moment: every process the master has not reaped is linked in exactly    *)
(* one pool (fpm_children_bury never meets an unknown child) and nothing   *)
(* else is linked (kill never hits a process id that was reused).          *)
TableIsExact ==
  /\ Linked = Unreaped
  /\ \A q, r \in Pool : q # r => children[q] \cap children[r] = {}
  /\ \A q \in Pool : running_children[q] = Cardinality(children[q])
  /\ all_running = Cardinality(Linked)

(* When the master exits or executes itself, and while the new image       *)
(* boots without a children table, no worker of the old one is left.       *)
NoWorkerLeftBehind == pc \in {"boot", "last", "gone"} => Unreaped = {}

(* An order given is pursued: there is a child to wait for, it was sent a  *)
(* signal, and the timer that escalates is armed; otherwise the controller *)
(* would wait for an event that never comes.                               *)
OrderIsPursued ==
  fpm_state # "normal" /\ pc \notin {"last", "gone"}
    => pctl_event /\ all_running > 0 /\ fpm_signal_sent # "none"

(* The master as startfpm and the administrator see it. *)
Mode == CASE pc = "boot" -> "booting" [] pc = "gone" -> "ended" [] OTHER -> fpm_state

Lifecycle == INSTANCE FpmLifecycle WITH mode <- Mode, crew <- Unreaped

(* Every step of the master is one that its contract allows. *)
ImplementsLifecycle == Lifecycle!LifecycleSpec

(* Once an order is given the master exits or executes itself, whatever    *)
(* the workers do: the escalation to SIGKILL reaches those that ignore     *)
(* SIGQUIT and SIGTERM because they are starting or stopped.               *)
OrderIsCarriedOut == (fpm_state # "normal") ~> (pc \in {"boot", "gone"})

(* In the normal state every pool is at max_children whenever the master   *)
(* is back in its event loop, unless fork fails for it: nothing else would *)
(* create the missing workers, for only the death of a worker makes new    *)
(* ones; and a pool that cannot be filled keeps no other from being full.  *)
PoolsAreFull ==
  pc \in {"loop", "read"} /\ fpm_state = "normal"
    => \A q \in Pool \ FailingPool : running_children[q] = MaxChildren[q]

(* Every dead worker is reaped, however many others die meanwhile.         *)
ZombieIsReaped == \A p \in Pid : proc[p] \in Zombie ~> proc[p] = "free"

(* The master never waits in vain: both of the above. *)
NothingIsWaitedForInVain == OrderIsCarriedOut /\ ZombieIsReaped
=============================================================================
