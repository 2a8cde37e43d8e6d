---------------------------- MODULE FpmLifecycle ----------------------------
(***************************************************************************)
(* What the master process promises to startfpm and to the administrator,  *)
(* without saying how: it serves until it is told to stop or to reload, a  *)
(* stronger order overrides a weaker one and never the other way round, no *)
(* worker is added once an order has been given, and the master leaves     *)
(* (it exits, or it executes itself again) only when no worker is left.    *)
(***************************************************************************)
EXTENDS Naturals

CONSTANT Pid                    \* the processes that may be workers

VARIABLES mode,                 \* what the master is doing
          crew                  \* the workers that were not reaped yet

lifecycleVars == <<mode, crew>>

Orders == {"normal", "reloading", "finishing", "terminating"}

Rank == [m \in Orders |-> CASE m = "normal"      -> 0
                            [] m = "reloading"   -> 1
                            [] m = "finishing"   -> 2
                            [] m = "terminating" -> 3]

LifecycleInit == mode = "booting" /\ crew = {}

Serve == mode = "booting" /\ mode' = "normal" /\ UNCHANGED crew

Hire(p) == /\ mode = "normal" /\ p \notin crew
           /\ crew' = crew \cup {p}
           /\ UNCHANGED mode

Order(m) == /\ mode \in Orders /\ m \in Orders
            /\ Rank[m] > Rank[mode]
            /\ mode' = m
            /\ UNCHANGED crew

(* A worker is reaped; in the normal mode its crash may cause a reload. *)
Retire(p) == /\ mode \in Orders /\ p \in crew
             /\ crew' = crew \ {p}
             /\ mode' \in {mode} \cup (IF mode = "normal" THEN {"reloading"} ELSE {})

(* The master leaves: a reload boots the program again or, when that fails *)
(* ends it; any other order ends it, and so does a signal at boot.         *)
Leave == /\ crew = {} /\ UNCHANGED crew
         /\ \/ mode = "reloading" /\ mode' \in {"booting", "ended"}
            \/ mode \in {"finishing", "terminating", "booting"} /\ mode' = "ended"

(* The administrator starts the program again. *)
Restart == mode = "ended" /\ mode' = "booting" /\ UNCHANGED crew

LifecycleNext == \/ Serve \/ Leave \/ Restart
                 \/ \E m \in Orders : Order(m)
                 \/ \E p \in Pid : Hire(p) \/ Retire(p)

LifecycleSpec == LifecycleInit /\ [][LifecycleNext]_lifecycleVars
=============================================================================
