--------------------------- MODULE FpmMasterProof ---------------------------
(***************************************************************************)
(* The safety of the master process for any pools, limits, process ids and *)
(* capacity of the signal pipe.                                            *)
(*                                                                         *)
(* TableIsExact, NoWorkerLeftBehind and OrderIsPursued support each other: *)
(* the master leaves only when its counter says zero, so that nothing is   *)
(* left behind needs the counter to be exact, and the counter stays exact  *)
(* over an exec because nothing is left behind.  Phases and PostedToLiving *)
(* are what they need besides: in which places of the code which state of  *)
(* the controller is possible, and that the kernel holds no signal for a   *)
(* process that is gone.                                                   *)
(*                                                                         *)
(* The last part is about FpmFaults, the emergency restart, which is the   *)
(* master's as well: for every threshold and interval the ring stands for  *)
(* the last faults of the image, so a reload is ordered exactly when a     *)
(* series of faults is complete, whatever is done to the clock.            *)
(***************************************************************************)
EXTENDS FpmMaster, FpmFaults, FiniteSetTheorems, TLAPS

Phases ==
  /\ pc \in {"boot", "start"} => fpm_state = "normal"
  /\ pc = "last" => fpm_state # "normal"
  /\ pctl_event => fpm_state # "normal"

PostedToLiving == \A p \in Pid : posted[p] # "none" => proc[p] \in Living

IInv ==
  /\ TypeOK
  /\ TableIsExact
  /\ NoWorkerLeftBehind
  /\ OrderIsPursued
  /\ Phases
  /\ PostedToLiving

-----------------------------------------------------------------------------
(* Facts about finite tables and about the operators of the controller. *)

(* The table of children and each of its entries are finite sets. *)
LEMMA TableFinite ==
  ASSUME children \in [Pool -> SUBSET Pid]
  PROVE  /\ Linked \in SUBSET Pid
         /\ IsFiniteSet(Linked)
         /\ \A q \in Pool : IsFiniteSet(children[q])
<1>1. Linked \in SUBSET Pid BY DEF Linked
<1>2. IsFiniteSet(Pid) BY MasterAssumption
<1>3. \A T \in SUBSET Pid : IsFiniteSet(T) BY <1>2, FS_Subset
<1>4. QED BY <1>1, <1>3

(* fpm_child_link keeps the table exact when the process is a new one. *)
LEMMA LinkExact ==
  ASSUME TypeOK, TableIsExact,
         NEW p \in Pid, NEW q \in Pool, p \notin Unreaped,
         Link(p, q), proc' = [proc EXCEPT ![p] = "init"]
  PROVE  /\ TableIsExact'
         /\ children' \in [Pool -> SUBSET Pid]
         /\ running_children' \in [Pool -> Nat]
         /\ all_running' \in Nat
<1>1. /\ children \in [Pool -> SUBSET Pid]
      /\ proc \in [Pid -> {"free"} \cup Living \cup Zombie]
  BY DEF TypeOK
<1>2. p \notin Linked BY DEF TableIsExact
<1>3. \A r \in Pool : children'[r] = IF r = q THEN children[q] \cup {p} ELSE children[r]
  BY <1>1 DEF Link
<1>4. Linked' = Linked \cup {p} BY <1>3 DEF Linked
<1>5. Unreaped' = Unreaped \cup {p} BY <1>1 DEF Unreaped
<1>6. \A q1, q2 \in Pool : q1 # q2 => children'[q1] \cap children'[q2] = {}
  BY <1>2, <1>3 DEF TableIsExact, Linked
<1>7. Cardinality(Linked') = Cardinality(Linked) + 1
  BY <1>1, <1>2, <1>4, TableFinite, FS_AddElement
<1>8. Cardinality(children'[q]) = Cardinality(children[q]) + 1
  <2>1. p \notin children[q] BY <1>2 DEF Linked
  <2>2. QED BY <1>1, <1>3, <2>1, TableFinite, FS_AddElement
<1>9. \A r \in Pool : running_children'[r] = Cardinality(children'[r])
  <2>1. \A r \in Pool : running_children'[r] =
                          IF r = q THEN running_children[q] + 1 ELSE running_children[r]
    BY DEF TypeOK, Link
  <2>2. QED BY <1>3, <1>8, <2>1 DEF TableIsExact
<1>10. /\ children' \in [Pool -> SUBSET Pid]
       /\ running_children' \in [Pool -> Nat]
       /\ all_running' \in Nat
  BY DEF TypeOK, Link
<1>11. QED BY <1>4, <1>5, <1>6, <1>7, <1>9, <1>10 DEF TableIsExact, Link

(* fpm_child_unlink keeps the table exact when the process is reaped. *)
LEMMA UnlinkExact ==
  ASSUME TypeOK, TableIsExact,
         NEW p \in Pid, NEW q \in Pool, p \in children[q],
         Unlink(p, q), proc' = [proc EXCEPT ![p] = "free"]
  PROVE  /\ TableIsExact'
         /\ children' \in [Pool -> SUBSET Pid]
         /\ running_children' \in [Pool -> Nat]
         /\ \A r \in Pool : running_children'[r] <= MaxChildren[r]
         /\ all_running' \in Nat
         /\ Unreaped' = Unreaped \ {p}
<1>1. /\ children \in [Pool -> SUBSET Pid]
      /\ proc \in [Pid -> {"free"} \cup Living \cup Zombie]
  BY DEF TypeOK
<1>2. p \in Linked BY DEF Linked
<1>3. \A r \in Pool : children'[r] = IF r = q THEN children[q] \ {p} ELSE children[r]
  BY <1>1 DEF Unlink
<1>4. Linked' = Linked \ {p} BY <1>3 DEF Linked, TableIsExact
<1>5. Unreaped' = Unreaped \ {p} BY <1>1 DEF Unreaped
<1>6. \A q1, q2 \in Pool : q1 # q2 => children'[q1] \cap children'[q2] = {}
  BY <1>3 DEF TableIsExact
<1>7. /\ Cardinality(Linked') = Cardinality(Linked) - 1
      /\ Cardinality(Linked') \in Nat
  BY <1>1, <1>2, <1>4, TableFinite, FS_RemoveElement, FS_CardinalityType
<1>8. /\ Cardinality(children'[q]) = Cardinality(children[q]) - 1
      /\ Cardinality(children'[q]) \in Nat
  BY <1>1, <1>3, TableFinite, FS_RemoveElement, FS_CardinalityType
<1>9. \A r \in Pool : running_children'[r] =
                        IF r = q THEN running_children[q] - 1 ELSE running_children[r]
  BY DEF TypeOK, Unlink
<1>10. \A r \in Pool : running_children'[r] = Cardinality(children'[r])
  BY <1>3, <1>8, <1>9 DEF TableIsExact
<1>11. children' \in [Pool -> SUBSET Pid]
  BY DEF TypeOK, Unlink
<1>12. /\ running_children' \in [Pool -> Nat]
       /\ \A r \in Pool : running_children'[r] <= MaxChildren[r]
  <2>1. running_children'[q] \in Nat BY <1>8, <1>10
  <2>2. DOMAIN running_children' = Pool BY DEF TypeOK, Unlink
  <2>3. running_children' = [r \in Pool |-> running_children'[r]] BY DEF TypeOK, Unlink
  <2>4. \A r \in Pool : /\ running_children[r] \in Nat /\ MaxChildren[r] \in Nat
                       /\ running_children[r] <= MaxChildren[r]
    BY MasterAssumption DEF TypeOK
  <2>5. \A r \in Pool : running_children'[r] \in Nat /\ running_children'[r] <= MaxChildren[r]
    BY <1>9, <2>1, <2>4
  <2>6. QED BY <2>3, <2>5
<1>13. all_running' \in Nat /\ all_running' = Cardinality(Linked')
  BY <1>7 DEF TableIsExact, Unlink
<1>14. QED BY <1>4, <1>5, <1>6, <1>10, <1>11, <1>12, <1>13 DEF TableIsExact

(* fpm_pctl_action_next ends the master when nobody is running, and        *)
(* otherwise has sent a signal and armed the timer.                        *)
LEMMA ActionNextEffect ==
  ASSUME TypeOK, PostedToLiving,
         NEW st \in State, NEW sent \in {"none", "QUIT", "TERM", "KILL"},
         NEW n \in Nat, NEW where,
         ActionNext(st, sent, n, where)
  PROVE  /\ fpm_state' = st
         /\ fpm_signal_sent' \in {"none", "QUIT", "TERM", "KILL"}
         /\ posted' \in [Pid -> {"none", "soft", "KILL"}]
         /\ \A p \in Pid : posted'[p] # "none" => proc[p] \in Living
         /\ \/ n = 0 /\ pc' = "last" /\ pctl_event' = pctl_event
            \/ n > 0 /\ pc' = where /\ pctl_event' = TRUE /\ fpm_signal_sent' # "none"
<1>1. CASE n = 0
  BY <1>1 DEF ActionNext, NoneRunning, TypeOK, PostedToLiving
<1>2. CASE n # 0
  <2>1. NextSignal(st, sent) \in {"QUIT", "TERM", "KILL"}
    BY DEF NextSignal
  <2>2. KillAll(NextSignal(st, sent)) BY <1>2 DEF ActionNext, NoneRunning
  <2>3. /\ posted' \in [Pid -> {"none", "soft", "KILL"}]
        /\ \A p \in Pid : posted'[p] # "none" => proc[p] \in Living
    BY <2>2 DEF KillAll, TypeOK, PostedToLiving
  <2>4. /\ fpm_state' = st /\ pc' = where /\ pctl_event' = TRUE
        /\ fpm_signal_sent' = NextSignal(st, sent)
    BY <1>2 DEF ActionNext, NoneRunning
  <2>5. n > 0 BY <1>2
  <2>6. QED BY <2>1, <2>3, <2>4, <2>5
<1>3. QED BY <1>1, <1>2

(* fpm_pctl(new, SET) does that when the new order overrides the old one.  *)
LEMMA SetStateEffect ==
  ASSUME TypeOK, PostedToLiving,
         NEW new \in State, new # "normal", NEW n \in Nat, NEW where,
         SetState(new, n, where)
  PROVE  /\ fpm_state' \in State
         /\ fpm_signal_sent' \in {"none", "QUIT", "TERM", "KILL"}
         /\ pctl_event' \in BOOLEAN
         /\ posted' \in [Pid -> {"none", "soft", "KILL"}]
         /\ \A p \in Pid : posted'[p] # "none" => proc[p] \in Living
         /\ \/ pc' = where /\ UNCHANGED control
            \/ /\ fpm_state' = new /\ new # fpm_state /\ Overrides(new, fpm_state)
               /\ \/ n = 0 /\ pc' = "last" /\ pctl_event' = pctl_event
                  \/ n > 0 /\ pc' = where /\ pctl_event' = TRUE /\ fpm_signal_sent' # "none"
<1>1. CASE new # fpm_state /\ Overrides(new, fpm_state)
  <2>1. ActionNext(new, "none", n, where) BY <1>1 DEF SetState
  <2>2. pctl_event \in BOOLEAN BY DEF TypeOK
  <2>3. QED BY <1>1, <2>1, <2>2, ActionNextEffect
<1>2. CASE ~(new # fpm_state /\ Overrides(new, fpm_state))
  BY <1>2 DEF SetState, control, TypeOK, PostedToLiving
<1>3. QED BY <1>1, <1>2

-----------------------------------------------------------------------------
(* An empty signal pipe is within its capacity. *)
LEMMA EmptyPipe == <<>> \in Seq(Command \cup {"CHLD"}) /\ Len(<<>>) <= SpCapacity
<1>1. <<>> \in Seq(Command \cup {"CHLD"}) /\ Len(<<>>) = 0 OBVIOUS
<1>2. QED BY <1>1, MasterAssumption

(* The inductive invariant holds when the program starts. *)
LEMMA InitEstablishes == Init => IInv
<1> SUFFICES ASSUME Init PROVE IInv OBVIOUS
<1>1. Linked = {} /\ Unreaped = {} BY DEF Init, Linked, Unreaped
<1>2. TypeOK
  <2>1. sp \in Seq(Command \cup {"CHLD"}) /\ Len(sp) <= SpCapacity
    BY EmptyPipe DEF Init
  <2>2. /\ running_children \in [Pool -> Nat] /\ all_running \in Nat
        /\ \A q \in Pool : running_children[q] <= MaxChildren[q]
    BY MasterAssumption DEF Init
  <2>3. quota \in 0..MaxAdminSignals
    BY MasterAssumption DEF Init
  <2>4. QED BY <2>1, <2>2, <2>3 DEF Init, TypeOK, State
<1>3. TableIsExact
  BY <1>1, FS_EmptySet DEF Init, TableIsExact
<1>4. NoWorkerLeftBehind /\ OrderIsPursued /\ Phases /\ PostedToLiving
  BY <1>1 DEF Init, NoWorkerLeftBehind, OrderIsPursued, Phases, PostedToLiving
<1>5. QED BY <1>2, <1>3, <1>4 DEF IInv

(* A new image finds no worker, hence its empty table is exact. *)
LEMMA BootPreserves ==
  ASSUME IInv, pc \in {"last", "gone"}, Boot, UNCHANGED <<proc, posted, pending, quota>>
  PROVE  IInv'
<1>1. Unreaped' = {} /\ Linked' = {}
  BY DEF IInv, NoWorkerLeftBehind, Unreaped, Linked, Boot
<1>2. TypeOK'
  <2>1. sp' \in Seq(Command \cup {"CHLD"}) /\ Len(sp') <= SpCapacity
    BY EmptyPipe DEF Boot
  <2>2. /\ running_children' \in [Pool -> Nat] /\ all_running' \in Nat
        /\ \A q \in Pool : running_children'[q] <= MaxChildren[q]
    BY MasterAssumption DEF Boot
  <2>3. QED BY <2>1, <2>2 DEF IInv, TypeOK, Boot, State
<1>3. TableIsExact'
  BY <1>1, FS_EmptySet DEF Boot, TableIsExact
<1>4. NoWorkerLeftBehind' /\ OrderIsPursued' /\ Phases' /\ PostedToLiving'
  BY <1>1 DEF IInv, Boot, NoWorkerLeftBehind, OrderIsPursued, Phases, PostedToLiving
<1>5. QED BY <1>2, <1>3, <1>4 DEF IInv

(* Steps that leave the table alone, and of the kernel's knowledge change  *)
(* only which living or dead state an unreaped process is in, keep the     *)
(* table exact.                                                            *)
LEMMA TableUndisturbed ==
  ASSUME TableIsExact, UNCHANGED tables, Unreaped' = Unreaped
  PROVE  TableIsExact'
BY DEF TableIsExact, Linked, tables

(* The control steps of the master: nothing but pc, making, todo, pending  *)
(* and the signal pipe changes.                                            *)
LEMMA ControlStepPreserves ==
  ASSUME IInv, UNCHANGED <<control, tables, proc, posted, quota>>,
         pc' \in {"start", "loop", "read", "bury"},
         pc' = "start" => pc \in {"boot", "start"},
         pc # "last" /\ pc # "gone",
         making' \in Pool \cup {NoPool}, todo' \in SUBSET Pool,
         pending' \in SUBSET (Command \cup {"CHLD"}),
         sp' \in Seq(Command \cup {"CHLD"}), Len(sp') <= SpCapacity
  PROVE  IInv'
<1>1. TypeOK' BY DEF IInv, TypeOK, control, tables
<1>2. Unreaped' = Unreaped BY DEF Unreaped
<1>3. TableIsExact' BY <1>2, TableUndisturbed DEF IInv
<1>4. NoWorkerLeftBehind' BY DEF NoWorkerLeftBehind
<1>5. OrderIsPursued' BY DEF IInv, OrderIsPursued, control, tables
<1>6. Phases' BY DEF IInv, Phases, control
<1>7. PostedToLiving' BY DEF IInv, PostedToLiving
<1>8. QED BY <1>1, <1>3, <1>4, <1>5, <1>6, <1>7 DEF IInv

(* Steps of the workers and of those who signal them: the master does not  *)
(* move, no process is created or reaped.                                  *)
LEMMA ProcessStepPreserves ==
  ASSUME IInv, UNCHANGED <<image, control, tables, sp>>,
         proc' \in [Pid -> {"free"} \cup Living \cup Zombie],
         \A p \in Pid : proc'[p] = "free" <=> proc[p] = "free",
         posted' \in [Pid -> {"none", "soft", "KILL"}],
         \A p \in Pid : posted'[p] # "none" => proc'[p] \in Living,
         pending' \in SUBSET (Command \cup {"CHLD"}),
         quota' \in 0..MaxAdminSignals
  PROVE  IInv'
<1>1. TypeOK' BY DEF IInv, TypeOK, image, control, tables
<1>2. Unreaped' = Unreaped BY DEF Unreaped
<1>3. TableIsExact' BY <1>2, TableUndisturbed DEF IInv
<1>4. NoWorkerLeftBehind' BY <1>2 DEF IInv, NoWorkerLeftBehind, image
<1>5. OrderIsPursued' BY DEF IInv, OrderIsPursued, image, control, tables
<1>6. Phases' BY DEF IInv, Phases, image, control
<1>7. PostedToLiving' BY DEF PostedToLiving
<1>8. QED BY <1>1, <1>3, <1>4, <1>5, <1>6, <1>7 DEF IInv

(* The counter of all the children says zero only when there is no worker. *)
LEMMA CounterZero ==
  ASSUME TypeOK, TableIsExact, all_running = 0
  PROVE  Unreaped = {}
<1>1. children \in [Pool -> SUBSET Pid] BY DEF TypeOK
<1>2. IsFiniteSet(Linked) /\ Cardinality(Linked) = 0 BY <1>1, TableFinite DEF TableIsExact
<1>3. Linked = {} BY <1>2, FS_EmptySet
<1>4. QED BY <1>3 DEF TableIsExact

(* What the controller does on an order or on its timer. *)
LEMMA OrderStepPreserves ==
  ASSUME IInv, UNCHANGED <<making, todo, tables, proc, pending, quota>>,
         pc \in {"read", "loop"},
         sp' \in Seq(Command \cup {"CHLD"}), Len(sp') <= SpCapacity,
         fpm_state' \in State,
         fpm_signal_sent' \in {"none", "QUIT", "TERM", "KILL"},
         pctl_event' \in BOOLEAN,
         posted' \in [Pid -> {"none", "soft", "KILL"}],
         \A p \in Pid : posted'[p] # "none" => proc[p] \in Living,
         \/ pc' = pc /\ UNCHANGED control
         \/ /\ fpm_state' # "normal"
            /\ \/ all_running = 0 /\ pc' = "last" /\ pctl_event' = pctl_event
               \/ /\ all_running > 0 /\ pc' = pc /\ pctl_event' = TRUE
                  /\ fpm_signal_sent' # "none"
  PROVE  IInv'
<1>1. TypeOK' BY DEF IInv, TypeOK, tables
<1>2. Unreaped' = Unreaped BY DEF Unreaped
<1>3. TableIsExact' BY <1>2, TableUndisturbed DEF IInv
<1>4. NoWorkerLeftBehind'
  BY <1>2, CounterZero DEF IInv, NoWorkerLeftBehind
<1>5. OrderIsPursued'
  BY DEF IInv, OrderIsPursued, control, tables
<1>6. Phases' BY DEF IInv, Phases, control
<1>7. PostedToLiving' BY DEF PostedToLiving
<1>8. QED BY <1>1, <1>3, <1>4, <1>5, <1>6, <1>7 DEF IInv

(* A turn of the loop of fpm_got_signal. *)
LEMMA GotSignalPreserves == ASSUME IInv, GotSignal PROVE IInv'
<1> USE DEF IInv
<1>1. /\ sp \in Seq(Command \cup {"CHLD"}) /\ sp # <<>> /\ Len(sp) <= SpCapacity
      /\ sp' = Tail(sp) /\ SpCapacity \in Nat
  BY MasterAssumption DEF GotSignal, TypeOK
<1>2. /\ Head(sp) \in Command \cup {"CHLD"}
      /\ sp' \in Seq(Command \cup {"CHLD"}) /\ Len(sp') <= SpCapacity
  BY <1>1
<1>3. UNCHANGED <<making, todo, tables, proc, pending, quota>> /\ pc = "read"
  BY DEF GotSignal
<1>4. all_running \in Nat BY DEF TypeOK
<1>5. CASE Head(sp) = "CHLD"
  <2>1. pc' = "bury" /\ UNCHANGED <<control, posted>> BY <1>5 DEF GotSignal
  <2>2. QED BY <1>2, <1>3, <2>1, ControlStepPreserves DEF TypeOK
<1>6. CASE Head(sp) = "USR1"
  <2>1. UNCHANGED <<pc, control, posted>> BY <1>6 DEF GotSignal
  <2>2. QED BY <1>2, <1>3, <2>1, ControlStepPreserves DEF TypeOK
<1>7. ASSUME NEW new \in State, new # "normal", SetState(new, all_running, "read")
      PROVE  IInv'
  <2>1. /\ fpm_state' \in State
        /\ fpm_signal_sent' \in {"none", "QUIT", "TERM", "KILL"}
        /\ pctl_event' \in BOOLEAN
        /\ posted' \in [Pid -> {"none", "soft", "KILL"}]
        /\ \A p \in Pid : posted'[p] # "none" => proc[p] \in Living
        /\ \/ pc' = "read" /\ UNCHANGED control
           \/ /\ fpm_state' = new
              /\ \/ all_running = 0 /\ pc' = "last" /\ pctl_event' = pctl_event
                 \/ /\ all_running > 0 /\ pc' = "read" /\ pctl_event' = TRUE
                    /\ fpm_signal_sent' # "none"
    BY <1>4, <1>7, SetStateEffect
  <2>2. QED BY <1>2, <1>3, <1>7, <2>1, OrderStepPreserves
<1>8. CASE Head(sp) \in {"TERM", "INT"}
  <2>1. SetState("terminating", all_running, "read") BY <1>8 DEF GotSignal
  <2>2. QED BY <1>7, <2>1 DEF State
<1>9. CASE Head(sp) = "QUIT"
  <2>1. SetState("finishing", all_running, "read") BY <1>9 DEF GotSignal
  <2>2. QED BY <1>7, <2>1 DEF State
<1>10. CASE Head(sp) = "USR2"
  <2>1. SetState("reloading", all_running, "read") BY <1>10 DEF GotSignal
  <2>2. QED BY <1>7, <2>1 DEF State
<1>11. QED BY <1>2, <1>5, <1>6, <1>8, <1>9, <1>10 DEF Command

(* The timer. *)
LEMMA TimeoutPreserves == ASSUME IInv, Timeout PROVE IInv'
<1>1. /\ pc = "loop" /\ pctl_event
      /\ ActionNext(fpm_state, fpm_signal_sent, all_running, "loop")
      /\ UNCHANGED <<making, todo, tables, proc, pending, sp, quota>>
  BY DEF Timeout
<1>2. /\ all_running \in Nat /\ fpm_state \in State /\ fpm_state # "normal"
      /\ fpm_signal_sent \in {"none", "QUIT", "TERM", "KILL"}
      /\ pctl_event \in BOOLEAN
      /\ sp \in Seq(Command \cup {"CHLD"}) /\ Len(sp) <= SpCapacity
  BY <1>1 DEF IInv, TypeOK, Phases
<1>3. /\ fpm_state' = fpm_state
      /\ fpm_signal_sent' \in {"none", "QUIT", "TERM", "KILL"}
      /\ posted' \in [Pid -> {"none", "soft", "KILL"}]
      /\ \A p \in Pid : posted'[p] # "none" => proc[p] \in Living
      /\ \/ all_running = 0 /\ pc' = "last" /\ pctl_event' = pctl_event
         \/ /\ all_running > 0 /\ pc' = "loop" /\ pctl_event' = TRUE
            /\ fpm_signal_sent' # "none"
  BY <1>1, <1>2, ActionNextEffect DEF IInv
<1>4. QED BY <1>1, <1>2, <1>3, OrderStepPreserves

(* A fork. *)
LEMMA ForkPreserves == ASSUME IInv, NEW p \in Pid, Fork(p) PROVE IInv'
<1>1. /\ pc \in {"start", "bury"} /\ making \in Pool /\ fpm_state = "normal"
      /\ running_children[making] < MaxChildren[making]
      /\ proc[p] = "free" /\ proc' = [proc EXCEPT ![p] = "init"]
      /\ Link(p, making)
      /\ UNCHANGED <<image, control, posted, pending, sp, quota>>
  BY DEF IInv, TypeOK, Fork, Making, WantsChild
<1>2. p \notin Unreaped BY <1>1 DEF Unreaped
<1>3. /\ TableIsExact'
      /\ children' \in [Pool -> SUBSET Pid]
      /\ running_children' \in [Pool -> Nat]
      /\ all_running' \in Nat
  BY <1>1, <1>2, LinkExact DEF IInv
<1>4. \A q \in Pool : running_children'[q] <= MaxChildren[q]
  <2>1. \A q \in Pool : /\ running_children[q] \in Nat /\ MaxChildren[q] \in Nat
                        /\ running_children[q] <= MaxChildren[q]
    BY MasterAssumption DEF IInv, TypeOK
  <2>2. \A q \in Pool : running_children'[q] =
                          IF q = making THEN running_children[q] + 1 ELSE running_children[q]
    BY <1>1 DEF IInv, TypeOK, Link
  <2>3. QED BY <1>1, <2>1, <2>2
<1>5. TypeOK' BY <1>1, <1>3, <1>4 DEF IInv, TypeOK, Living, image, control
<1>6. NoWorkerLeftBehind' /\ OrderIsPursued'
  BY <1>1 DEF NoWorkerLeftBehind, OrderIsPursued, image, control
<1>7. Phases' BY <1>1 DEF IInv, Phases, image, control
<1>8. PostedToLiving' BY <1>1 DEF IInv, TypeOK, PostedToLiving, Living
<1>9. QED BY <1>3, <1>5, <1>6, <1>7, <1>8 DEF IInv

(* The burial of a child, with the order its crash may give. *)
LEMMA BuryChildPreserves ==
  ASSUME IInv, NEW p \in Pid, NEW q \in Pool, BuryChild(p, q)
  PROVE  IInv'
<1> DEFINE left == all_running - 1
<1>1. /\ pc = "bury" /\ making = NoPool
      /\ proc[p] \in Zombie /\ p \in children[q]
      /\ proc' = [proc EXCEPT ![p] = "free"]
      /\ Unlink(p, q)
      /\ AfterChild(q, left, proc[p] = "faulted")
      /\ UNCHANGED <<todo, pending, sp, quota>>
  BY DEF BuryChild, CanWait
<1>2. /\ TableIsExact'
      /\ children' \in [Pool -> SUBSET Pid]
      /\ running_children' \in [Pool -> Nat]
      /\ \A r \in Pool : running_children'[r] <= MaxChildren[r]
      /\ all_running' \in Nat
      /\ Unreaped' = Unreaped \ {p}
  BY <1>1, UnlinkExact DEF IInv
<1>3. all_running' = left /\ left \in Nat BY <1>1, <1>2 DEF Unlink
<1>4. proc' \in [Pid -> {"free"} \cup Living \cup Zombie]
  BY <1>1 DEF IInv, TypeOK
<1>5. \A r \in Pid : posted[r] # "none" => proc'[r] \in Living
  BY <1>1 DEF IInv, TypeOK, PostedToLiving, Living, Zombie
<1>6. /\ fpm_state' \in State
      /\ fpm_signal_sent' \in {"none", "QUIT", "TERM", "KILL"}
      /\ pctl_event' \in BOOLEAN
      /\ posted' \in [Pid -> {"none", "soft", "KILL"}]
      /\ \A r \in Pid : posted'[r] # "none" => proc[r] \in Living
      /\ making' \in Pool \cup {NoPool}
      /\ \/ /\ pc' = "bury" /\ UNCHANGED control
            /\ fpm_state # "normal" => left > 0
         \/ left = 0 /\ pc' = "last" /\ fpm_state' # "normal" /\ pctl_event' = pctl_event
         \/ /\ left > 0 /\ pc' = "bury" /\ fpm_state' # "normal" /\ pctl_event' = TRUE
            /\ fpm_signal_sent' # "none"
  <2>1. CASE LastChild(left) /\ pc' = "last" /\ UNCHANGED <<making, control, posted>>
    BY <2>1 DEF LastChild, NoneRunning, IInv, TypeOK, PostedToLiving, control
  <2>2. CASE ~LastChild(left) /\ making' = q /\ UNCHANGED <<pc, control, posted>>
    BY <1>1, <1>3, <2>2 DEF LastChild, NoneRunning, IInv, TypeOK, PostedToLiving, control
  <2>3. CASE ~LastChild(left) /\ making' = q /\ SetState("reloading", left, "bury")
    <3>1. /\ fpm_state' \in State
          /\ fpm_signal_sent' \in {"none", "QUIT", "TERM", "KILL"}
          /\ pctl_event' \in BOOLEAN
          /\ posted' \in [Pid -> {"none", "soft", "KILL"}]
          /\ \A r \in Pid : posted'[r] # "none" => proc[r] \in Living
          /\ \/ pc' = "bury" /\ UNCHANGED control
             \/ /\ fpm_state' = "reloading"
                /\ \/ left = 0 /\ pc' = "last" /\ pctl_event' = pctl_event
                   \/ /\ left > 0 /\ pc' = "bury" /\ pctl_event' = TRUE
                      /\ fpm_signal_sent' # "none"
      BY <1>3, <2>3, SetStateEffect DEF IInv, State
    <3>2. fpm_state # "normal" => left > 0
      <4>1. ~LastChild(left) BY <2>3
      <4>2. left \in Nat /\ all_running \in Nat BY <1>3 DEF IInv, TypeOK
      <4>3. QED BY <4>1, <4>2 DEF LastChild, NoneRunning
    <3>3. QED BY <2>3, <3>1, <3>2
  <2>4. QED BY <1>1, <2>1, <2>2, <2>3 DEF AfterChild
<1>7. TypeOK' BY <1>1, <1>2, <1>4, <1>6 DEF IInv, TypeOK
<1>8. NoWorkerLeftBehind'
  <2>1. left = 0 => Unreaped' = {}
    <3> SUFFICES ASSUME left = 0 PROVE Unreaped' = {} OBVIOUS
    <3>1. IsFiniteSet(Linked') /\ Cardinality(Linked') = 0
      <4>1. Linked' \in SUBSET Pid BY <1>2 DEF Linked
      <4>2. QED BY <1>2, <1>3, <4>1, MasterAssumption, FS_Subset DEF TableIsExact
    <3>2. Linked' = {} BY <3>1, FS_EmptySet
    <3>3. QED BY <1>2, <3>2 DEF TableIsExact
  <2>2. QED BY <1>6, <2>1 DEF NoWorkerLeftBehind
<1>9. OrderIsPursued'
  BY <1>1, <1>3, <1>6 DEF IInv, OrderIsPursued, control
<1>10. Phases'
  BY <1>1, <1>6 DEF IInv, Phases, control
<1>11. PostedToLiving'
  BY <1>1, <1>6 DEF IInv, TypeOK, PostedToLiving, Living, Zombie
<1>12. QED BY <1>2, <1>7, <1>8, <1>9, <1>10, <1>11 DEF IInv

-----------------------------------------------------------------------------
(* Every step preserves the inductive invariant. *)
LEMMA NextPreserves == IInv /\ [Next]_vars => IInv'
<1> SUFFICES ASSUME IInv, [Next]_vars PROVE IInv'
  OBVIOUS
<1>1. /\ making \in Pool \cup {NoPool} /\ todo \in SUBSET Pool
      /\ sp \in Seq(Command \cup {"CHLD"}) /\ Len(sp) <= SpCapacity
      /\ pending \in SUBSET (Command \cup {"CHLD"})
      /\ quota \in 0..MaxAdminSignals
      /\ proc \in [Pid -> {"free"} \cup Living \cup Zombie]
      /\ posted \in [Pid -> {"none", "soft", "KILL"}]
      /\ \A p \in Pid : posted[p] # "none" => proc[p] \in Living
  BY DEF IInv, TypeOK, PostedToLiving
<1>2. CASE InitMain
  BY <1>1, <1>2, ControlStepPreserves DEF InitMain, kernel
<1>3. CASE EnterLoop
  BY <1>1, <1>3, ControlStepPreserves DEF EnterLoop, kernel
<1>4. CASE MakeEnds
  BY <1>1, <1>4, ControlStepPreserves DEF MakeEnds, Making, kernel
<1>5. CASE BuryEnds
  BY <1>1, <1>5, ControlStepPreserves DEF BuryEnds, CanWait, kernel
<1>6. CASE SignalEvent
  BY <1>1, <1>6, ControlStepPreserves DEF SignalEvent, kernel
<1>7. CASE GotSignal
  BY <1>7, GotSignalPreserves
<1>8. CASE ReadEnds
  BY <1>1, <1>8, ControlStepPreserves DEF ReadEnds, kernel
<1>9. CASE Exec
  BY <1>9, BootPreserves DEF Exec
<1>10. CASE Exit \/ \E s \in Command \cup {"CHLD"} : DefaultAction(s) /\ s # "CHLD"
  <2>1. /\ pc \in {"boot", "last"} /\ pc' = "gone" /\ pending' = {}
        /\ UNCHANGED <<making, todo, control, tables, proc, posted, sp, quota>>
    BY <1>10 DEF Exit, DefaultAction, Gone
  <2>2. TypeOK' BY <2>1 DEF IInv, TypeOK, control, tables
  <2>3. Unreaped' = Unreaped BY <2>1 DEF Unreaped
  <2>4. TableIsExact' BY <2>1, <2>3, TableUndisturbed DEF IInv
  <2>5. NoWorkerLeftBehind' BY <2>1, <2>3 DEF IInv, NoWorkerLeftBehind
  <2>6. OrderIsPursued' /\ Phases' BY <2>1 DEF IInv, OrderIsPursued, Phases, control
  <2>7. PostedToLiving' BY <2>1 DEF IInv, PostedToLiving
  <2>8. QED BY <2>2, <2>4, <2>5, <2>6, <2>7 DEF IInv
<1>11. ASSUME NEW q \in Pool, StartPool(q) PROVE IInv'
  BY <1>1, <1>11, ControlStepPreserves DEF StartPool, kernel
<1>12. ASSUME NEW p \in Pid, Fork(p) PROVE IInv'
  BY <1>12, ForkPreserves
<1>13. ASSUME NEW p \in Pid, BuryStopped(p) PROVE IInv'
  <2>1. /\ proc[p] = "trapped" /\ proc' = [proc EXCEPT ![p] = "stopped"]
        /\ UNCHANGED <<image, control, tables, posted, pending, sp, quota>>
    BY <1>13 DEF BuryStopped
  <2>2. QED BY <1>1, <2>1, ProcessStepPreserves DEF Living
<1>14. ASSUME NEW p \in Pid, NEW q \in Pool, BuryChild(p, q) PROVE IInv'
  BY <1>14, BuryChildPreserves
<1>15. CASE Timeout
  BY <1>15, TimeoutPreserves
<1>16. ASSUME NEW s \in Command \cup {"CHLD"}, SigHandler(s) PROVE IInv'
  <2>1. /\ pc \notin {"boot", "gone"} /\ s \in pending
        /\ pending' = pending \ {s}
        /\ sp' = IF Len(sp) < SpCapacity THEN Append(sp, s) ELSE sp
        /\ UNCHANGED <<image, control, tables, proc, posted, quota>>
    BY <1>16 DEF SigHandler
  <2>2. sp' \in Seq(Command \cup {"CHLD"}) /\ Len(sp') <= SpCapacity
    BY <1>1, <2>1, MasterAssumption
  <2>3. TypeOK' BY <2>1, <2>2 DEF IInv, TypeOK, image, control, tables
  <2>4. Unreaped' = Unreaped BY <2>1 DEF Unreaped
  <2>5. TableIsExact' BY <2>1, <2>4, TableUndisturbed DEF IInv
  <2>6. NoWorkerLeftBehind' BY <2>1, <2>4 DEF IInv, NoWorkerLeftBehind, image
  <2>7. OrderIsPursued' /\ Phases'
    BY <2>1 DEF IInv, OrderIsPursued, Phases, image, control, tables
  <2>8. PostedToLiving' BY <2>1 DEF IInv, PostedToLiving
  <2>9. QED BY <2>3, <2>5, <2>6, <2>7, <2>8 DEF IInv
<1>17. ASSUME NEW s \in Command \cup {"CHLD"}, DefaultAction(s) PROVE IInv'
  <2>1. CASE s # "CHLD" BY <1>10, <1>17, <2>1
  <2>2. CASE s = "CHLD"
    <3>1. /\ pending' = pending \ {s}
          /\ UNCHANGED <<image, control, tables, proc, posted, sp, quota>>
      BY <1>17, <2>2 DEF DefaultAction, image
    <3>2. QED BY <1>1, <3>1, ProcessStepPreserves
  <2>3. QED BY <2>1, <2>2
<1>18. CASE Daemonize
  BY <1>1, <1>18, ProcessStepPreserves DEF Daemonize
<1>19. ASSUME NEW p \in Pid, WorkerReady(p) PROVE IInv'
  <2>1. /\ proc[p] = "init" /\ proc' = [proc EXCEPT ![p] = "ready"]
        /\ UNCHANGED <<image, control, tables, posted, pending, sp, quota>>
    BY <1>19 DEF WorkerReady
  <2>2. QED BY <1>1, <2>1, ProcessStepPreserves DEF Living
<1>20. ASSUME NEW p \in Pid, WorkerEnds(p) PROVE IInv'
  <2>1. PICK how \in Zombie : /\ proc' = [proc EXCEPT ![p] = how]
                              /\ pending' = pending \cup {"CHLD"}
    BY <1>20 DEF WorkerEnds, Becomes
  <2>2. /\ proc[p] \in {"init", "ready"} /\ posted' = [posted EXCEPT ![p] = "none"]
        /\ UNCHANGED <<image, control, tables, sp, quota>>
    BY <1>20 DEF WorkerEnds
  <2>3. QED BY <1>1, <2>1, <2>2, ProcessStepPreserves DEF Living, Zombie
<1>21. ASSUME NEW p \in Pid, WorkerTakes(p) PROVE IInv'
  <2>1. /\ posted[p] # "none" /\ posted' = [posted EXCEPT ![p] = "none"]
        /\ UNCHANGED <<image, control, tables, sp, quota>>
        /\ \/ proc' = [proc EXCEPT ![p] = "exited"] /\ pending' = pending \cup {"CHLD"}
           \/ UNCHANGED <<proc, pending>>
    BY <1>21 DEF WorkerTakes, Becomes
  <2>2. proc[p] \in Living BY <1>1, <2>1
  <2>3. QED BY <1>1, <2>1, <2>2, ProcessStepPreserves DEF Living, Zombie
<1>22. CASE Start
  BY <1>22, BootPreserves DEF Start
<1>23. ASSUME NEW s \in AdminSignals, SignalMaster(s) PROVE IInv'
  <2>1. /\ pending' = pending \cup {s} /\ quota > 0 /\ quota' = quota - 1
        /\ UNCHANGED <<image, control, tables, proc, posted, sp>>
    BY <1>23 DEF SignalMaster, Spend
  <2>2. quota' \in 0..MaxAdminSignals BY <1>1, <2>1, MasterAssumption
  <2>3. QED BY <1>1, <2>1, <2>2, MasterAssumption, ProcessStepPreserves
<1>24. ASSUME NEW p \in Pid, StopWorker(p) \/ ContinueWorker(p) PROVE IInv'
  <2>1. /\ proc[p] \in Living /\ quota > 0 /\ quota' = quota - 1
        /\ \E s \in Living : proc' = [proc EXCEPT ![p] = s]
        /\ pending' = pending \cup {"CHLD"}
        /\ UNCHANGED <<image, control, tables, posted, sp>>
    BY <1>24 DEF StopWorker, ContinueWorker, Spend, Becomes, Living
  <2>2. quota' \in 0..MaxAdminSignals BY <1>1, <2>1, MasterAssumption
  <2>3. PICK s \in Living : proc' = [proc EXCEPT ![p] = s] BY <2>1
  <2>4. QED BY <1>1, <2>1, <2>2, <2>3, ProcessStepPreserves DEF Living
<1>25. CASE UNCHANGED vars
  <2>1. UNCHANGED <<image, control, tables, kernel>> BY <1>25 DEF vars
  <2>2. QED BY <1>1, <2>1, ProcessStepPreserves DEF kernel
<1>26. QED
  BY <1>2, <1>3, <1>4, <1>5, <1>6, <1>7, <1>8, <1>9, <1>10, <1>11, <1>12, <1>13,
     <1>14, <1>15, <1>16, <1>17, <1>18, <1>19, <1>20, <1>21, <1>22, <1>23, <1>24, <1>25
  DEF Next, Master, Signals, Workers, Admin

(* Type correctness, and the three parts that keep each other true, hold   *)
(* in every reachable state of the master.                                 *)
THEOREM MasterInvariant == Spec => []IInv
BY InitEstablishes, NextPreserves, PTL DEF Spec

(* Type correctness: every variable of the controller, the children table  *)
(* and the signal pipe keeps to its values, for any pools and process ids. *)
THEOREM MasterTypeCorrect == Spec => []TypeOK
<1>1. IInv => TypeOK BY DEF IInv
<1>2. QED BY <1>1, MasterInvariant, PTL

(* The children table is exact in every reachable state. *)
THEOREM MasterTableIsExact == Spec => []TableIsExact
<1>1. IInv => TableIsExact BY DEF IInv
<1>2. QED BY <1>1, MasterInvariant, PTL

(* The master never leaves a worker behind. *)
THEOREM MasterLeavesNobodyBehind == Spec => []NoWorkerLeftBehind
<1>1. IInv => NoWorkerLeftBehind BY DEF IInv
<1>2. QED BY <1>1, MasterInvariant, PTL

(* The controller never waits for an event that cannot come. *)
THEOREM MasterPursuesOrders == Spec => []OrderIsPursued
<1>1. IInv => OrderIsPursued BY DEF IInv
<1>2. QED BY <1>1, MasterInvariant, PTL

-----------------------------------------------------------------------------
(* PoolsAreFull.  In the normal state a pool that is not full is the one   *)
(* being filled, or is yet to be filled at the start; in the event loop    *)
(* there is neither.                                                       *)

FullOrFilling ==
  /\ pc = "boot" => todo = Pool
  /\ pc \in {"loop", "read"} => making = NoPool
  /\ pc \in {"start", "loop", "read", "bury"} /\ fpm_state = "normal" =>
       \A q \in Pool \ FailingPool :
         \/ q = making
         \/ pc = "start" /\ q \in todo
         \/ running_children[q] = MaxChildren[q]

(* What leaves control, controller and counters alone leaves this alone.   *)
LEMMA FillingUndisturbed ==
  ASSUME FullOrFilling, UNCHANGED <<pc, making, todo, fpm_state, running_children>>
  PROVE  FullOrFilling'
BY DEF FullOrFilling

(* Every step keeps FullOrFilling: a pool loses a worker only to become    *)
(* the one in making, and fpm_children_make ends when it is full.          *)
LEMMA FillingPreserved ==
  IInv /\ FullOrFilling /\ [Next]_vars => FullOrFilling'
<1> SUFFICES ASSUME IInv, FullOrFilling, [Next]_vars PROVE FullOrFilling'
  OBVIOUS
<1>1. /\ TypeOK /\ PostedToLiving /\ Phases
      /\ making \in Pool \cup {NoPool} /\ NoPool \notin Pool
      /\ running_children \in [Pool -> Nat] /\ all_running \in Nat
      /\ fpm_state \in State
      /\ \A q \in Pool : running_children[q] <= MaxChildren[q] /\ MaxChildren[q] \in Nat
  BY MasterAssumption DEF IInv, TypeOK
<1>2. CASE InitMain
  BY <1>2, <1>1 DEF InitMain, FullOrFilling
<1>3. CASE EnterLoop
  BY <1>3, <1>1 DEF EnterLoop, FullOrFilling, control, tables
<1>4. CASE MakeEnds
  <2>1. /\ making \in Pool /\ making' = NoPool /\ pc \in {"start", "bury"}
        /\ UNCHANGED <<pc, todo, fpm_state, running_children>>
    BY <1>4, <1>1 DEF MakeEnds, Making, control, tables
  <2>2. making \notin FailingPool /\ fpm_state = "normal"
          => running_children[making] = MaxChildren[making]
    BY <1>4, <1>1, <2>1 DEF MakeEnds, WantsChild
  <2>3. QED BY <2>1, <2>2 DEF FullOrFilling
<1>5. CASE BuryEnds
  BY <1>5 DEF BuryEnds, CanWait, FullOrFilling, control, tables
<1>6. CASE SignalEvent \/ ReadEnds
  BY <1>6 DEF SignalEvent, ReadEnds, FullOrFilling, control, tables
<1>7. CASE GotSignal
  <2>1. pc = "read" /\ UNCHANGED <<making, todo, running_children>>
    BY <1>7 DEF GotSignal, tables
  <2>2. making = NoPool BY <2>1 DEF FullOrFilling
  <2>3. \/ pc' \in {"read", "bury"} /\ UNCHANGED fpm_state
        \/ pc' \in {"read", "last"} /\ fpm_state' # "normal"
    <3>1. CASE Head(sp) \in {"CHLD", "USR1"}
      BY <1>7, <2>1, <3>1 DEF GotSignal, control
    <3>2. ASSUME NEW new \in {"terminating", "finishing", "reloading"},
                 SetState(new, all_running, "read")
          PROVE  \/ pc' = "read" /\ UNCHANGED fpm_state
                 \/ pc' \in {"read", "last"} /\ fpm_state' # "normal"
      BY <1>1, <3>2, SetStateEffect DEF State, control
    <3>3. Head(sp) \in Command \cup {"CHLD"}
      BY <1>1, <1>7 DEF GotSignal, TypeOK
    <3>4. QED BY <1>7, <3>1, <3>2, <3>3 DEF GotSignal, Command
  <2>4. QED BY <2>1, <2>2, <2>3 DEF FullOrFilling
<1>8. CASE Exec \/ Start
  BY <1>8 DEF Exec, Start, Boot, FullOrFilling
<1>9. CASE Exit
  BY <1>9 DEF Exit, Gone, FullOrFilling
<1>10. ASSUME NEW q \in Pool, StartPool(q) PROVE FullOrFilling'
  BY <1>10, <1>1 DEF StartPool, FullOrFilling, control, tables
<1>11. ASSUME NEW p \in Pid, Fork(p) PROVE FullOrFilling'
  <2>1. /\ making \in Pool /\ UNCHANGED <<pc, making, todo, fpm_state>>
        /\ \A q \in Pool : q # making => running_children'[q] = running_children[q]
    BY <1>11, <1>1 DEF Fork, Making, Link, image, control
  <2>2. QED BY <2>1 DEF FullOrFilling
<1>12. ASSUME NEW p \in Pid, BuryStopped(p) PROVE FullOrFilling'
  BY <1>12, FillingUndisturbed DEF BuryStopped, image, control, tables
<1>13. ASSUME NEW p \in Pid, NEW q \in Pool, BuryChild(p, q) PROVE FullOrFilling'
  <2>1. /\ pc = "bury" /\ making = NoPool /\ UNCHANGED todo
        /\ \A r \in Pool : r # q => running_children'[r] = running_children[r]
    BY <1>13, <1>1 DEF BuryChild, CanWait, Unlink
  <2>2. CASE pc' = "last"
    BY <2>2 DEF FullOrFilling
  <2>3. CASE pc' # "last"
    <3>1. AfterChild(q, all_running - 1, proc[p] = "faulted") BY <1>13 DEF BuryChild
    <3>2. making' = q BY <2>3, <3>1 DEF AfterChild
    <3>3. all_running - 1 \in Nat
      <4>1. p \in Linked BY <1>13 DEF BuryChild, Linked
      <4>2. all_running = Cardinality(Linked) /\ children \in [Pool -> SUBSET Pid]
        BY DEF IInv, TableIsExact, TypeOK
      <4>3. all_running # 0 BY <4>1, <4>2, TableFinite, FS_EmptySet
      <4>4. QED BY <4>3, <1>1
    <3>4. pc' = "bury" /\ (UNCHANGED fpm_state \/ fpm_state' # "normal")
      <4>1. CASE SetState("reloading", all_running - 1, "bury")
        <5>1. "reloading" \in State /\ "reloading" # "normal" BY DEF State
        <5>2. \/ pc' = "bury" /\ UNCHANGED control
              \/ /\ fpm_state' = "reloading"
                 /\ pc' \in {"last", "bury"}
          BY <1>1, <3>3, <4>1, <5>1, SetStateEffect
        <5>3. QED BY <2>3, <5>2 DEF control
      <4>2. CASE UNCHANGED <<pc, control, posted>>
        BY <2>1, <4>2 DEF control
      <4>3. QED BY <2>3, <3>1, <4>1, <4>2 DEF AfterChild
    <3>5. QED BY <1>1, <2>1, <3>2, <3>4 DEF FullOrFilling
  <2>4. QED BY <2>2, <2>3
<1>14. CASE Timeout
  BY <1>14, <1>1 DEF Timeout, Phases, ActionNext, FullOrFilling
<1>15. CASE Daemonize \/ \E s \in Command \cup {"CHLD"} : SigHandler(s)
  BY <1>15, FillingUndisturbed DEF Daemonize, SigHandler, image, control, tables
<1>16. ASSUME NEW s \in Command \cup {"CHLD"}, DefaultAction(s) PROVE FullOrFilling'
  BY <1>16 DEF DefaultAction, Gone, FullOrFilling
<1>17. CASE Workers
  BY <1>17, FillingUndisturbed
  DEF Workers, WorkerReady, WorkerEnds, WorkerTakes, image, control, tables
<1>18. CASE \/ \E s \in AdminSignals : SignalMaster(s)
            \/ \E p \in Pid : StopWorker(p) \/ ContinueWorker(p)
  BY <1>18, FillingUndisturbed
  DEF SignalMaster, StopWorker, ContinueWorker, image, control, tables
<1>19. CASE UNCHANGED vars
  BY <1>19, FillingUndisturbed DEF vars, image, control, tables
<1>20. QED
  BY <1>2, <1>3, <1>4, <1>5, <1>6, <1>7, <1>8, <1>9, <1>10, <1>11, <1>12, <1>13,
     <1>14, <1>15, <1>16, <1>17, <1>18, <1>19
  DEF Next, Master, Signals, Admin

(* Every pool whose forks succeed is at max_children in the event loop.    *)
THEOREM MasterKeepsPoolsFull == Spec => []PoolsAreFull
<1>1. Init => FullOrFilling BY DEF Init, FullOrFilling
<1>2. FullOrFilling => PoolsAreFull
  BY MasterAssumption DEF FullOrFilling, PoolsAreFull
<1>3. QED BY <1>1, <1>2, FillingPreserved, MasterInvariant, PTL DEF Spec

-----------------------------------------------------------------------------
(* The refinement of FpmLifecycle. *)

(* An order that overrides another is one of higher rank. *)
LEMMA OverridesRaises ==
  ASSUME NEW new \in State, NEW old \in State, new # old, new # "normal",
         Overrides(new, old)
  PROVE  Lifecycle!Rank[new] > Lifecycle!Rank[old]
<1>1. /\ Lifecycle!Rank["normal"] = 0 /\ Lifecycle!Rank["reloading"] = 1
      /\ Lifecycle!Rank["finishing"] = 2 /\ Lifecycle!Rank["terminating"] = 3
  BY DEF Lifecycle!Rank, Lifecycle!Orders
<1>2. \/ old = "normal" /\ new \in {"reloading", "finishing", "terminating"}
      \/ old = "reloading" /\ new \in {"finishing", "terminating"}
      \/ old = "finishing" /\ new = "terminating"
  BY DEF Overrides, State
<1>3. QED BY <1>1, <1>2

(* A step that leaves the mode and the crew alone stutters. *)
LEMMA StutterRefines ==
  ASSUME UNCHANGED <<fpm_state, proc>>, pc # "boot", pc # "gone", pc' # "boot", pc' # "gone"
  PROVE  UNCHANGED <<Mode, Unreaped>>
BY DEF Mode, Unreaped

(* SetState is an Order of the contract, or changes nothing it knows of. *)
LEMMA SetStateRefines ==
  ASSUME IInv, UNCHANGED proc, pc = "read",
         NEW new \in State, new # "normal", SetState(new, all_running, "read")
  PROVE  Lifecycle!LifecycleNext \/ UNCHANGED <<Mode, Unreaped>>
<1>1. all_running \in Nat /\ fpm_state \in State BY DEF IInv, TypeOK
<1>2. /\ pc' \in {"read", "last"}
      /\ \/ UNCHANGED fpm_state
         \/ fpm_state' = new /\ new # fpm_state /\ Overrides(new, fpm_state)
  BY <1>1, SetStateEffect DEF IInv, control
<1>3. CASE UNCHANGED fpm_state BY <1>2, <1>3, StutterRefines
<1>4. CASE fpm_state' = new /\ new # fpm_state /\ Overrides(new, fpm_state)
  <2>1. Unreaped' = Unreaped BY DEF Unreaped
  <2>2. Mode = fpm_state /\ Mode' = new BY <1>2, <1>4 DEF Mode
  <2>3. Lifecycle!Rank[new] > Lifecycle!Rank[fpm_state]
    BY <1>1, <1>4, OverridesRaises
  <2>4. Lifecycle!Order(new)
    BY <1>1, <2>1, <2>2, <2>3 DEF Lifecycle!Order, Lifecycle!Orders, State
  <2>5. QED BY <2>4 DEF Lifecycle!LifecycleNext, Lifecycle!Orders, State
<1>5. QED BY <1>2, <1>3, <1>4

(* Every step of the master is a step of the contract or a stutter. *)
LEMMA NextRefines ==
  ASSUME IInv, [Next]_vars
  PROVE  Lifecycle!LifecycleNext \/ UNCHANGED <<Mode, Unreaped>>
<1> DEFINE Goal == Lifecycle!LifecycleNext \/ UNCHANGED <<Mode, Unreaped>>
<1>1. /\ proc \in [Pid -> {"free"} \cup Living \cup Zombie]
      /\ fpm_state \in State
      /\ \A p \in Pid : posted[p] # "none" => proc[p] \in Living
      /\ pc \in {"boot", "start"} => fpm_state = "normal"
      /\ pc \in {"boot", "last", "gone"} => Unreaped = {}
      /\ pc = "last" => fpm_state # "normal"
  BY DEF IInv, TypeOK, Phases, PostedToLiving, NoWorkerLeftBehind
<1>2. CASE InitMain
  <2>1. Mode = "booting" /\ Mode' = "normal" /\ Unreaped' = Unreaped
    BY <1>1, <1>2 DEF InitMain, Mode, Unreaped, control, kernel
  <2>2. QED BY <2>1 DEF Lifecycle!LifecycleNext, Lifecycle!Serve
<1>3. CASE EnterLoop \/ MakeEnds \/ BuryEnds \/ SignalEvent \/ ReadEnds
  <2>1. /\ UNCHANGED <<fpm_state, proc>>
        /\ pc # "boot" /\ pc # "gone" /\ pc' # "boot" /\ pc' # "gone"
    BY <1>3 DEF EnterLoop, MakeEnds, Making, BuryEnds, CanWait, SignalEvent, ReadEnds,
                control, kernel
  <2>2. QED BY <2>1, StutterRefines
<1>4. CASE GotSignal
  <2>1. pc = "read" /\ UNCHANGED proc BY <1>4 DEF GotSignal
  <2>2. sp \in Seq(Command \cup {"CHLD"}) /\ sp # <<>>
    BY <1>4 DEF GotSignal, IInv, TypeOK
  <2>3. Head(sp) \in Command \cup {"CHLD"} BY <2>2
  <2>4. CASE Head(sp) \in {"CHLD", "USR1"}
    <3>1. UNCHANGED fpm_state /\ pc' \in {"read", "bury"}
      BY <1>4, <2>1, <2>4 DEF GotSignal, control
    <3>2. QED BY <2>1, <3>1, StutterRefines
  <2>5. CASE Head(sp) \in {"TERM", "INT"}
    <3>1. SetState("terminating", all_running, "read") BY <1>4, <2>5 DEF GotSignal
    <3>2. QED BY <2>1, <3>1, SetStateRefines DEF State
  <2>6. CASE Head(sp) = "QUIT"
    <3>1. SetState("finishing", all_running, "read") BY <1>4, <2>6 DEF GotSignal
    <3>2. QED BY <2>1, <3>1, SetStateRefines DEF State
  <2>7. CASE Head(sp) = "USR2"
    <3>1. SetState("reloading", all_running, "read") BY <1>4, <2>7 DEF GotSignal
    <3>2. QED BY <2>1, <3>1, SetStateRefines DEF State
  <2>8. QED BY <2>3, <2>4, <2>5, <2>6, <2>7 DEF Command
<1>5. CASE Timeout
  <2>1. UNCHANGED <<fpm_state, proc>> /\ pc = "loop" /\ pc' \in {"loop", "last"}
    BY <1>5 DEF Timeout, ActionNext
  <2>2. QED BY <2>1, StutterRefines
<1>6. CASE Exec
  <2>1. Mode = "reloading" /\ Mode' = "booting" /\ Unreaped' = Unreaped /\ Unreaped = {}
    BY <1>1, <1>6 DEF Exec, Boot, Mode, Unreaped
  <2>2. QED BY <2>1 DEF Lifecycle!LifecycleNext, Lifecycle!Leave
<1>7. CASE Exit
  <2>1. /\ Mode \in {"reloading", "finishing", "terminating"} /\ Mode' = "ended"
        /\ Unreaped' = Unreaped /\ Unreaped = {}
    BY <1>1, <1>7 DEF Exit, Gone, Mode, Unreaped, State
  <2>2. QED BY <2>1 DEF Lifecycle!LifecycleNext, Lifecycle!Leave
<1>8. ASSUME NEW q \in Pool, StartPool(q) PROVE Goal
  <2>1. UNCHANGED <<fpm_state, proc>> /\ pc = "start" /\ pc' = "start"
    BY <1>8 DEF StartPool, control, kernel
  <2>2. QED BY <2>1, StutterRefines
<1>9. ASSUME NEW p \in Pid, Fork(p) PROVE Goal
  <2>1. /\ Mode = "normal" /\ Mode' = "normal"
        /\ p \notin Unreaped /\ Unreaped' = Unreaped \cup {p}
    BY <1>1, <1>9 DEF Fork, Making, WantsChild, Mode, Unreaped, image, control
  <2>2. QED BY <2>1 DEF Lifecycle!LifecycleNext, Lifecycle!Hire
<1>10. ASSUME NEW p \in Pid, BuryStopped(p) PROVE Goal
  <2>1. Unreaped' = Unreaped BY <1>1, <1>10 DEF BuryStopped, Unreaped
  <2>2. Mode' = Mode BY <1>10 DEF BuryStopped, Mode, image, control
  <2>3. QED BY <2>1, <2>2
<1>11. ASSUME NEW p \in Pid, NEW q \in Pool, BuryChild(p, q) PROVE Goal
  <2>1. p \in Unreaped /\ Unreaped' = Unreaped \ {p}
    BY <1>1, <1>11 DEF BuryChild, Unreaped, Zombie
  <2>2. /\ pc = "bury" /\ pc' \in {"bury", "last"}
        /\ \/ fpm_state' = fpm_state
           \/ fpm_state = "normal" /\ fpm_state' = "reloading"
    BY <1>1, <1>11
    DEF BuryChild, CanWait, AfterChild, SetState, ActionNext, Overrides, control, State
  <2>3. /\ Mode = fpm_state /\ Mode \in Lifecycle!Orders
        /\ Mode' = Mode \/ (Mode = "normal" /\ Mode' = "reloading")
    BY <1>1, <2>2 DEF Mode, State, Lifecycle!Orders
  <2>4. Lifecycle!Retire(p) BY <2>1, <2>3 DEF Lifecycle!Retire
  <2>5. QED BY <2>4 DEF Lifecycle!LifecycleNext
<1>12. ASSUME NEW s \in Command \cup {"CHLD"}, SigHandler(s) PROVE Goal
  <2>1. UNCHANGED <<pc, fpm_state, proc>> BY <1>12 DEF SigHandler, image, control
  <2>2. QED BY <2>1 DEF Mode, Unreaped
<1>13. ASSUME NEW s \in Command \cup {"CHLD"}, DefaultAction(s) PROVE Goal
  <2>1. /\ Unreaped = {} /\ Unreaped' = Unreaped /\ Mode = "booting"
        /\ UNCHANGED Mode \/ Mode' = "ended"
    BY <1>1, <1>13 DEF DefaultAction, Gone, Mode, Unreaped, control
  <2>2. QED BY <2>1 DEF Lifecycle!LifecycleNext, Lifecycle!Leave
<1>14. CASE Daemonize
  BY <1>14 DEF Daemonize, Mode, Unreaped, image, control
<1>15. ASSUME NEW p \in Pid, WorkerReady(p) \/ WorkerEnds(p) \/ WorkerTakes(p) PROVE Goal
  <2>1. UNCHANGED <<image, control>>
    BY <1>15 DEF WorkerReady, WorkerEnds, WorkerTakes
  <2>2. \/ UNCHANGED proc
        \/ proc[p] \in Living /\ \E s \in Living \cup Zombie : proc' = [proc EXCEPT ![p] = s]
    BY <1>1, <1>15 DEF WorkerReady, WorkerEnds, WorkerTakes, Becomes, Living, Zombie
  <2>3. Unreaped' = Unreaped BY <1>1, <2>2 DEF Unreaped, Living, Zombie
  <2>4. QED BY <2>1, <2>3 DEF Mode, image, control
<1>16. CASE Start
  <2>1. Mode = "ended" /\ Mode' = "booting" /\ Unreaped' = Unreaped
    BY <1>16 DEF Start, Boot, Mode, Unreaped
  <2>2. QED BY <2>1 DEF Lifecycle!LifecycleNext, Lifecycle!Restart
<1>17. ASSUME NEW s \in AdminSignals, SignalMaster(s) PROVE Goal
  <2>1. UNCHANGED <<pc, fpm_state, proc>> BY <1>17 DEF SignalMaster, image, control
  <2>2. QED BY <2>1 DEF Mode, Unreaped
<1>18. ASSUME NEW p \in Pid, StopWorker(p) \/ ContinueWorker(p) PROVE Goal
  <2>1. UNCHANGED <<image, control>> BY <1>18 DEF StopWorker, ContinueWorker
  <2>2. proc[p] # "free" /\ \E s \in Living : proc' = [proc EXCEPT ![p] = s]
    BY <1>18 DEF StopWorker, ContinueWorker, Becomes, Living
  <2>3. Unreaped' = Unreaped BY <1>1, <2>2 DEF Unreaped, Living
  <2>4. QED BY <2>1, <2>3 DEF Mode, image, control
<1>19. CASE UNCHANGED vars
  BY <1>19 DEF vars, image, control, kernel, Mode, Unreaped
<1>20. QED
  BY <1>2, <1>3, <1>4, <1>5, <1>6, <1>7, <1>8, <1>9, <1>10, <1>11, <1>12, <1>13,
     <1>14, <1>15, <1>16, <1>17, <1>18, <1>19
  DEF Next, Master, Signals, Workers, Admin

(* The master implements the contract that startfpm relies on. *)
THEOREM MasterImplementsLifecycle == Spec => ImplementsLifecycle
<1>1. Init => Lifecycle!LifecycleInit
  BY DEF Init, Lifecycle!LifecycleInit, Mode, Unreaped
<1>2. IInv /\ [Next]_vars => [Lifecycle!LifecycleNext]_<<Mode, Unreaped>>
  BY NextRefines
<1>3. QED
  BY <1>1, <1>2, MasterInvariant, PTL
  DEF Spec, ImplementsLifecycle, Lifecycle!LifecycleSpec, Lifecycle!lifecycleVars

-----------------------------------------------------------------------------
(* The place that was written k faults before the next one, f. *)
Back(f, k) == IF k <= f THEN f - k ELSE f - k + Threshold

(* Going back from the place in use the ring has the last faults of the    *)
(* image, and behind the first one the zeros it was cleared with.          *)
RingIsHistory ==
  \A k \in 1..Threshold :
    ring[Back(fault, k)] = IF k <= Len(history) THEN Ago(k) ELSE 0

(* The inductive invariant: what an order meant when it was given is not   *)
(* changed by the steps that follow it.                                    *)
FaultsIInv == FaultsTypeOK /\ RingIsHistory /\ ReloadIsDue

-----------------------------------------------------------------------------
(* Going back stays in the ring, and one step more leads to the same place *)
(* from the place before.                                                  *)
LEMMA BackLemma ==
  ASSUME NEW f \in Place, NEW k \in 1..Threshold
  PROVE  /\ Back(f, k) \in Place
         /\ AfterPlace(f) \in Place
         /\ Back(AfterPlace(f), 1) = f
         /\ k # 1 => /\ k - 1 \in 1..Threshold
                     /\ Back(AfterPlace(f), k) = Back(f, k - 1)
                     /\ Back(AfterPlace(f), k) # f
  BY FaultsAssumption, SMTT(30) DEF Back, Place, AfterPlace

(* Every place of the ring is reached by going back. *)
LEMMA ReachLemma ==
  ASSUME NEW f \in Place, NEW i \in Place
  PROVE  \E k \in 1..Threshold : Back(f, k) = i
<1> DEFINE K == IF i < f THEN f - i ELSE f - i + Threshold
<1>1. K \in 1..Threshold /\ Back(f, K) = i
  BY FaultsAssumption DEF Back, Place
<1> QED
  BY <1>1

(* The clock is a time later than Interval after 1970. *)
LEMMA ClockLemma ==
  ASSUME FaultsTypeOK
  PROVE  Clock \in Int /\ Clock > Interval
<1>1. skew \in Int /\ FirstClock + skew > Interval /\ time \in Nat /\ FirstClock \in Nat /\ Interval \in Nat
  BY FaultsAssumption DEF FaultsTypeOK
<1> QED
  BY <1>1 DEF Clock

(* After one more fault the ring stands for one fault more. *)
LEMMA RingStep ==
  ASSUME FaultsTypeOK, RingIsHistory, BuryFault
  PROVE  /\ FaultsTypeOK'
         /\ Len(history') = Len(history) + 1
         /\ Ago(1)' = Clock
         /\ \A k \in 2..Threshold : k <= Len(history') => Ago(k)' = Ago(k - 1)
         /\ RingIsHistory'
<1>1. Clock \in Int /\ time \in Nat /\ fault \in Place /\ Threshold \in Nat \ {0}
  BY ClockLemma, FaultsAssumption DEF FaultsTypeOK
<1>2. history \in Seq(Int) /\ history' = Append(history, Clock)
  BY <1>1 DEF FaultsTypeOK, BuryFault
<1>3. /\ Len(history') = Len(history) + 1 /\ Len(history) \in Nat
      /\ history'[Len(history) + 1] = Clock
      /\ \A i \in 1..Len(history) : history'[i] = history[i]
      /\ history' \in Seq(Int)
  BY <1>1, <1>2
<1>4. Ago(1)' = Clock
  BY <1>3 DEF Ago
<1>5. ASSUME NEW k \in 2..Threshold, k <= Len(history')
      PROVE  Ago(k)' = Ago(k - 1)
  <2>1. /\ Len(history') + 1 - k \in 1..Len(history)
        /\ Len(history') + 1 - k = Len(history) + 1 - (k - 1)
    BY <1>1, <1>3, <1>5
  <2> QED
    BY <2>1, <1>3 DEF Ago
<1>6. ring' = [ring EXCEPT ![fault] = Clock] /\ fault' = AfterPlace(fault)
  BY DEF BuryFault
<1>7. FaultsTypeOK'
  <2>1. fault' \in Place
    BY <1>1, <1>6, BackLemma
  <2>2. ring' \in [Place -> Int]
    BY <1>1, <1>6 DEF FaultsTypeOK
  <2>3. asked' \in BOOLEAN
    BY DEF BuryFault, AllRecent
  <2> QED
    BY <1>3, <2>1, <2>2, <2>3 DEF FaultsTypeOK, BuryFault
<1>8. ASSUME NEW k \in 1..Threshold
      PROVE  ring'[Back(fault', k)] = IF k <= Len(history') THEN Ago(k)' ELSE 0
  <2>1. CASE k = 1
    <3>1. Back(fault', 1) = fault /\ k <= Len(history')
      BY <1>1, <1>3, <1>6, <2>1, BackLemma
    <3>2. ring'[fault] = Clock
      BY <1>1, <1>6 DEF FaultsTypeOK
    <3> QED
      BY <2>1, <3>1, <3>2, <1>4
  <2>2. CASE k # 1
    <3>1. /\ k - 1 \in 1..Threshold /\ k \in 2..Threshold
          /\ Back(fault', k) = Back(fault, k - 1) /\ Back(fault', k) # fault
          /\ Back(fault, k - 1) \in Place
      BY <1>1, <1>6, <2>2, BackLemma
    <3>2. ring'[Back(fault', k)] = ring[Back(fault, k - 1)]
      BY <3>1, <1>6 DEF FaultsTypeOK
    <3>3. ring[Back(fault, k - 1)] = IF k - 1 <= Len(history) THEN Ago(k - 1) ELSE 0
      BY <3>1 DEF RingIsHistory
    <3>4. k - 1 <= Len(history) <=> k <= Len(history')
      BY <1>3, <3>1
    <3> QED
      BY <3>1, <3>2, <3>3, <3>4, <1>5
  <2> QED
    BY <2>1, <2>2
<1>9. RingIsHistory'
  BY <1>8 DEF RingIsHistory
<1> QED
  BY <1>3, <1>4, <1>5, <1>7, <1>9

(* The restart condition of the code is that of the property. *)
LEMMA RecentLemma ==
  ASSUME FaultsTypeOK, RingIsHistory, BuryFault
  PROVE  asked' <=> /\ Len(history') >= Threshold
                    /\ \A k \in 1..Threshold : Clock - Ago(k)' <= Interval
<1>1. asked' = \A i \in Place : Clock - ring'[i] <= Interval
  BY DEF BuryFault, AllRecent
<1>2. /\ FaultsTypeOK' /\ RingIsHistory' /\ Len(history') = Len(history) + 1
  BY RingStep
<1>3. fault' \in Place /\ Len(history') \in Nat /\ Threshold \in Nat \ {0} /\ Interval \in Nat
  BY <1>2, FaultsAssumption DEF FaultsTypeOK
<1>4. Clock \in Int /\ Clock > Interval
  BY ClockLemma
<1>5. ASSUME asked'
      PROVE  /\ Len(history') >= Threshold
             /\ \A k \in 1..Threshold : Clock - Ago(k)' <= Interval
  <2>1. \A k \in 1..Threshold : Clock - ring'[Back(fault', k)] <= Interval
    BY <1>1, <1>3, <1>5, BackLemma
  <2>2. \A k \in 1..Threshold : k <= Len(history') /\ ring'[Back(fault', k)] = Ago(k)'
    <3> TAKE k \in 1..Threshold
    <3>1. ring'[Back(fault', k)] = IF k <= Len(history') THEN Ago(k)' ELSE 0
      BY <1>2 DEF RingIsHistory
    <3>2. k <= Len(history')
      <4>1. SUFFICES ASSUME ~(k <= Len(history')) PROVE FALSE
        OBVIOUS
      <4>2. Clock - 0 <= Interval
        BY <2>1, <3>1, <4>1
      <4> QED
        BY <4>2, <1>4, <1>3
    <3> QED
      BY <3>1, <3>2
  <2>3. Threshold \in 1..Threshold
    BY <1>3
  <2> QED
    BY <2>1, <2>2, <2>3, <1>3
<1>6. ASSUME Len(history') >= Threshold,
             \A k \in 1..Threshold : Clock - Ago(k)' <= Interval
      PROVE  asked'
  <2> SUFFICES ASSUME NEW i \in Place PROVE Clock - ring'[i] <= Interval
    BY <1>1
  <2>1. PICK k \in 1..Threshold : Back(fault', k) = i
    BY <1>3, ReachLemma
  <2>2. k <= Len(history')
    BY <1>3, <1>6
  <2>3. ring'[i] = Ago(k)'
    BY <1>2, <2>1, <2>2 DEF RingIsHistory
  <2> QED
    BY <2>3, <1>6
<1> QED
  BY <1>5, <1>6

-----------------------------------------------------------------------------
(* The ring and the index of a new image. *)
LEMMA CleanLemma ==
  /\ Cleared \in [Place -> Int]
  /\ 0 \in Place /\ 0 \in Nat
  /\ <<>> \in Seq(Int)
  BY FaultsAssumption DEF Cleared, Place

(* A new image satisfies the invariant, *)
LEMMA FaultsInitLemma == FaultsInit => FaultsIInv
<1> SUFFICES ASSUME FaultsInit PROVE FaultsIInv
  OBVIOUS
<1>1. FaultsTypeOK
  BY CleanLemma DEF FaultsInit, FaultsTypeOK
<1>2. RingIsHistory
  <2> SUFFICES ASSUME NEW k \in 1..Threshold
               PROVE  ring[Back(fault, k)] = 0 /\ ~(k <= Len(history))
    BY DEF RingIsHistory
  <2>1. Back(fault, k) \in Place
    BY <1>1, BackLemma DEF FaultsTypeOK
  <2> QED
    BY <2>1, FaultsAssumption DEF FaultsInit, Cleared
<1>3. ReloadIsDue
  BY DEF FaultsInit, ReloadIsDue
<1> QED
  BY <1>1, <1>2, <1>3 DEF FaultsIInv

(* and every step preserves it. *)
LEMMA FaultsNextLemma == FaultsIInv /\ [FaultsNext]_faultVars => FaultsIInv'
<1> SUFFICES ASSUME FaultsIInv, [FaultsNext]_faultVars PROVE FaultsIInv'
  OBVIOUS
<1> USE DEF FaultsIInv
<1>1. CASE Tick
  <2>1. FaultsTypeOK'
    BY <1>1 DEF Tick, FaultsTypeOK
  <2>2. UNCHANGED <<ring, fault, history, asked>>
    BY <1>1 DEF Tick
  <2>3. RingIsHistory' /\ ReloadIsDue'
    BY <2>2 DEF RingIsHistory, ReloadIsDue, Ago, Back
  <2> QED
    BY <2>1, <2>3
<1>2. CASE SetClock
  <2>1. FaultsTypeOK'
    BY <1>2 DEF SetClock, FaultsTypeOK
  <2>2. UNCHANGED <<ring, fault, history, asked>>
    BY <1>2 DEF SetClock
  <2>3. RingIsHistory' /\ ReloadIsDue'
    BY <2>2 DEF RingIsHistory, ReloadIsDue, Ago, Back
  <2> QED
    BY <2>1, <2>3
<1>3. CASE BuryFault
  <2>1. FaultsTypeOK' /\ RingIsHistory' /\ Ago(1)' = Clock
    BY <1>3, RingStep
  <2>2. ReloadIsDue'
    BY <1>3, <2>1, RecentLemma DEF ReloadIsDue
  <2> QED
    BY <2>1, <2>2
<1>4. CASE BuryOther
  <2>1. FaultsTypeOK' /\ ReloadIsDue'
    BY <1>4 DEF BuryOther, FaultsTypeOK, ReloadIsDue
  <2>2. UNCHANGED <<ring, fault, history>>
    BY <1>4 DEF BuryOther
  <2>3. RingIsHistory'
    BY <2>2 DEF RingIsHistory, Ago, Back
  <2> QED
    BY <2>1, <2>3
<1>5. CASE NewImage
  <2>1. FaultsTypeOK'
    BY <1>5, CleanLemma DEF NewImage, FaultsTypeOK
  <2>2. RingIsHistory'
    <3> SUFFICES ASSUME NEW k \in 1..Threshold
                 PROVE  ring'[Back(fault', k)] = 0 /\ ~(k <= Len(history'))
      BY DEF RingIsHistory
    <3>1. Back(fault', k) \in Place
      BY <2>1, BackLemma DEF FaultsTypeOK
    <3> QED
      BY <1>5, <3>1, FaultsAssumption DEF NewImage, Cleared
  <2>3. ReloadIsDue'
    BY <1>5 DEF NewImage, ReloadIsDue
  <2> QED
    BY <2>1, <2>2, <2>3
<1>6. CASE UNCHANGED faultVars
  BY <1>6 DEF faultVars, FaultsTypeOK, RingIsHistory, ReloadIsDue, Ago, Back
<1> QED
  BY <1>1, <1>2, <1>3, <1>4, <1>5, <1>6 DEF FaultsNext

(* The inductive invariant holds: the ring of fpm_children_bury stands for *)
(* the last faults of the image.                                           *)
THEOREM FaultsInvariant == FaultsSpec => []FaultsIInv
  BY FaultsInitLemma, FaultsNextLemma, PTL DEF FaultsSpec

(* Type correctness: the index stays in the ring, for every threshold. *)
THEOREM FaultsTypeCorrect == FaultsSpec => []FaultsTypeOK
<1>1. FaultsIInv => FaultsTypeOK
  BY DEF FaultsIInv
<1> QED
  BY <1>1, FaultsInvariant, PTL

(* fpm_children_bury orders a reload only after Threshold faults of this   *)
(* image within Interval, for every threshold and interval.                *)
THEOREM FaultsReloadIsDue == FaultsSpec => []ReloadIsDue
<1>1. FaultsIInv => ReloadIsDue
  BY DEF FaultsIInv
<1> QED
  BY <1>1, FaultsInvariant, PTL

(* fpm_children_bury misses no series of Threshold faults within Interval, *)
(* wherever in the ring the series begins.                                 *)
THEOREM FaultsSeriesIsNoticed == FaultsSpec => SeriesIsNoticed
<1>1. ASSUME FaultsIInv, [FaultsNext]_faultVars, Completes
      PROVE  asked'
  <2>1. history \in Seq(Int) /\ FaultsTypeOK /\ RingIsHistory
        /\ Clock \in Int
    BY <1>1, ClockLemma DEF FaultsIInv, FaultsTypeOK
  <2>2. Len(history') = Len(history) + 1 /\ Len(history) \in Nat
    BY <1>1, <2>1 DEF Completes
  <2>3. BuryFault
    BY <1>1, <2>2 DEF FaultsNext, Tick, SetClock, BuryOther, NewImage, faultVars
  <2>4. Len(history') >= Threshold /\ \A k \in 1..Threshold : Clock - Ago(k)' <= Interval
    BY <1>1 DEF Ago, Completes
  <2> QED
    BY <2>1, <2>3, <2>4, RecentLemma
<1>2. FaultsIInv /\ [FaultsNext]_faultVars => [Completes => asked']_faultVars
  BY <1>1
<1> QED
  BY <1>2, FaultsInvariant, PTL DEF FaultsSpec, SeriesIsNoticed
=============================================================================
