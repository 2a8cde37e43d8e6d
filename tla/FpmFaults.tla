------------------------------ MODULE FpmFaults -------------------------------
(***************************************************************************)
(* The emergency restart: fpm_children_bury keeps the times of the last    *)
(* faults of the workers in a ring, last_faults, and orders a reload when  *)
(* all of them are recent.  The times are seconds of gettimeofday, which   *)
(* an administrator may set; an image that executes itself starts anew.    *)
(* The recent history of the module is what the ring stands for.           *)
(***************************************************************************)
EXTENDS Integers, Sequences

CONSTANTS Threshold,    \* emergency_restart_threshold
          Interval,     \* emergency_restart_interval, in seconds
          FirstClock,   \* the clock when the first image starts
          Skews,        \* how far it may be from FirstClock and the elapsed time
          MaxTime,      \* bound: seconds that pass
          MaxFaults     \* bound: faults of one image

ASSUME FaultsAssumption ==
  /\ Threshold \in Nat \ {0} /\ Interval \in Nat \ {0}  \* else there is no ring
  /\ FirstClock \in Nat /\ MaxTime \in Nat /\ MaxFaults \in Nat
  /\ Skews \subseteq Int /\ 0 \in Skews
  /\ \A s \in Skews : FirstClock + s > Interval   \* it is later than 1970

VARIABLES
  time,       \* seconds that really passed
  skew,       \* what the clock shows beyond them
  ring,       \* last_faults
  fault,      \* the next place in it
  history,    \* ghost: the clock at every fault of this image
  asked       \* the last burial ordered a reload

faultVars == <<time, skew, ring, fault, history, asked>>

Place == 0..(Threshold - 1)

Clock == FirstClock + time + skew

FaultsTypeOK ==
  /\ time \in Nat
  /\ skew \in Skews
  /\ ring \in [Place -> Int]
  /\ fault \in Place
  /\ history \in Seq(Int)
  /\ asked \in BOOLEAN

(* fpm_children_init_main of a new image *)
Cleared == [i \in Place |-> 0]

FaultsInit ==
  /\ time = 0 /\ skew \in Skews
  /\ ring = Cleared /\ fault = 0
  /\ history = <<>>
  /\ asked = FALSE

-----------------------------------------------------------------------------
Tick ==
  /\ time < MaxTime
  /\ time' = time + 1
  /\ UNCHANGED <<skew, ring, fault, history, asked>>

(* The clock is set. *)
SetClock ==
  /\ skew' \in Skews
  /\ UNCHANGED <<time, ring, fault, history, asked>>

(* Mutant: the index leaves the ring. *)
AfterPlaceTooLate(f) == IF f = Threshold THEN 0 ELSE f + 1

(* Mutant: the last place of the ring is not used. *)
AfterPlaceTooEarly(f) == IF f + 2 = Threshold THEN 0 ELSE f + 1

AfterPlace(f) == IF f + 1 = Threshold THEN 0 ELSE f + 1

(* The restart condition of fpm_children_bury *)
AllRecent(r) == \A i \in Place : Clock - r[i] <= Interval

(* Mutant: the ring of the old image is kept in the table of the new one. *)
NewImageKeepsRing ==
  /\ fault' = 0 /\ history' = <<>>
  /\ asked' = FALSE
  /\ UNCHANGED <<time, skew, ring>>

(* A worker ended with SIGSEGV or SIGBUS. *)
BuryFault ==
  /\ Len(history) < MaxFaults
  /\ history' = Append(history, Clock)
  /\ ring' = [ring EXCEPT ![fault] = Clock]
  /\ fault' = AfterPlace(fault)
  /\ asked' = AllRecent(ring')
  /\ UNCHANGED <<time, skew>>

(* It ended in another way. *)
BuryOther ==
  /\ asked' = FALSE
  /\ UNCHANGED <<time, skew, ring, fault, history>>

(* A reload is carried out, this one or one of an administrator: all       *)
(* workers are gone and the image is a new one.                            *)
NewImage ==
  /\ ring' = Cleared /\ fault' = 0
  /\ history' = <<>>
  /\ asked' = FALSE
  /\ UNCHANGED <<time, skew>>

FaultsNext == Tick \/ SetClock \/ BuryFault \/ BuryOther \/ NewImage

FaultsSpec == FaultsInit /\ [][FaultsNext]_faultVars

-----------------------------------------------------------------------------
(* The fault that happened k faults before the next one. *)
Ago(k) == history[Len(history) + 1 - k]

(* A burial that orders a reload is that of a fault, and it does so only   *)
(* if this image has seen Threshold faults and the last Threshold of them, *)
(* by the clock, are at most Interval old: none is forgotten when the ring *)
(* wraps around, none is counted twice, none of an older image counts.     *)
ReloadIsDue ==
  asked =>
    /\ Len(history) >= Threshold
    /\ \A k \in 1..Threshold : Ago(1) - Ago(k) <= Interval

(* This step completes a series of Threshold faults in Interval seconds. *)
Completes ==
  /\ history' = Append(history, Clock)
  /\ Len(history') >= Threshold
  /\ \A k \in 1..Threshold : Clock - history'[Len(history') + 1 - k] <= Interval

(* The converse, of a step: a fault that completes a series of Threshold   *)
(* faults in Interval seconds of the clock orders the reload at once,      *)
(* wherever in the ring the series began.                                  *)
SeriesIsNoticed == [][Completes => asked']_faultVars
=============================================================================
