---------------------------- MODULE FpmImagesProof ----------------------------
(***************************************************************************)
(* Theorems about the images of the master, for any number of pools,       *)
(* addresses, images and edits of the configuration; and, at the end,      *)
(* about FpmConf, which is what each of them makes of the file it reads.   *)
(***************************************************************************)
EXTENDS FpmImages, FpmConf, FiniteSetTheorems, SequenceTheorems, WellFoundedInduction, TLAPS

(* While the pools get their sockets, no entry of the table has more users than
   pools were looked at. *)
Counts ==
  /\ pc = "listen" => at \in 1..NPools + 1
  /\ pc = "listen" => \A i \in DOMAIN sockets_list : sockets_list[i].refcount < at
  /\ pc # "off" => images > 0

(* The process id is taken down after the fork of daemonize, and the pid file
   written from it. *)
Pids ==
  /\ pc \in {"import", "listen", "unused", "creat", "write", "run"} => parent_pid = pid
  /\ pc = "run" => pidfile = pid
  /\ pc = "off" /\ ~ failed => pidfile = NoFile

(* A path is known to the image, which reads it from FPM_SOCKETS or has it in the
   table. *)
PathsAreKnown ==
  ~ failed => \A u \in Unix : path[u] # None =>
    /\ pc # "off"
    /\ pc \in {"conf", "daemonize", "import"} => \E i \in DOMAIN env : env[i][1] = u
    /\ pc \in {"listen", "unused", "creat", "write", "run"} => Known(u)

-----------------------------------------------------------------------------
(* An entry is removed: what is left are the other entries. *)
LEMMA ItemRemoveLemma ==
  ASSUME NEW S, NEW s \in Seq(S), NEW n \in DOMAIN s
  PROVE  /\ ItemRemove(s, n) \in Seq(S)
         /\ \A i \in DOMAIN ItemRemove(s, n) : \E j \in DOMAIN s : ItemRemove(s, n)[i] = s[j]
         /\ \A i \in DOMAIN s \ {n} : \E j \in DOMAIN ItemRemove(s, n) :
              ItemRemove(s, n)[j] = s[i]
<1> DEFINE r == ItemRemove(s, n)
<1>1. Len(s) \in Nat /\ DOMAIN s = 1..Len(s) /\ n \in 1..Len(s) /\ Len(s) - 1 \in Nat
  OBVIOUS
<1>2. r = [i \in 1..Len(s) - 1 |-> IF i = n THEN s[Len(s)] ELSE s[i]]
  BY DEF ItemRemove
<1>3. \A i \in 1..Len(s) - 1 : r[i] \in S
  BY <1>1, <1>2
<1>4. r \in Seq(S) /\ DOMAIN r = 1..Len(s) - 1
  BY <1>1, <1>2, <1>3
<1>5. ASSUME NEW i \in DOMAIN r
      PROVE  \E j \in DOMAIN s : r[i] = s[j]
  BY <1>1, <1>2, <1>4, <1>5
<1>6. ASSUME NEW i \in DOMAIN s \ {n}
      PROVE  \E j \in DOMAIN r : r[j] = s[i]
  <2>1. CASE i = Len(s)
    <3>1. n \in 1..Len(s) - 1
      BY <1>1, <1>6, <2>1
    <3>2. r[n] = s[i]
      BY <3>1, <2>1, <1>2
    <3> QED BY <3>1, <3>2, <1>4
  <2>2. CASE i # Len(s)
    <3>1. i \in 1..Len(s) - 1
      BY <1>1, <1>6, <2>2
    <3>2. r[i] = s[i]
      BY <3>1, <1>2, <1>6
    <3> QED BY <3>1, <3>2, <1>4
  <2> QED BY <2>1, <2>2
<1> QED BY <1>4, <1>5, <1>6

-----------------------------------------------------------------------------
(* The process id in the pid file, and the files after an exit, need nothing of
   the sockets. *)
LEMMA PidsInductive == Pids /\ [Next]_vars => Pids'
<1> SUFFICES ASSUME Pids, [Next]_vars PROVE Pids'
  OBVIOUS
<1> USE DEF Pids, image, system, past, admin, who, vars, Ends, Fails, AtPool, NextPool
<1>1. CASE EditConfig \/ \E a \in Inet : OthersBind(a) \/ OthersLeave(a)
  BY <1>1 DEF EditConfig, OthersBind, OthersLeave
<1>2. CASE Start \/ LoadConf
  BY <1>2 DEF Start, LoadConf
<1>3. CASE Daemonize
  BY <1>3 DEF Daemonize, PidOfMaster
<1>4. CASE Import \/ SkipTemplate \/ AllHaveSockets
  BY <1>4 DEF Import, SkipTemplate, AllHaveSockets
<1>5. CASE (\E i \in DOMAIN sockets_list : UseSocket(i)) \/ \E fd \in Fd : NewSocket(fd)
  BY <1>5 DEF UseSocket, NewSocket
<1>6. CASE NoSocket \/ InitFails \/ ExecFails
  BY <1>6 DEF NoSocket, InitFails, ExecFails
<1>7. CASE CloseUnused \/ KeepUsed \/ UnusedClosed
  BY <1>7 DEF CloseUnused, KeepUsed, UnusedClosed
<1>8. CASE CreatPid \/ WritePid \/ CreatFails
  BY <1>8 DEF CreatPid, WritePid, CreatFails
<1>9. CASE Exec
  BY <1>9 DEF Exec
<1>10. CASE Exit \/ Crash
  BY <1>10 DEF Exit, Crash
<1>11. CASE UNCHANGED vars
  BY <1>11
<1> QED BY <1>1, <1>2, <1>3, <1>4, <1>5, <1>6, <1>7, <1>8, <1>9, <1>10, <1>11 DEF Next

(* The pid file of a running master has its process id, whatever it went through
   before, and there is none after an exit. *)
LEMMA ImagesPidFileTells == Spec => []PidFileTells
<1>1. Init => Pids
  BY DEF Init, Pids
<1>2. Pids => PidFileTells
  BY DEF Pids, PidFileTells
<1> QED BY <1>1, <1>2, PidsInductive, PTL DEF Spec

-----------------------------------------------------------------------------
(* What an entry of the table is. *)
LEMMA EntryLemma ==
  ASSUME TypeOK
  PROVE  /\ Len(sockets_list) \in Nat /\ DOMAIN sockets_list = 1..Len(sockets_list)
         /\ \A i \in DOMAIN sockets_list :
              /\ sockets_list[i] \in Entry
              /\ sockets_list[i].key \in Addr /\ sockets_list[i].sock \in Fd
              /\ sockets_list[i].refcount \in 0..NPools
<1>1. sockets_list \in Seq(Entry)
  BY DEF TypeOK
<1>2. \A i \in DOMAIN sockets_list : sockets_list[i] \in Entry
  BY <1>1
<1>3. \A e \in Entry : e.key \in Addr /\ e.sock \in Fd /\ e.refcount \in 0..NPools
  BY DEF Entry
<1> QED BY <1>1, <1>2, <1>3

LEMMA InitTypes == Init => TypeOK /\ Counts /\ PathsAreKnown
<1> SUFFICES ASSUME Init PROVE TypeOK /\ Counts /\ PathsAreKnown
  OBVIOUS
<1>1. <<>> \in Seq(Entry) /\ <<>> \in Seq(Addr \X Fd)
  OBVIOUS
<1>2. NoConf \in [Pool -> Fd \cup {None}] /\ NoConf \in [Pool -> Addr \cup {None}]
  BY DEF NoConf
<1>3. TypeOK
  <2>1. /\ config \in [Pool -> Addr \cup {None}] /\ conf \in [Pool -> Addr \cup {None}]
        /\ sockets_list \in Seq(Entry) /\ env \in Seq(Addr \X Fd)
        /\ listening \in [Pool -> Fd \cup {None}]
    BY <1>1, <1>2 DEF Init
  <2>2. fds \in [Fd -> Socket \cup {None}] /\ path \in [Unix -> Socket \cup {None}]
    BY DEF Init
  <2>3. pid \in Nat /\ parent_pid \in 0..pid /\ pidfile \in NoFile..pid /\ at \in Nat
    BY DEF Init, NoFile
  <2>4. images \in 0..MaxImages /\ edits \in 0..MaxEdits
    BY ImagesAssumption DEF Init
  <2> QED BY <2>1, <2>2, <2>3, <2>4 DEF Init, TypeOK
<1>4. Counts /\ PathsAreKnown
  BY DEF Init, Counts, PathsAreKnown
<1> QED BY <1>3, <1>4

(* Each step keeps the types, in need of the counts. *)
LEMMA TypesInductive == TypeOK /\ Counts /\ [Next]_vars => TypeOK' /\ Counts'
<1> SUFFICES ASSUME TypeOK, Counts, [Next]_vars PROVE TypeOK' /\ Counts'
  OBVIOUS
<1>e. /\ Len(sockets_list) \in Nat /\ DOMAIN sockets_list = 1..Len(sockets_list)
      /\ \A i \in DOMAIN sockets_list :
           /\ sockets_list[i] \in Entry
           /\ sockets_list[i].key \in Addr /\ sockets_list[i].sock \in Fd
           /\ sockets_list[i].refcount \in 0..NPools
  BY EntryLemma
<1>n. NoConf \in [Pool -> Fd \cup {None}] /\ NoConf \in [Pool -> Addr \cup {None}]
  BY DEF NoConf
<1>q. <<>> \in Seq(Entry) /\ <<>> \in Seq(Addr \X Fd)
  OBVIOUS
<1> USE ImagesAssumption DEF TypeOK, Counts, Pool, Open, NoFile
<1>1. CASE EditConfig
  BY <1>1, SMTT(30) DEF EditConfig, image, system, past, who
<1>2. CASE \E a \in Inet : OthersBind(a) \/ OthersLeave(a)
  <2>1. busy' \subseteq Inet
    BY <1>2 DEF OthersBind, OthersLeave
  <2>2. UNCHANGED <<image, pidfile, fds, path, admin, past>>
    BY <1>2 DEF OthersBind, OthersLeave
  <2>3. /\ pc' = pc /\ conf' = conf /\ sockets_list' = sockets_list /\ at' = at
        /\ listening' = listening /\ env' = env /\ pid' = pid /\ parent_pid' = parent_pid
        /\ pidfile' = pidfile /\ fds' = fds /\ path' = path /\ config' = config
        /\ edits' = edits /\ images' = images /\ served' = served /\ failed' = failed
    BY <2>2 DEF image, past, admin, who
  <2> QED BY <2>1, <2>3
<1>3. CASE Start
  BY <1>3 DEF Start, system, admin
<1>4. CASE LoadConf
  BY <1>4 DEF LoadConf, system, past, admin, who
<1>5. CASE Daemonize
  BY <1>5 DEF Daemonize, PidOfMaster, system, past, admin
<1>6. CASE Import
  <2>1. Len(env) \in Nat /\ DOMAIN env = 1..Len(env)
    OBVIOUS
  <2>2. \A i \in 1..Len(env) : env[i] \in Addr \X Fd
    OBVIOUS
  <2>3. \A i \in 1..Len(env) :
          [key |-> env[i][1], sock |-> env[i][2], refcount |-> 0] \in Entry
    BY <2>2 DEF Entry
  <2>4. Inherited(env) \in Seq(Entry) /\ DOMAIN Inherited(env) = 1..Len(env)
    BY <2>1, <2>3 DEF Inherited
  <2>5. \A i \in DOMAIN Inherited(env) : Inherited(env)[i].refcount = 0
    BY <2>1 DEF Inherited
  <2> QED BY <1>6, <2>4, <2>5 DEF Import, system, past, admin, who
<1>7. CASE SkipTemplate
  BY <1>7, <1>e DEF SkipTemplate, AtPool, NextPool, system, past, admin, who
<1>8. ASSUME NEW i \in DOMAIN sockets_list, UseSocket(i)
      PROVE  TypeOK' /\ Counts'
  <2>1. at \in Pool /\ pc = "listen" /\ pc' = "listen" /\ at' = at + 1
    BY <1>8 DEF UseSocket, AtPool, NextPool
  <2>2. sockets_list[i] \in Entry /\ sockets_list[i].refcount \in 0..at - 1
    BY <2>1, <1>e
  <2>3. [sockets_list[i] EXCEPT !.refcount = @ + 1] \in Entry
    <3>1. sockets_list[i].refcount + 1 \in 0..NPools
      BY <2>1, <2>2
    <3>2. \A e \in Entry, n \in 0..NPools : [e EXCEPT !.refcount = n] \in Entry
      BY DEF Entry
    <3> QED BY <3>1, <3>2, <2>2
  <2>4. Used(i) \in Seq(Entry) /\ DOMAIN Used(i) = DOMAIN sockets_list
    BY <2>3 DEF Used
  <2>5. \A j \in DOMAIN sockets_list : Used(i)[j].refcount < at + 1
    <3>1. TAKE j \in DOMAIN sockets_list
    <3>2. CASE j = i
      <4>1. Used(i)[j] = [sockets_list[i] EXCEPT !.refcount = @ + 1]
        BY <3>2 DEF Used
      <4>2. sockets_list[i] = [key |-> sockets_list[i].key, sock |-> sockets_list[i].sock,
                               refcount |-> sockets_list[i].refcount]
        BY <2>2 DEF Entry
      <4>3. Used(i)[j].refcount = sockets_list[i].refcount + 1
        BY <4>1, <4>2
      <4> QED BY <4>3, <2>1, <2>2
    <3>3. CASE j # i
      <4>1. Used(i)[j] = sockets_list[j] /\ sockets_list[j].refcount < at
        BY <3>3, <2>1 DEF Used
      <4> QED BY <4>1, <2>1, <1>e
    <3> QED BY <3>2, <3>3
  <2>6. listening' \in [Pool -> Fd \cup {None}]
    BY <1>8, <1>e DEF UseSocket
  <2> QED BY <1>8, <2>1, <2>4, <2>5, <2>6
          DEF UseSocket, NextPool, system, past, admin, who
<1>9. ASSUME NEW fd \in Fd, NewSocket(fd)
      PROVE  TypeOK' /\ Counts'
  <2>1. at \in Pool /\ pc = "listen" /\ pc' = "listen" /\ at' = at + 1 /\ images > 0
    BY <1>9 DEF NewSocket, AtPool, NextPool
  <2>2. Wanted \in Addr
    BY <1>9, <2>1 DEF NewSocket, Wanted
  <2>3. [key |-> Wanted, by |-> images] \in Socket
    BY <2>1, <2>2 DEF Socket
  <2>4. fds' \in [Fd -> Socket \cup {None}] /\ path' \in [Unix -> Socket \cup {None}]
    BY <1>9, <2>3 DEF NewSocket
  <2>5. [key |-> Wanted, sock |-> fd, refcount |-> 1] \in Entry
    BY <2>2 DEF Entry
  <2>6. sockets_list' \in Seq(Entry)
    BY <1>9, <2>5 DEF NewSocket
  <2>7. \A j \in DOMAIN sockets_list' : sockets_list'[j].refcount < at + 1
    <3>1. sockets_list' = Append(sockets_list, [key |-> Wanted, sock |-> fd, refcount |-> 1])
      BY <1>9 DEF NewSocket
    <3>2. TAKE j \in DOMAIN sockets_list'
    <3>3. CASE j \in DOMAIN sockets_list
      <4>1. sockets_list'[j] = sockets_list[j] /\ sockets_list[j] \in Entry
        BY <3>1, <3>3
      <4> QED BY <4>1, <3>3, <2>1, <1>e
    <3>4. CASE j \notin DOMAIN sockets_list
      <4>1. sockets_list'[j] = [key |-> Wanted, sock |-> fd, refcount |-> 1]
        BY <3>1, <3>2, <3>4
      <4> QED BY <4>1, <2>1
    <3> QED BY <3>3, <3>4
  <2>8. listening' \in [Pool -> Fd \cup {None}]
    BY <1>9 DEF NewSocket
  <2> QED BY <1>9, <2>1, <2>4, <2>6, <2>7, <2>8 DEF NewSocket, past, admin, who
<1>10. CASE NoSocket \/ InitFails \/ ExecFails \/ CreatFails
  <2>1. Ends /\ path' = path /\ busy' = busy /\ pidfile' \in {pidfile, NoFile}
                /\ failed' = TRUE
    BY <1>10 DEF NoSocket, InitFails, ExecFails, CreatFails, Fails
  <2>2. fds' \in [Fd -> Socket \cup {None}]
    BY <2>1 DEF Ends
  <2> QED BY <2>1, <2>2, <1>n, <1>q DEF Ends, admin
<1>11. CASE AllHaveSockets
  BY <1>11 DEF AllHaveSockets, system, past, admin, who
<1>12. CASE CloseUnused
  <2>1. at \in DOMAIN sockets_list /\ sockets_list' = ItemRemove(sockets_list, at)
    BY <1>12 DEF CloseUnused
  <2>2. sockets_list' \in Seq(Entry)
    BY <2>1, ItemRemoveLemma
  <2>3. fds' \in [Fd -> Socket \cup {None}] /\ path' \in [Unix -> Socket \cup {None}]
    BY <1>12 DEF CloseUnused
  <2> QED BY <1>12, <2>2, <2>3 DEF CloseUnused, AfterRemoval, past, admin, who
<1>13. CASE KeepUsed
  BY <1>13 DEF KeepUsed, system, past, admin, who
<1>14. CASE UnusedClosed
  BY <1>14 DEF UnusedClosed, system, past, admin, who
<1>15. CASE CreatPid \/ WritePid
  BY <1>15, SMTT(30) DEF CreatPid, WritePid, past, admin, who
<1>16. CASE Exec
  <2> DEFINE e == [i \in DOMAIN sockets_list |-> <<sockets_list[i].key, sockets_list[i].sock>>]
  <2>1. Len(sockets_list) \in Nat /\ DOMAIN sockets_list = 1..Len(sockets_list)
    OBVIOUS
  <2>2. \A i \in 1..Len(sockets_list) :
          <<sockets_list[i].key, sockets_list[i].sock>> \in Addr \X Fd
    BY <2>1, <1>e
  <2>3. e \in Seq(Addr \X Fd)
    BY <2>1, <2>2
  <2>4. <<>> \in Seq(Entry)
    OBVIOUS
  <2>5. {fds[fd] : fd \in Open} \subseteq Socket
    OBVIOUS
  <2> QED BY <1>16, <2>3, <2>4, <2>5, <1>n DEF Exec, FdsAfterExec, admin
<1>17. CASE Exit
  BY <1>17, <1>n, <1>q DEF Exit, Ends, PathsAfterExit, admin
<1>18. CASE Crash
  BY <1>18, <1>n, <1>q DEF Crash, Ends, admin
<1>19. CASE UNCHANGED vars
  BY <1>19 DEF vars, image, system, past, admin, who
<1> QED BY <1>1, <1>2, <1>3, <1>4, <1>5, <1>6, <1>7, <1>8, <1>9, <1>10, <1>11, <1>12,
           <1>13, <1>14, <1>15, <1>16, <1>17, <1>18, <1>19 DEF Next

(* The descriptors, entries and counts stay what they are meant to be: no entry is
   ever counted for more users than there are pools. *)
THEOREM ImagesTypeCorrect == Spec => []TypeOK
<1>1. Init => TypeOK /\ Counts
  BY InitTypes
<1> QED BY <1>1, TypesInductive, PTL DEF Spec

-----------------------------------------------------------------------------
LEMMA PathsInductive ==
  TypeOK /\ PathsAreKnown /\ [Next]_vars => PathsAreKnown'
<1> SUFFICES ASSUME TypeOK, PathsAreKnown, [Next]_vars, ~ failed',
                    NEW u \in Unix, path'[u] # None
             PROVE  /\ pc' # "off"
                    /\ pc' \in {"conf", "daemonize", "import"} =>
                         \E i \in DOMAIN env' : env'[i][1] = u
                    /\ pc' \in {"listen", "unused", "creat", "write", "run"} => Known(u)'
  BY DEF PathsAreKnown
<1> USE DEF PathsAreKnown, Known
<1>1. CASE EditConfig \/ \E a \in Inet : OthersBind(a) \/ OthersLeave(a)
  BY <1>1 DEF EditConfig, OthersBind, OthersLeave, image, system, past
<1>2. CASE Start \/ LoadConf
  BY <1>2 DEF Start, LoadConf, system, past
<1>3. CASE Daemonize
  BY <1>3 DEF Daemonize, system, past
<1>4. CASE Import
  <2>1. \E i \in DOMAIN env : env[i][1] = u
    BY <1>4 DEF Import, system, past
  <2>2. DOMAIN Inherited(env) = DOMAIN env
        /\ \A i \in DOMAIN env : Inherited(env)[i].key = env[i][1]
    BY DEF Inherited
  <2> QED BY <1>4, <2>1, <2>2 DEF Import
<1>5. CASE SkipTemplate \/ AllHaveSockets
  BY <1>5 DEF SkipTemplate, AllHaveSockets, AtPool, system, past
<1>6. ASSUME NEW i \in DOMAIN sockets_list, UseSocket(i)
      PROVE  pc' = "listen" /\ Known(u)'
  <2>1. DOMAIN Used(i) = DOMAIN sockets_list
        /\ \A j \in DOMAIN sockets_list : Used(i)[j].key = sockets_list[j].key
    BY EntryLemma DEF Used, Entry
  <2> QED BY <1>6, <2>1 DEF UseSocket, AtPool, system, past
<1>7. ASSUME NEW fd \in Fd, NewSocket(fd)
      PROVE  pc' = "listen" /\ Known(u)'
  <2> DEFINE e == [key |-> Wanted, sock |-> fd, refcount |-> 1]
  <2>1. sockets_list' = Append(sockets_list, e) /\ pc' = "listen" /\ pc = "listen"
    BY <1>7 DEF NewSocket, AtPool
  <2>2. Len(sockets_list) \in Nat /\ DOMAIN sockets_list = 1..Len(sockets_list)
    BY DEF TypeOK
  <2>3. DOMAIN sockets_list' = 1..Len(sockets_list) + 1
        /\ sockets_list'[Len(sockets_list) + 1] = e
        /\ \A i \in DOMAIN sockets_list : sockets_list'[i] = sockets_list[i]
    BY <2>1, <2>2 DEF TypeOK
  <2>4. CASE u = Wanted
    BY <2>1, <2>2, <2>3, <2>4
  <2>5. CASE u # Wanted
    <3>1. path[u] # None
      BY <1>7, <2>5 DEF NewSocket
    <3>2. PICK i \in DOMAIN sockets_list : sockets_list[i].key = u
      BY <1>7, <3>1, <2>1 DEF NewSocket, past
    <3> QED BY <3>2, <2>1, <2>2, <2>3
  <2> QED BY <2>4, <2>5
<1>8. CASE NoSocket \/ InitFails \/ ExecFails \/ CreatFails \/ Crash
  BY <1>8 DEF NoSocket, InitFails, ExecFails, CreatFails, Crash, Fails
<1>9. CASE CloseUnused
  <2>1. at \in DOMAIN sockets_list /\ sockets_list' = ItemRemove(sockets_list, at)
    BY <1>9 DEF CloseUnused
  <2>2. path[u] # None /\ u # sockets_list[at].key
    BY <1>9 DEF CloseUnused
  <2>3. PICK i \in DOMAIN sockets_list : sockets_list[i].key = u
    BY <1>9, <2>2 DEF CloseUnused, past
  <2>4. \E j \in DOMAIN sockets_list' : sockets_list'[j] = sockets_list[i]
    <3>1. sockets_list \in Seq(Entry) /\ i # at
      BY <2>2, <2>3 DEF TypeOK
    <3> QED BY <3>1, <2>1, ItemRemoveLemma
  <2> QED BY <1>9, <2>3, <2>4 DEF CloseUnused
<1>10. CASE KeepUsed \/ UnusedClosed
  BY <1>10 DEF KeepUsed, UnusedClosed, system, past
<1>11. CASE CreatPid \/ WritePid
  BY <1>11 DEF CreatPid, WritePid, past
<1>12. CASE Exec
  <2>1. PICK i \in DOMAIN sockets_list : sockets_list[i].key = u
    BY <1>12 DEF Exec
  <2> QED BY <1>12, <2>1 DEF Exec
<1>13. CASE Exit
  BY <1>13 DEF Exit, PathsAfterExit
<1>14. CASE UNCHANGED vars
  BY <1>14 DEF vars, image, system, past
<1> QED BY <1>1, <1>2, <1>3, <1>4, <1>5, <1>6, <1>7, <1>8, <1>9, <1>10, <1>11, <1>12,
           <1>13, <1>14 DEF Next

(* However often the configuration and with it the paths changed from image to
   image, after an exit no path is left. *)
LEMMA ImagesLeaveNoPath == Spec => []NoPathIsLeft
<1>1. Init => TypeOK /\ Counts /\ PathsAreKnown
  BY InitTypes
<1>2. PathsAreKnown => NoPathIsLeft
  BY DEF PathsAreKnown, NoPathIsLeft
<1> QED BY <1>1, <1>2, TypesInductive, PathsInductive, PTL DEF Spec

(* Pid file and paths tell the truth of the master, through every sequence of
   reloads, failures, crashes and exits. *)
THEOREM ImagesFilesAreTrue == Spec => []FilesAreTrue
<1>1. PidFileTells /\ NoPathIsLeft => FilesAreTrue
  BY DEF FilesAreTrue
<1> QED BY <1>1, ImagesPidFileTells, ImagesLeaveNoPath, PTL

-----------------------------------------------------------------------------
(* The table, also while it is still written in FPM_SOCKETS, from where nothing is
   counted yet. *)
Table ==
  IF pc \in {"conf", "daemonize", "import"} THEN Inherited(env) ELSE sockets_list

StartsEmpty == pc = "off" => sockets_list = <<>> /\ env = <<>>

(* The table and the open sockets are one to one, each socket has the address of its
   entry, and a path leads to the socket of its entry. *)
Matched ==
  /\ {Table[i].sock : i \in DOMAIN Table} = Open
  /\ \A i, j \in DOMAIN Table :
       Table[i].key = Table[j].key \/ Table[i].sock = Table[j].sock => i = j
  /\ \A i \in DOMAIN Table :
       /\ fds[Table[i].sock].key = Table[i].key
       /\ Table[i].key \in Unix => path[Table[i].key] = fds[Table[i].sock]

InUse == pc \in {"listen", "unused", "creat", "write", "run"}

(* The pools that were looked at, and those of them that listen on a. *)
SeenTo == IF pc = "listen" THEN at - 1 ELSE NPools
UsersTo(f, k, a) == {p \in 1..k : f[p] = a}

(* The reference count is that of the pools looked at, and each of them has the
   socket of its address. *)
Counted ==
  InUse => \A i \in DOMAIN sockets_list :
    sockets_list[i].refcount = Cardinality(UsersTo(conf, SeenTo, sockets_list[i].key))

Bound ==
  InUse => \A p \in 1..SeenTo : conf[p] # None =>
    \E i \in DOMAIN sockets_list :
      sockets_list[i].key = conf[p] /\ sockets_list[i].sock = listening[p]

(* Behind the loop that closes unused sockets there are only used ones. *)
Needed ==
  /\ pc = "unused" =>
       \A i \in DOMAIN sockets_list : i < at => sockets_list[i].refcount > 0
  /\ pc \in {"creat", "write", "run"} =>
       \A i \in DOMAIN sockets_list : sockets_list[i].refcount > 0

(* A socket of the image before is open until it is found that nobody wants it. *)
Kept ==
  /\ pc = "off" => served = {}
  /\ \A s \in served :
       \/ \E fd \in Open : fds[fd] = s
       \/ /\ InUse /\ pc # "listen"
          /\ Users(s.key) = {}
          /\ s.key \in Unix => path[s.key] = None

-----------------------------------------------------------------------------
(* How many pools listen on an address grows with the pools looked at. *)
LEMMA SeenLemma ==
  ASSUME NEW n \in Nat \ {0}, NEW f, NEW a
  PROVE  /\ IsFiniteSet(UsersTo(f, n, a))
         /\ f[n] = a => Cardinality(UsersTo(f, n, a)) = Cardinality(UsersTo(f, n - 1, a)) + 1
         /\ f[n] # a => UsersTo(f, n, a) = UsersTo(f, n - 1, a)
         /\ Cardinality(UsersTo(f, n, a)) = 0 => UsersTo(f, n, a) = {}
<1>1. ASSUME NEW k \in Nat PROVE IsFiniteSet(UsersTo(f, k, a))
  <2>1. IsFiniteSet(1..k)
    BY FS_Interval
  <2> QED BY <2>1, FS_Subset DEF UsersTo
<1>2. 1..n = (1..n - 1) \cup {n} /\ n \notin 1..n - 1 /\ n - 1 \in Nat
  OBVIOUS
<1>3. IsFiniteSet(UsersTo(f, n, a)) /\ IsFiniteSet(UsersTo(f, n - 1, a))
  BY <1>1, <1>2
<1>4. ASSUME f[n] = a
      PROVE  Cardinality(UsersTo(f, n, a)) = Cardinality(UsersTo(f, n - 1, a)) + 1
  <2>1. UsersTo(f, n, a) = UsersTo(f, n - 1, a) \cup {n} /\ n \notin UsersTo(f, n - 1, a)
    BY <1>2, <1>4 DEF UsersTo
  <2> QED BY <2>1, <1>3, FS_AddElement
<1>5. ASSUME f[n] # a PROVE UsersTo(f, n, a) = UsersTo(f, n - 1, a)
  BY <1>2, <1>5 DEF UsersTo
<1>6. Cardinality(UsersTo(f, n, a)) = 0 => UsersTo(f, n, a) = {}
  BY <1>3, FS_EmptySet
<1> QED BY <1>3, <1>4, <1>5, <1>6

(* The table is a sequence of entries in every step. *)
LEMMA TableLemma ==
  ASSUME TypeOK
  PROVE  /\ Table \in Seq(Entry)
         /\ Len(Table) \in Nat /\ DOMAIN Table = 1..Len(Table)
         /\ \A i \in DOMAIN Table : Table[i].key \in Addr /\ Table[i].sock \in Fd
<1>1. Inherited(env) \in Seq(Entry)
  <2>1. Len(env) \in Nat /\ DOMAIN env = 1..Len(env)
    BY DEF TypeOK
  <2>2. \A i \in 1..Len(env) : env[i] \in Addr \X Fd
    BY DEF TypeOK
  <2>3. \A i \in 1..Len(env) :
          [key |-> env[i][1], sock |-> env[i][2], refcount |-> 0] \in Entry
    BY <2>2, ImagesAssumption DEF Entry
  <2> QED BY <2>1, <2>3 DEF Inherited
<1>2. Table \in Seq(Entry)
  BY <1>1 DEF Table, TypeOK
<1>3. \A e \in Entry : e.key \in Addr /\ e.sock \in Fd
  BY DEF Entry
<1>4. Len(Table) \in Nat /\ DOMAIN Table = 1..Len(Table)
  BY <1>2
<1>5. \A i \in DOMAIN Table : Table[i] \in Entry
  BY <1>2
<1> QED BY <1>2, <1>3, <1>4, <1>5

(* A step that leaves address and socket of every entry alone, and the sockets. *)
LEMMA MatchedSame ==
  ASSUME Matched, fds' = fds, path' = path, DOMAIN Table' = DOMAIN Table,
         \A i \in DOMAIN Table :
           Table'[i].key = Table[i].key /\ Table'[i].sock = Table[i].sock
  PROVE  Matched'
<1>1. {Table'[i].sock : i \in DOMAIN Table'} = {Table[i].sock : i \in DOMAIN Table}
  OBVIOUS
<1>2. Open' = Open
  BY DEF Open
<1>3. \A i, j \in DOMAIN Table' :
        Table'[i].key = Table'[j].key \/ Table'[i].sock = Table'[j].sock => i = j
  BY DEF Matched
<1>4. \A i \in DOMAIN Table' :
       /\ fds'[Table'[i].sock].key = Table'[i].key
       /\ Table'[i].key \in Unix => path'[Table'[i].key] = fds'[Table'[i].sock]
  BY DEF Matched
<1> QED BY <1>1, <1>2, <1>3, <1>4 DEF Matched

(* A new entry for an address that has none, with a descriptor that is free. *)
LEMMA MatchedNew ==
  ASSUME TypeOK, Counts, Matched, NEW fd \in Fd, NewSocket(fd)
  PROVE  Matched'
<1> DEFINE e == [key |-> Wanted, sock |-> fd, refcount |-> 1]
           s == [key |-> Wanted, by |-> images]
           n == Len(sockets_list)
<1>1. /\ pc = "listen" /\ pc' = "listen" /\ at \in Pool /\ images > 0
      /\ sockets_list' = Append(sockets_list, e)
      /\ fds' = [fds EXCEPT ![fd] = s] /\ fds[fd] = None
      /\ path' = [u \in Unix |-> IF u = Wanted THEN s ELSE path[u]]
      /\ Wanted # None /\ ~ Known(Wanted)
  BY DEF NewSocket, AtPool, Counts
<1>2. Table = sockets_list /\ Table' = sockets_list'
  BY <1>1 DEF Table
<1>3. /\ n \in Nat /\ DOMAIN sockets_list = 1..n
      /\ \A i \in DOMAIN sockets_list :
           sockets_list[i].key \in Addr /\ sockets_list[i].sock \in Fd
  BY EntryLemma
<1>4. Wanted \in Addr /\ s \in Socket /\ s # None
  <2>1. Wanted \in Addr
    BY <1>1 DEF TypeOK, Wanted
  <2>2. images \in 1..MaxImages
    BY <1>1 DEF TypeOK
  <2>3. s \in Socket
    BY <2>1, <2>2 DEF Socket
  <2> QED BY <2>1, <2>3, ImagesAssumption
<1>5. fds'[fd] = s /\ \A f \in Fd : f # fd => fds'[f] = fds[f]
  BY <1>1 DEF TypeOK
<1>6. Open' = Open \cup {fd} /\ fd \notin Open
  BY <1>1, <1>4, <1>5 DEF Open
<1>7. /\ DOMAIN sockets_list' = 1..n + 1 /\ sockets_list'[n + 1] = e
      /\ \A i \in 1..n : sockets_list'[i] = sockets_list[i]
  BY <1>1, <1>3 DEF TypeOK
<1>8. e.key = Wanted /\ e.sock = fd /\ s.key = Wanted
  OBVIOUS
<1> HIDE DEF e, s, n
<1>9. \A i \in 1..n : sockets_list[i].sock \in Open /\ sockets_list[i].sock # fd
  BY <1>2, <1>3, <1>6 DEF Matched
<1>10. \A i \in 1..n : sockets_list[i].key # Wanted
  BY <1>1, <1>3 DEF Known
<1>11. 1..n + 1 = (1..n) \cup {n + 1} /\ n + 1 \notin 1..n
  BY <1>3
<1>12. {sockets_list'[i].sock : i \in 1..n + 1} = Open \cup {fd}
  <2>1. {sockets_list[i].sock : i \in 1..n} = Open
    BY <1>2, <1>3 DEF Matched
  <2>2. {sockets_list'[i].sock : i \in 1..n} = {sockets_list[i].sock : i \in 1..n}
    BY <1>7
  <2>3. {sockets_list'[i].sock : i \in 1..n + 1}
          = {sockets_list'[i].sock : i \in 1..n} \cup {sockets_list'[n + 1].sock}
    BY <1>11
  <2> QED BY <2>1, <2>2, <2>3, <1>7, <1>8
<1>13. ASSUME NEW i \in 1..n + 1, NEW j \in 1..n + 1,
              \/ sockets_list'[i].key = sockets_list'[j].key
              \/ sockets_list'[i].sock = sockets_list'[j].sock
       PROVE  i = j
  <2>1. CASE i \in 1..n /\ j \in 1..n
    BY <2>1, <1>2, <1>3, <1>7, <1>13 DEF Matched
  <2>2. CASE i = n + 1 \/ j = n + 1
    BY <2>2, <1>7, <1>8, <1>9, <1>10, <1>11, <1>13
  <2> QED BY <2>1, <2>2, <1>11
<1>14. ASSUME NEW i \in 1..n + 1
       PROVE  /\ fds'[sockets_list'[i].sock].key = sockets_list'[i].key
              /\ sockets_list'[i].key \in Unix =>
                   path'[sockets_list'[i].key] = fds'[sockets_list'[i].sock]
  <2>1. CASE i = n + 1
    BY <2>1, <1>1, <1>5, <1>7, <1>8
  <2>2. CASE i \in 1..n
    <3>1. /\ fds[sockets_list[i].sock].key = sockets_list[i].key
          /\ sockets_list[i].key \in Unix =>
               path[sockets_list[i].key] = fds[sockets_list[i].sock]
      BY <2>2, <1>2, <1>3 DEF Matched
    <3>2. fds'[sockets_list[i].sock] = fds[sockets_list[i].sock]
      BY <2>2, <1>3, <1>5, <1>9
    <3>3. sockets_list[i].key \in Unix =>
            path'[sockets_list[i].key] = path[sockets_list[i].key]
      BY <2>2, <1>1, <1>10
    <3> QED BY <3>1, <3>2, <3>3, <2>2, <1>7
  <2> QED BY <2>1, <2>2, <1>11
<1> QED BY <1>2, <1>6, <1>7, <1>12, <1>13, <1>14 DEF Matched

(* Where the entries come from when one is removed. *)
LEMMA RemovedLemma ==
  ASSUME NEW S, NEW s \in Seq(S), NEW n \in DOMAIN s
  PROVE  /\ DOMAIN ItemRemove(s, n) = 1..Len(s) - 1
         /\ \A i \in DOMAIN ItemRemove(s, n) :
              i \in DOMAIN s /\ i # Len(s)
              /\ ItemRemove(s, n)[i] = s[IF i = n THEN Len(s) ELSE i]
         /\ n # Len(s) => n \in DOMAIN ItemRemove(s, n)
         /\ Len(s) \in DOMAIN s
<1>1. Len(s) \in Nat /\ DOMAIN s = 1..Len(s) /\ n \in 1..Len(s) /\ Len(s) - 1 \in Nat
  OBVIOUS
<1>2. ItemRemove(s, n) = [i \in 1..Len(s) - 1 |-> IF i = n THEN s[Len(s)] ELSE s[i]]
  BY DEF ItemRemove
<1> QED BY <1>1, <1>2

(* Which entry is at i when the last one took the place of entry m. *)
LEMMA PlaceLemma ==
  ASSUME NEW n \in Nat, NEW m \in 1..n
  PROVE  LET g == [i \in 1..n |-> IF i = m THEN n ELSE i]
         IN  /\ \A i \in 1..n - 1 : g[i] \in 1..n /\ g[i] # m
             /\ \A i, j \in 1..n - 1 : g[i] = g[j] => i = j
             /\ \A k \in 1..n : k # m => \E i \in 1..n - 1 : g[i] = k
<1> DEFINE g == [i \in 1..n |-> IF i = m THEN n ELSE i]
<1>1. \A i \in 1..n - 1 : g[i] \in 1..n /\ g[i] # m
  OBVIOUS
<1>2. \A i, j \in 1..n - 1 : g[i] = g[j] => i = j
  OBVIOUS
<1>3. ASSUME NEW k \in 1..n, k # m PROVE \E i \in 1..n - 1 : g[i] = k
  <2>1. CASE k = n
    <3>1. m \in 1..n - 1 /\ g[m] = k
      BY <2>1, <1>3
    <3> QED BY <3>1
  <2>2. CASE k # n
    <3>1. k \in 1..n - 1 /\ g[k] = k
      BY <2>2, <1>3
    <3> QED BY <3>1
  <2> QED BY <2>1, <2>2
<1> QED BY <1>1, <1>2, <1>3

(* The entry that is removed is the only one with its address and socket. *)
LEMMA MatchedClosed ==
  ASSUME TypeOK, Matched, CloseUnused
  PROVE  Matched'
<1> DEFINE n == Len(sockets_list)
           g == [i \in 1..n |-> IF i = at THEN n ELSE i]
           fd == sockets_list[at].sock
           a == sockets_list[at].key
<1>1. /\ pc = "unused" /\ pc' = "unused" /\ at \in DOMAIN sockets_list
      /\ sockets_list' = ItemRemove(sockets_list, at)
      /\ fds' = [fds EXCEPT ![fd] = None]
      /\ path' = [u \in Unix |-> IF u = a THEN None ELSE path[u]]
  BY DEF CloseUnused
<1>2. Table = sockets_list /\ Table' = sockets_list'
  BY <1>1 DEF Table
<1>3. /\ n \in Nat /\ DOMAIN sockets_list = 1..n /\ sockets_list \in Seq(Entry)
      /\ \A i \in 1..n : sockets_list[i].key \in Addr /\ sockets_list[i].sock \in Fd
  BY EntryLemma DEF TypeOK
<1>4. /\ DOMAIN sockets_list' = 1..n - 1
      /\ \A i \in 1..n - 1 : sockets_list'[i] = sockets_list[g[i]]
  <2>1. /\ DOMAIN sockets_list' = 1..n - 1
        /\ \A i \in DOMAIN sockets_list' :
             i \in DOMAIN sockets_list
             /\ sockets_list'[i] = sockets_list[IF i = at THEN Len(sockets_list) ELSE i]
    BY <1>1, <1>3, RemovedLemma
  <2> QED BY <2>1, <1>3
<1>5. at \in 1..n
  BY <1>1, <1>3
<1> HIDE DEF n
<1>g. /\ \A i \in 1..n - 1 : g[i] \in 1..n /\ g[i] # at
      /\ \A i, j \in 1..n - 1 : g[i] = g[j] => i = j
      /\ \A k \in 1..n : k # at => \E i \in 1..n - 1 : g[i] = k
  BY <1>3, <1>5, PlaceLemma
<1> HIDE DEF g
<1>6. /\ \A i, j \in 1..n :
           (sockets_list[i].key = sockets_list[j].key
             \/ sockets_list[i].sock = sockets_list[j].sock) => i = j
      /\ {sockets_list[i].sock : i \in 1..n} = Open
      /\ \A i \in 1..n :
           /\ fds[sockets_list[i].sock].key = sockets_list[i].key
           /\ sockets_list[i].key \in Unix =>
                path[sockets_list[i].key] = fds[sockets_list[i].sock]
  BY <1>2, <1>3 DEF Matched
<1>7. fds'[fd] = None /\ \A f \in Fd : f # fd => fds'[f] = fds[f]
  BY <1>1, <1>3 DEF TypeOK
<1>8. Open' = Open \ {fd}
  BY <1>7 DEF Open
<1>9. ASSUME NEW i \in 1..n - 1
      PROVE  sockets_list'[i].sock # fd /\ sockets_list'[i].key # a
  <2>1. sockets_list'[i] = sockets_list[g[i]] /\ g[i] \in 1..n /\ g[i] # at
    BY <1>4, <1>g
  <2> QED BY <2>1, <1>5, <1>6
<1>10. {sockets_list'[i].sock : i \in 1..n - 1} = Open \ {fd}
  <2>1. ASSUME NEW i \in 1..n - 1 PROVE sockets_list'[i].sock \in Open \ {fd}
    BY <1>4, <1>g, <1>6, <1>9
  <2>2. ASSUME NEW f \in Open \ {fd} PROVE \E i \in 1..n - 1 : sockets_list'[i].sock = f
    <3>1. PICK k \in 1..n : sockets_list[k].sock = f
      BY <1>6
    <3>2. k # at
      BY <3>1, <2>2
    <3>3. PICK i \in 1..n - 1 : g[i] = k
      BY <3>2, <1>g
    <3> QED BY <3>1, <3>3, <1>4
  <2> QED BY <2>1, <2>2
<1>11. \A i, j \in 1..n - 1 :
          (sockets_list'[i].key = sockets_list'[j].key
            \/ sockets_list'[i].sock = sockets_list'[j].sock) => i = j
  BY <1>4, <1>g, <1>6
<1>12. ASSUME NEW i \in 1..n - 1
       PROVE  /\ fds'[sockets_list'[i].sock].key = sockets_list'[i].key
              /\ sockets_list'[i].key \in Unix =>
                   path'[sockets_list'[i].key] = fds'[sockets_list'[i].sock]
  <2>1. sockets_list'[i] = sockets_list[g[i]] /\ g[i] \in 1..n
    BY <1>4, <1>g
  <2>2. fds'[sockets_list'[i].sock] = fds[sockets_list'[i].sock]
    BY <2>1, <1>3, <1>7, <1>9
  <2>3. sockets_list'[i].key \in Unix => path'[sockets_list'[i].key] = path[sockets_list'[i].key]
    BY <1>1, <1>9
  <2> QED BY <2>1, <2>2, <2>3, <1>6
<1> QED BY <1>2, <1>4, <1>8, <1>10, <1>11, <1>12 DEF Matched

(* The process ends and has no sockets. *)
LEMMA MatchedEnds ==
  ASSUME Ends PROVE Matched'
<1>1. Table' = <<>> /\ DOMAIN Table' = {}
  BY DEF Ends, Table
<1>2. Open' = {}
  BY DEF Ends, Open
<1> QED BY <1>1, <1>2 DEF Matched

(* An image starts with nothing. *)
LEMMA EmptyInductive == StartsEmpty /\ [Next]_vars => StartsEmpty'
<1> SUFFICES ASSUME StartsEmpty, [Next]_vars, pc' = "off"
             PROVE  sockets_list' = <<>> /\ env' = <<>>
  BY DEF StartsEmpty
<1>1. CASE pc = "off" /\ UNCHANGED <<sockets_list, env>>
  BY <1>1 DEF StartsEmpty
<1>2. CASE Ends
  BY <1>2 DEF Ends
<1>3. (pc = "off" /\ UNCHANGED <<sockets_list, env>>) \/ Ends
  BY DEF Next, vars, image, EditConfig, OthersBind, OthersLeave, Start, LoadConf, Daemonize,
         Import, AtPool, SkipTemplate, UseSocket, NewSocket, NoSocket, AllHaveSockets,
         CloseUnused, KeepUsed, UnusedClosed, CreatPid, WritePid, CreatFails, InitFails,
         Exec, ExecFails, Exit, Crash, Fails
<1> QED BY <1>1, <1>2, <1>3

LEMMA MatchedInductive ==
  TypeOK /\ Counts /\ StartsEmpty /\ Matched /\ [Next]_vars => Matched'
<1> SUFFICES ASSUME TypeOK, Counts, StartsEmpty, Matched, [Next]_vars PROVE Matched'
  OBVIOUS
<1>s. ASSUME Table' = Table, fds' = fds, path' = path PROVE Matched'
  BY <1>s, MatchedSame
<1> USE DEF image, system, past, admin, who, vars
<1>1. CASE EditConfig \/ \E a \in Inet : OthersBind(a) \/ OthersLeave(a)
  <2>1. Table' = Table /\ fds' = fds /\ path' = path
    BY <1>1 DEF EditConfig, OthersBind, OthersLeave, Table
  <2> QED BY <2>1, <1>s
<1>2. CASE Start
  <2>1. Table = sockets_list /\ Table' = Inherited(env) /\ fds' = fds /\ path' = path
    BY <1>2 DEF Start, Table
  <2>2. env = <<>> /\ sockets_list = <<>>
    BY <1>2 DEF Start, StartsEmpty
  <2>3. DOMAIN Table = {} /\ DOMAIN Table' = {}
    BY <2>1, <2>2 DEF Inherited
  <2> QED BY <2>1, <2>3, MatchedSame
<1>3. CASE LoadConf \/ Daemonize
  <2>1. Table' = Table /\ fds' = fds /\ path' = path
    BY <1>3 DEF LoadConf, Daemonize, Table
  <2> QED BY <2>1, <1>s
<1>4. CASE Import
  <2>1. Table' = Table /\ fds' = fds /\ path' = path
    BY <1>4 DEF Import, Table
  <2> QED BY <2>1, <1>s
<1>5. CASE SkipTemplate \/ AllHaveSockets \/ KeepUsed \/ UnusedClosed \/ CreatPid \/ WritePid
  <2>1. Table' = Table /\ fds' = fds /\ path' = path
    BY <1>5 DEF SkipTemplate, AllHaveSockets, KeepUsed, UnusedClosed, CreatPid, WritePid,
                AtPool, Table
  <2> QED BY <2>1, <1>s
<1>6. ASSUME NEW i \in DOMAIN sockets_list, UseSocket(i) PROVE Matched'
  <2>1. Table = sockets_list /\ Table' = Used(i) /\ fds' = fds /\ path' = path
    BY <1>6 DEF UseSocket, AtPool, Table
  <2>2. DOMAIN Used(i) = DOMAIN sockets_list
        /\ \A j \in DOMAIN sockets_list :
             Used(i)[j].key = sockets_list[j].key /\ Used(i)[j].sock = sockets_list[j].sock
    BY EntryLemma DEF Used, Entry
  <2> QED BY <2>1, <2>2, MatchedSame
<1>7. ASSUME NEW fd \in Fd, NewSocket(fd) PROVE Matched'
  BY <1>7, MatchedNew
<1>8. CASE NoSocket \/ InitFails \/ CreatFails \/ ExecFails \/ Exit \/ Crash
  <2>1. Ends
    BY <1>8 DEF NoSocket, InitFails, CreatFails, ExecFails, Exit, Crash, Fails
  <2> QED BY <2>1, MatchedEnds
<1>9. CASE CloseUnused
  BY <1>9, MatchedClosed
<1>10. CASE Exec
  <2>1. Table = sockets_list /\ Table' = Inherited(env') /\ fds' = fds /\ path' = path
    BY <1>10 DEF Exec, FdsAfterExec, Table
  <2>2. /\ DOMAIN env' = DOMAIN sockets_list
        /\ \A j \in DOMAIN sockets_list :
             env'[j] = <<sockets_list[j].key, sockets_list[j].sock>>
    BY <1>10 DEF Exec
  <2>3. /\ DOMAIN Inherited(env') = DOMAIN sockets_list
        /\ \A j \in DOMAIN sockets_list :
             /\ Inherited(env')[j].key = sockets_list[j].key
             /\ Inherited(env')[j].sock = sockets_list[j].sock
    BY <2>2 DEF Inherited
  <2> QED BY <2>1, <2>3, MatchedSame
<1>11. CASE UNCHANGED vars
  <2>1. Table' = Table /\ fds' = fds /\ path' = path
    BY <1>11 DEF Table
  <2> QED BY <2>1, <1>s
<1> QED BY <1>1, <1>2, <1>3, <1>4, <1>5, <1>6, <1>7, <1>8, <1>9, <1>10, <1>11 DEF Next

-----------------------------------------------------------------------------
(* A step that leaves the pools and their sockets alone, and who is counted. *)
LEMMA CountedSame ==
  ASSUME Counted, Bound,
         InUse' => /\ InUse /\ conf' = conf /\ listening' = listening
                   /\ sockets_list' = sockets_list /\ SeenTo' = SeenTo
  PROVE  Counted' /\ Bound'
BY DEF Counted, Bound

(* The next pool is counted at the entry it uses, and at no other. *)
LEMMA CountedUse ==
  ASSUME TypeOK, Counts, Matched, Counted, Bound, NEW i \in DOMAIN sockets_list, UseSocket(i)
  PROVE  Counted' /\ Bound'
<1>1. /\ pc = "listen" /\ pc' = "listen" /\ at \in Pool /\ at' = at + 1 /\ conf' = conf
      /\ sockets_list[i].key = Wanted /\ sockets_list' = Used(i)
      /\ listening' = [listening EXCEPT ![at] = sockets_list[i].sock]
      /\ InUse /\ Table = sockets_list
  BY DEF UseSocket, AtPool, NextPool, InUse, Table
<1>2. /\ DOMAIN Used(i) = DOMAIN sockets_list
      /\ \A j \in DOMAIN sockets_list :
           /\ Used(i)[j].key = sockets_list[j].key /\ Used(i)[j].sock = sockets_list[j].sock
           /\ Used(i)[j].refcount = IF j = i THEN sockets_list[j].refcount + 1
                                    ELSE sockets_list[j].refcount
  BY EntryLemma DEF Used, Entry
<1>3. at \in Nat \ {0} /\ SeenTo = at - 1 /\ SeenTo' = at
  BY <1>1, ImagesAssumption DEF SeenTo, Pool
<1>4. \A a : /\ conf[at] = a => Cardinality(UsersTo(conf, at, a))
                                 = Cardinality(UsersTo(conf, at - 1, a)) + 1
             /\ conf[at] # a => UsersTo(conf, at, a) = UsersTo(conf, at - 1, a)
  BY <1>3, SeenLemma
<1>5. \A j \in DOMAIN sockets_list : sockets_list[j].key = conf[at] <=> j = i
  BY <1>1 DEF Matched, Wanted
<1>6. Counted'
  <2>1. ASSUME NEW j \in DOMAIN sockets_list
        PROVE  Used(i)[j].refcount = Cardinality(UsersTo(conf, at, sockets_list[j].key))
    <3>1. sockets_list[j].refcount = Cardinality(UsersTo(conf, at - 1, sockets_list[j].key))
      BY <1>1, <1>3 DEF Counted
    <3>2. CASE j = i
      BY <3>1, <3>2, <1>2, <1>4, <1>5
    <3>3. CASE j # i
      BY <3>1, <3>3, <1>2, <1>4, <1>5
    <3> QED BY <3>2, <3>3
  <2>2. ASSUME NEW j \in DOMAIN sockets_list'
        PROVE  sockets_list'[j].refcount = Cardinality(UsersTo(conf, at, sockets_list'[j].key))
    <3>1. j \in DOMAIN sockets_list /\ sockets_list'[j].key = sockets_list[j].key
          /\ sockets_list'[j].refcount = Used(i)[j].refcount
      BY <2>2, <1>1, <1>2
    <3> QED BY <3>1, <2>1
  <2> QED BY <2>2, <1>1, <1>3 DEF Counted
<1>7. Bound'
  <2> SUFFICES ASSUME NEW p \in 1..at, conf[p] # None
               PROVE  \E j \in DOMAIN sockets_list' :
                        sockets_list'[j].key = conf[p] /\ sockets_list'[j].sock = listening'[p]
    BY <1>1, <1>3 DEF Bound
  <2>1. CASE p = at
    <3>1. listening'[p] = sockets_list[i].sock
      BY <2>1, <1>1 DEF TypeOK
    <3> QED BY <3>1, <2>1, <1>1, <1>2 DEF Wanted
  <2>2. CASE p # at
    <3>1. p \in 1..at - 1 /\ listening'[p] = listening[p]
      BY <2>2, <1>1, <1>3 DEF TypeOK
    <3>2. PICK j \in DOMAIN sockets_list :
            sockets_list[j].key = conf[p] /\ sockets_list[j].sock = listening[p]
      BY <3>1, <1>1, <1>3 DEF Bound
    <3> QED BY <3>1, <3>2, <1>1, <1>2
  <2> QED BY <2>1, <2>2
<1> QED BY <1>6, <1>7

(* No pool before it had the address of the new entry, or the address would be
   known. *)
LEMMA CountedNew ==
  ASSUME TypeOK, Counts, Counted, Bound, NEW fd \in Fd, NewSocket(fd)
  PROVE  Counted' /\ Bound'
<1> DEFINE e == [key |-> Wanted, sock |-> fd, refcount |-> 1]
           n == Len(sockets_list)
<1>1. /\ pc = "listen" /\ pc' = "listen" /\ at \in Pool /\ at' = at + 1 /\ conf' = conf
      /\ Wanted # None /\ ~ Known(Wanted) /\ sockets_list' = Append(sockets_list, e)
      /\ listening' = [listening EXCEPT ![at] = fd] /\ InUse
  BY DEF NewSocket, AtPool, NextPool, InUse
<1>2. /\ n \in Nat /\ DOMAIN sockets_list = 1..n
      /\ DOMAIN sockets_list' = 1..n + 1 /\ sockets_list'[n + 1] = e
      /\ \A j \in 1..n : sockets_list'[j] = sockets_list[j]
  BY <1>1, EntryLemma DEF TypeOK
<1>3. at \in Nat \ {0} /\ SeenTo = at - 1 /\ SeenTo' = at
  BY <1>1, ImagesAssumption DEF SeenTo, Pool
<1>4. \A a : /\ conf[at] = a => Cardinality(UsersTo(conf, at, a))
                                 = Cardinality(UsersTo(conf, at - 1, a)) + 1
             /\ conf[at] # a => UsersTo(conf, at, a) = UsersTo(conf, at - 1, a)
  BY <1>3, SeenLemma
<1>5. \A j \in 1..n : sockets_list[j].key # Wanted
  BY <1>1, <1>2 DEF Known
<1>6. UsersTo(conf, at - 1, Wanted) = {}
  <2>1. \A p \in 1..at - 1 : conf[p] # Wanted
    BY <1>1, <1>2, <1>3, <1>5 DEF Bound
  <2> QED BY <2>1 DEF UsersTo
<1>7. e.key = Wanted /\ e.sock = fd /\ e.refcount = 1 /\ Wanted = conf[at]
  BY DEF Wanted
<1> HIDE DEF e, n
<1>8. Counted'
  <2>1. ASSUME NEW j \in 1..n + 1
        PROVE  sockets_list'[j].refcount = Cardinality(UsersTo(conf, at, sockets_list'[j].key))
    <3>1. CASE j = n + 1
      <4>1. Cardinality(UsersTo(conf, at - 1, Wanted)) = 0
        BY <1>6, FS_EmptySet
      <4> QED BY <4>1, <3>1, <1>2, <1>4, <1>7
    <3>2. CASE j # n + 1
      <4>1. j \in 1..n
        BY <3>2, <2>1, <1>2
      <4>2. sockets_list[j].refcount = Cardinality(UsersTo(conf, at - 1, sockets_list[j].key))
        BY <4>1, <1>1, <1>2, <1>3 DEF Counted
      <4> QED BY <4>1, <4>2, <1>2, <1>4, <1>5, <1>7
    <3> QED BY <3>1, <3>2
  <2> QED BY <2>1, <1>1, <1>2, <1>3 DEF Counted
<1>9. Bound'
  <2> SUFFICES ASSUME NEW p \in 1..at, conf[p] # None
               PROVE  \E j \in DOMAIN sockets_list' :
                        sockets_list'[j].key = conf[p] /\ sockets_list'[j].sock = listening'[p]
    BY <1>1, <1>3 DEF Bound
  <2>1. CASE p = at
    <3>1. listening'[p] = fd
      BY <2>1, <1>1 DEF TypeOK
    <3>2. n + 1 \in DOMAIN sockets_list'
      BY <1>2
    <3> QED BY <3>1, <3>2, <2>1, <1>2, <1>7
  <2>2. CASE p # at
    <3>1. p \in 1..at - 1 /\ listening'[p] = listening[p]
      BY <2>2, <1>1, <1>3 DEF TypeOK
    <3>2. PICK j \in 1..n :
            sockets_list[j].key = conf[p] /\ sockets_list[j].sock = listening[p]
      BY <3>1, <1>1, <1>2, <1>3 DEF Bound
    <3>3. j \in DOMAIN sockets_list'
      BY <1>2
    <3> QED BY <3>1, <3>2, <3>3, <1>2
  <2> QED BY <2>1, <2>2
<1> QED BY <1>8, <1>9

(* Nobody uses the entry that is removed. *)
LEMMA CountedClosed ==
  ASSUME TypeOK, Counted, Bound, CloseUnused
  PROVE  /\ Counted' /\ Bound' /\ Users(sockets_list[at].key) = {}
         /\ \A i \in DOMAIN sockets_list' : i < at =>
              i \in DOMAIN sockets_list /\ sockets_list'[i] = sockets_list[i]
<1>1. /\ pc = "unused" /\ pc' = "unused" /\ at \in DOMAIN sockets_list /\ conf' = conf
      /\ sockets_list[at].refcount = 0 /\ sockets_list' = ItemRemove(sockets_list, at)
      /\ listening' = listening /\ InUse
  BY DEF CloseUnused, InUse
<1>2. SeenTo = NPools /\ SeenTo' = NPools /\ NPools \in Nat \ {0}
  BY <1>1, ImagesAssumption DEF SeenTo
<1>3. sockets_list \in Seq(Entry) /\ DOMAIN sockets_list = 1..Len(sockets_list)
  BY DEF TypeOK
<1>4. /\ \A i \in DOMAIN sockets_list' : \E j \in DOMAIN sockets_list :
           sockets_list'[i] = sockets_list[j]
      /\ \A i \in DOMAIN sockets_list \ {at} : \E j \in DOMAIN sockets_list' :
           sockets_list'[j] = sockets_list[i]
  BY <1>1, <1>3, ItemRemoveLemma
<1>5. Users(sockets_list[at].key) = {}
  <2>1. Users(sockets_list[at].key) = UsersTo(conf, NPools, sockets_list[at].key)
    BY DEF Users, UsersTo, Pool
  <2>2. Cardinality(Users(sockets_list[at].key)) = 0
    BY <2>1, <1>1, <1>2 DEF Counted
  <2> QED BY <2>1, <2>2, <1>2, SeenLemma
<1>6. \A i \in DOMAIN sockets_list' :
        sockets_list'[i].refcount = Cardinality(UsersTo(conf, NPools, sockets_list'[i].key))
  BY <1>1, <1>2, <1>4 DEF Counted
<1>7. Counted'
  BY <1>1, <1>2, <1>6 DEF Counted
<1>8. Bound'
  <2> SUFFICES ASSUME NEW p \in 1..NPools, conf[p] # None
               PROVE  \E j \in DOMAIN sockets_list' :
                        sockets_list'[j].key = conf[p] /\ sockets_list'[j].sock = listening[p]
    BY <1>1, <1>2 DEF Bound
  <2>1. PICK i \in DOMAIN sockets_list :
          sockets_list[i].key = conf[p] /\ sockets_list[i].sock = listening[p]
    BY <1>1, <1>2 DEF Bound
  <2>2. i # at
    BY <2>1, <1>5 DEF Users, Pool
  <2> QED BY <2>1, <2>2, <1>4
<1>9. ASSUME NEW i \in DOMAIN sockets_list', i < at
      PROVE  i \in DOMAIN sockets_list /\ sockets_list'[i] = sockets_list[i]
  <2>1. /\ i \in DOMAIN sockets_list
        /\ sockets_list'[i] = sockets_list[IF i = at THEN Len(sockets_list) ELSE i]
    BY <1>1, <1>3, RemovedLemma
  <2>2. i # at
    BY <1>9, <1>1, <1>3, <2>1
  <2> QED BY <2>1, <2>2
<1> QED BY <1>5, <1>7, <1>8, <1>9

LEMMA CountedInductive ==
  TypeOK /\ Counts /\ Matched /\ Counted /\ Bound /\ [Next]_vars => Counted' /\ Bound'
<1> SUFFICES ASSUME TypeOK, Counts, Matched, Counted, Bound, [Next]_vars
             PROVE  Counted' /\ Bound'
  OBVIOUS
<1>o. ASSUME ~ InUse' PROVE Counted' /\ Bound'
  BY <1>o DEF Counted, Bound
<1> USE DEF image, system, past, admin, who, vars
<1>1. CASE \/ EditConfig \/ \E a \in Inet : OthersBind(a) \/ OthersLeave(a)
           \/ KeepUsed \/ UnusedClosed \/ CreatPid \/ WritePid \/ UNCHANGED vars
  <2>1. InUse' => /\ InUse /\ conf' = conf /\ listening' = listening
                  /\ sockets_list' = sockets_list /\ SeenTo' = SeenTo
    BY <1>1 DEF EditConfig, OthersBind, OthersLeave, KeepUsed, UnusedClosed, CreatPid,
                WritePid, InUse, SeenTo
  <2> QED BY <2>1, CountedSame
<1>2. CASE \/ Start \/ LoadConf \/ Daemonize \/ NoSocket \/ InitFails \/ CreatFails \/ Exec
           \/ ExecFails \/ Exit \/ Crash
  <2>1. ~ InUse'
    BY <1>2 DEF Start, LoadConf, Daemonize, NoSocket, InitFails, CreatFails, Exec, ExecFails,
                Exit, Crash, Fails, Ends, InUse
  <2> QED BY <2>1, <1>o
<1>3. CASE Import
  <2>1. pc' = "listen" /\ at' = 1 /\ SeenTo' = 0 /\ sockets_list' = Inherited(env)
    BY <1>3 DEF Import, SeenTo
  <2>2. \A i \in DOMAIN Inherited(env) : Inherited(env)[i].refcount = 0
    BY DEF Inherited
  <2>3. \A a : UsersTo(conf', 0, a) = {}
    BY DEF UsersTo
  <2>4. \A a : Cardinality(UsersTo(conf', 0, a)) = 0
    BY <2>3, FS_EmptySet
  <2>5. Counted'
    BY <2>1, <2>2, <2>4 DEF Counted
  <2>6. Bound'
    BY <2>1 DEF Bound
  <2> QED BY <2>5, <2>6
<1>4. CASE SkipTemplate
  <2>1. /\ pc = "listen" /\ pc' = "listen" /\ at \in Pool /\ at' = at + 1
        /\ conf[at] = None /\ InUse
        /\ conf' = conf /\ listening' = listening /\ sockets_list' = sockets_list
    BY <1>4 DEF SkipTemplate, AtPool, NextPool, Wanted, InUse
  <2>2. at \in Nat \ {0} /\ SeenTo = at - 1 /\ SeenTo' = at
    BY <2>1, ImagesAssumption DEF SeenTo, Pool
  <2>3. \A a \in Addr : UsersTo(conf, at, a) = UsersTo(conf, at - 1, a)
    BY <2>1, <2>2, SeenLemma, ImagesAssumption
  <2>4. Counted'
    BY <2>1, <2>2, <2>3, EntryLemma DEF Counted
  <2>5. \A p \in 1..at : conf[p] # None => p \in 1..at - 1
    BY <2>1, <2>2
  <2>6. Bound'
    BY <2>1, <2>2, <2>5 DEF Bound
  <2> QED BY <2>4, <2>6
<1>5. CASE AllHaveSockets
  <2>1. InUse' => /\ InUse /\ conf' = conf /\ listening' = listening
                  /\ sockets_list' = sockets_list /\ SeenTo' = SeenTo
    BY <1>5, ImagesAssumption DEF AllHaveSockets, InUse, SeenTo
  <2> QED BY <2>1, CountedSame
<1>6. ASSUME NEW i \in DOMAIN sockets_list, UseSocket(i) PROVE Counted' /\ Bound'
  BY <1>6, CountedUse
<1>7. ASSUME NEW fd \in Fd, NewSocket(fd) PROVE Counted' /\ Bound'
  BY <1>7, CountedNew
<1>8. CASE CloseUnused
  BY <1>8, CountedClosed
<1> QED BY <1>1, <1>2, <1>3, <1>4, <1>5, <1>6, <1>7, <1>8 DEF Next

(* The loop leaves no entry behind that nobody uses. *)
LEMMA NeededInductive ==
  TypeOK /\ Counted /\ Bound /\ Needed /\ [Next]_vars => Needed'
<1> SUFFICES ASSUME TypeOK, Counted, Bound, Needed, [Next]_vars PROVE Needed'
  OBVIOUS
<1>o. ASSUME pc' \notin {"unused", "creat", "write", "run"} PROVE Needed'
  BY <1>o DEF Needed
<1>e. /\ Len(sockets_list) \in Nat /\ DOMAIN sockets_list = 1..Len(sockets_list)
      /\ \A i \in DOMAIN sockets_list : sockets_list[i].refcount \in Nat
  BY EntryLemma
<1> USE DEF image, system, past, admin, who, vars
<1>1. CASE \/ EditConfig \/ \E a \in Inet : OthersBind(a) \/ OthersLeave(a)
           \/ CreatPid \/ WritePid \/ UNCHANGED vars
  <2>1. /\ pc' = "unused" => pc = "unused" /\ at' = at
        /\ pc' \in {"creat", "write", "run"} => pc \in {"creat", "write", "run"}
        /\ sockets_list' = sockets_list
    BY <1>1 DEF EditConfig, OthersBind, OthersLeave, CreatPid, WritePid
  <2> QED BY <2>1 DEF Needed
<1>2. CASE \/ Start \/ LoadConf \/ Daemonize \/ Import \/ SkipTemplate
           \/ (\E i \in DOMAIN sockets_list : UseSocket(i)) \/ (\E fd \in Fd : NewSocket(fd))
           \/ NoSocket \/ InitFails \/ CreatFails \/ Exec \/ ExecFails \/ Exit \/ Crash
  <2>1. pc' \notin {"unused", "creat", "write", "run"}
    BY <1>2 DEF Start, LoadConf, Daemonize, Import, SkipTemplate, UseSocket, NewSocket, AtPool,
                NoSocket, InitFails, CreatFails, Exec, ExecFails, Exit, Crash, Fails, Ends
  <2> QED BY <2>1, <1>o
<1>3. CASE AllHaveSockets
  BY <1>3, <1>e DEF AllHaveSockets, Needed
<1>4. CASE CloseUnused
  <2>1. \A i \in DOMAIN sockets_list' : i < at =>
          i \in DOMAIN sockets_list /\ sockets_list'[i] = sockets_list[i]
    BY <1>4, CountedClosed
  <2> QED BY <1>4, <2>1 DEF CloseUnused, AfterRemoval, Needed
<1>5. CASE KeepUsed
  <2>1. /\ pc = "unused" /\ pc' = "unused" /\ at' = at + 1 /\ at \in 1..Len(sockets_list)
        /\ sockets_list[at].refcount > 0 /\ sockets_list' = sockets_list
    BY <1>5, <1>e DEF KeepUsed
  <2>2. \A i \in 1..Len(sockets_list) : i < at + 1 => i < at \/ i = at
    BY <2>1, <1>e
  <2> QED BY <2>1, <2>2, <1>e DEF Needed
<1>6. CASE UnusedClosed
  <2>1. /\ pc = "unused" /\ pc' = "creat" /\ at = Len(sockets_list) + 1
        /\ sockets_list' = sockets_list
    BY <1>6 DEF UnusedClosed
  <2>2. \A i \in 1..Len(sockets_list) : i < at
    BY <2>1, <1>e
  <2> QED BY <2>1, <2>2, <1>e DEF Needed
<1> QED BY <1>1, <1>2, <1>3, <1>4, <1>5, <1>6 DEF Next

(* A socket that was passed on is closed only when no pool wants its address. *)
LEMMA KeptInductive ==
  TypeOK /\ Matched /\ Counted /\ Bound /\ Kept /\ [Next]_vars => Kept'
<1> SUFFICES ASSUME TypeOK, Matched, Counted, Bound, Kept, [Next]_vars PROVE Kept'
  OBVIOUS
<1> USE DEF image, system, past, admin, who, vars
<1>s. ASSUME served' = served, pc' = "off" => pc = "off", fds' = fds, path' = path,
             InUse /\ pc # "listen" => InUse' /\ pc' # "listen" /\ conf' = conf
      PROVE  Kept'
  <2>1. Open' = Open /\ \A a : conf' = conf => Users(a)' = Users(a)
    BY <1>s DEF Open, Users
  <2> QED BY <1>s, <2>1 DEF Kept
<1>1. CASE \/ EditConfig \/ \E a \in Inet : OthersBind(a) \/ OthersLeave(a)
           \/ Start \/ LoadConf \/ Daemonize \/ Import \/ SkipTemplate
           \/ (\E i \in DOMAIN sockets_list : UseSocket(i)) \/ AllHaveSockets
           \/ KeepUsed \/ UnusedClosed \/ CreatPid \/ WritePid \/ UNCHANGED vars
  <2>1. /\ served' = served /\ (pc' = "off" => pc = "off") /\ fds' = fds /\ path' = path
        /\ InUse /\ pc # "listen" => InUse' /\ pc' # "listen" /\ conf' = conf
    BY <1>1 DEF EditConfig, OthersBind, OthersLeave, Start, LoadConf, Daemonize, Import,
                SkipTemplate, UseSocket, AllHaveSockets, KeepUsed, UnusedClosed, CreatPid,
                WritePid, AtPool, InUse
  <2> QED BY <2>1, <1>s
<1>2. CASE NoSocket \/ InitFails \/ CreatFails \/ ExecFails \/ Exit \/ Crash
  <2>1. served' = {}
    BY <1>2 DEF NoSocket, InitFails, CreatFails, ExecFails, Exit, Crash, Fails, Ends
  <2> QED BY <2>1 DEF Kept
<1>3. CASE Exec
  <2>1. served' = {fds[fd] : fd \in Open} /\ fds' = fds /\ pc' = "conf" /\ Open' = Open
    BY <1>3 DEF Exec, FdsAfterExec, Open
  <2> QED BY <2>1 DEF Kept
<1>4. ASSUME NEW fd \in Fd, NewSocket(fd) PROVE Kept'
  <2>1. /\ pc = "listen" /\ pc' = "listen" /\ served' = served /\ fds[fd] = None
        /\ \A f \in Fd : f # fd => fds'[f] = fds[f]
    BY <1>4 DEF NewSocket, AtPool, TypeOK
  <2>2. ASSUME NEW s \in served PROVE \E f \in Open' : fds'[f] = s
    <3>1. PICK f \in Open : fds[f] = s
      BY <2>1 DEF Kept
    <3>2. f \in Fd /\ f # fd /\ fds[f] # None
      BY <2>1 DEF Open
    <3>3. f \in Open' /\ fds'[f] = s
      BY <3>1, <3>2, <2>1 DEF Open
    <3> QED BY <3>3
  <2> QED BY <2>1, <2>2 DEF Kept
<1>5. CASE CloseUnused
  <2> DEFINE fd == sockets_list[at].sock
             a == sockets_list[at].key
  <2>1. /\ pc = "unused" /\ pc' = "unused" /\ conf' = conf /\ served' = served
        /\ at \in DOMAIN sockets_list /\ Table = sockets_list /\ InUse'
        /\ fds' = [fds EXCEPT ![fd] = None]
        /\ path' = [u \in Unix |-> IF u = a THEN None ELSE path[u]]
    BY <1>5 DEF CloseUnused, Table, InUse
  <2>2. Users(a) = {} /\ \A b : Users(b)' = Users(b)
    BY <1>5, <2>1, CountedClosed DEF Users
  <2>3. fds[fd].key = a
    BY <2>1 DEF Matched
  <2>4. \A f \in Open : f # fd => f \in Open' /\ fds'[f] = fds[f]
    BY <2>1 DEF Open, TypeOK
  <2> HIDE DEF fd, a
  <2>5. ASSUME NEW s \in served
        PROVE  \/ \E f \in Open' : fds'[f] = s
               \/ Users(s.key)' = {} /\ (s.key \in Unix => path'[s.key] = None)
    <3>1. CASE \E f \in Open : fds[f] = s
      <4>1. PICK f \in Open : fds[f] = s
        BY <3>1
      <4>2. CASE f = fd
        <5>1. s.key = a
          BY <4>1, <4>2, <2>3
        <5> QED BY <5>1, <2>1, <2>2
      <4>3. CASE f # fd
        BY <4>1, <4>3, <2>4
      <4> QED BY <4>2, <4>3
    <3>2. CASE Users(s.key) = {} /\ (s.key \in Unix => path[s.key] = None)
      BY <3>2, <2>1, <2>2
    <3> QED BY <3>1, <3>2 DEF Kept
  <2>6. \A s \in served' :
          \/ \E f \in Open' : fds'[f] = s
          \/ /\ InUse' /\ pc' # "listen"
             /\ Users(s.key)' = {}
             /\ s.key \in Unix => path'[s.key] = None
    BY <2>5, <2>1
  <2> QED BY <2>6, <2>1 DEF Kept
<1> QED BY <1>1, <1>2, <1>3, <1>4, <1>5 DEF Next

-----------------------------------------------------------------------------
(* All of it: what each step of an image keeps. *)
ImagesInv ==
  /\ TypeOK /\ Counts
  /\ StartsEmpty /\ Matched /\ Counted /\ Bound /\ Needed /\ Kept

LEMMA ImagesInductive == Spec => []ImagesInv
<1>1. Init => ImagesInv
  <2> SUFFICES ASSUME Init PROVE ImagesInv
    OBVIOUS
  <2>1. TypeOK /\ Counts
    BY InitTypes
  <2>2. pc = "off" /\ sockets_list = <<>> /\ env = <<>> /\ served = {}
        /\ fds = [fd \in Fd |-> None]
    BY DEF Init
  <2>3. StartsEmpty /\ Counted /\ Bound /\ Needed /\ Kept
    BY <2>2 DEF StartsEmpty, Counted, Bound, Needed, Kept, InUse
  <2>4. Open = {} /\ Table = <<>> /\ DOMAIN Table = {}
    BY <2>2 DEF Open, Table
  <2>5. Matched
    BY <2>4 DEF Matched
  <2> QED BY <2>1, <2>3, <2>5 DEF ImagesInv
<1>2. ImagesInv /\ [Next]_vars => ImagesInv'
  BY TypesInductive, EmptyInductive, MatchedInductive, CountedInductive, NeededInductive,
     KeptInductive DEF ImagesInv
<1> QED BY <1>1, <1>2, PTL DEF Spec

(* Each pool of a running master has a socket bound to its address, which the clients of
   that address reach, whatever sequence of configurations, reloads, failures and
   crashes led there: the table, the sockets and the paths change together. *)
THEOREM ImagesListenWhereTold == Spec => []ListensWhereTold
<1>1. ImagesInv => ListensWhereTold
  <2> SUFFICES ASSUME ImagesInv, pc = "run", NEW p \in Pool, conf[p] # None
               PROVE  /\ listening[p] \in Open
                      /\ fds[listening[p]].key = conf[p]
                      /\ conf[p] \in Unix => path[conf[p]] = fds[listening[p]]
    BY DEF ListensWhereTold
  <2>1. InUse /\ Table = sockets_list /\ SeenTo = NPools
    BY DEF InUse, Table, SeenTo
  <2>2. PICK i \in DOMAIN sockets_list :
          sockets_list[i].key = conf[p] /\ sockets_list[i].sock = listening[p]
    BY <2>1 DEF ImagesInv, Bound, Pool
  <2> QED BY <2>1, <2>2 DEF ImagesInv, Matched
<1> QED BY <1>1, ImagesInductive, PTL

(* A running master has the sockets its pools use, each once in the table and counted
   as often as it is used, and over a reload it keeps those whose address stays: none
   is opened anew behind the clients that wait in it, and none is forgotten. *)
THEOREM ImagesSocketsAreKept == Spec => []SocketsAreKept
<1>1. ImagesInv => SocketsAreKept
  <2> SUFFICES ASSUME ImagesInv, pc = "run" PROVE NothingLeaks /\ KeptOverReload
    BY DEF SocketsAreKept, NothingLeaks, KeptOverReload
  <2>1. InUse /\ Table = sockets_list /\ SeenTo = NPools
    BY DEF InUse, Table, SeenTo
  <2>2. \A a : Users(a) = UsersTo(conf, NPools, a)
    BY DEF Users, UsersTo, Pool
  <2>3. /\ Len(sockets_list) \in Nat /\ DOMAIN sockets_list = 1..Len(sockets_list)
        /\ \A i \in DOMAIN sockets_list : sockets_list[i].sock \in Fd
    BY EntryLemma DEF ImagesInv
  <2>4. \A i \in DOMAIN sockets_list :
          /\ fds[sockets_list[i].sock].key = sockets_list[i].key
          /\ sockets_list[i].refcount > 0
          /\ sockets_list[i].refcount = Cardinality(Users(sockets_list[i].key))
    BY <2>1, <2>2 DEF ImagesInv, Matched, Counted, Needed
  <2>5. {sockets_list[i].sock : i \in DOMAIN sockets_list} = Open
    BY <2>1 DEF ImagesInv, Matched
  <2>6. Cardinality(Open) = Len(sockets_list)
    <3> DEFINE f == [i \in 1..Len(sockets_list) |-> sockets_list[i].sock]
    <3>1. f \in [1..Len(sockets_list) -> Open]
      BY <2>3, <2>5
    <3>2. \A i, j \in 1..Len(sockets_list) : f[i] = f[j] => i = j
      BY <2>1, <2>3 DEF ImagesInv, Matched
    <3>3. \A fd \in Open : \E i \in 1..Len(sockets_list) : f[i] = fd
      BY <2>3, <2>5
    <3>4. f \in Bijection(1..Len(sockets_list), Open)
      <4> HIDE DEF f
      <4> QED BY <3>1, <3>2, <3>3 DEF Bijection, Injection, Surjection, IsInjective
    <3>5. ExistsBijection(1..Len(sockets_list), Open)
      BY <3>4 DEF ExistsBijection
    <3>6. /\ IsFiniteSet(1..Len(sockets_list))
          /\ Cardinality(1..Len(sockets_list)) = Len(sockets_list)
      BY <2>3, FS_Interval
    <3> QED BY <3>5, <3>6, FS_Bijection
  <2>7. ASSUME NEW s \in served
        PROVE  IF Users(s.key) # {} THEN \E fd \in Open : fds[fd] = s
               ELSE s.key \in Unix => path[s.key] = None
    <3>1. CASE \E fd \in Open : fds[fd] = s
      <4>1. PICK fd \in Open : fds[fd] = s
        BY <3>1
      <4>2. PICK i \in DOMAIN sockets_list : sockets_list[i].sock = fd
        BY <2>5
      <4>3. Cardinality(Users(s.key)) > 0
        BY <2>4, <4>1, <4>2
      <4>4. Users(s.key) # {}
        BY <4>3, FS_EmptySet
      <4> QED BY <4>4, <3>1
    <3>2. CASE Users(s.key) = {} /\ (s.key \in Unix => path[s.key] = None)
      BY <3>2
    <3> QED BY <3>1, <3>2 DEF ImagesInv, Kept
  <2>8. NothingLeaks
    BY <2>4, <2>5, <2>6 DEF NothingLeaks
  <2>9. KeptOverReload
    BY <2>7 DEF KeptOverReload
  <2> QED BY <2>8, <2>9
<1> QED BY <1>1, ImagesInductive, PTL

-----------------------------------------------------------------------------
(* FpmConf: what an image is given to listen on. *)

IsUsable(p) ==
  /\ p.is_template <=> p.config.listen_address = Null
  /\ p.is_template <=> p.domain = Null
  /\ p.config.request_slowlog_timeout # 0 => p.config.slowlog # Null

IsPoolRecord(p) == p = [config |-> p.config, domain |-> p.domain, is_template |-> p.is_template]

(* The pools are completed in their order, from the first one on, and none is
   added any more when that begins. *)
ConfInv ==
  /\ pools \in Seq(ToSet(pools)) /\ nth \in Nat \ {0}
  /\ \A p \in ToSet(pools) : IsPoolRecord(p)
  /\ stage = "load" => nth = 1
  /\ stage \in {"pools", "ready"} => pools # <<>>
  /\ stage = "pools" => \A i \in 1..Len(pools) : i < nth => IsUsable(pools[i])
  /\ stage = "ready" => \A i \in 1..Len(pools) : IsUsable(pools[i])

LEMMA ConfInitLemma == ConfInit => ConfInv
<1> SUFFICES ASSUME ConfInit PROVE ConfInv
  OBVIOUS
<1>1. pools = <<>> /\ stage = "load" /\ nth = 1
  BY DEF ConfInit
<1>2. ToSet(pools) = {}
  BY <1>1 DEF ToSet
<1>3. pools \in Seq(ToSet(pools))
  BY <1>1
<1> QED BY <1>1, <1>2, <1>3 DEF ConfInv

(* A pool that is loaded is not looked at before the file is read to its end. *)
LEMMA ConfLoads ==
  ASSUME ConfInv, Loading, NEW p, IsPoolRecord(p), pools' = Append(pools, p),
         stage' \in {"load", "failed"}, nth' = nth
  PROVE  ConfInv'
<1> DEFINE S == ToSet(pools) \cup {p}
<1>1. pools \in Seq(ToSet(pools)) /\ nth = 1 /\ \A q \in ToSet(pools) : IsPoolRecord(q)
  BY DEF ConfInv, Loading
<1>2. ToSet(pools) \subseteq S /\ p \in S /\ \A q \in S : IsPoolRecord(q)
  BY <1>1
<1> HIDE DEF S
<1>3. pools \in Seq(S)
  BY <1>1, <1>2
<1>4. pools' \in Seq(S)
  BY <1>2, <1>3
<1>5. pools' \in Seq(ToSet(pools')) /\ ToSet(pools') \subseteq S
  BY <1>4 DEF ToSet
<1>6. \A q \in ToSet(pools') : IsPoolRecord(q)
  BY <1>2, <1>5
<1> QED BY <1>1, <1>5, <1>6 DEF ConfInv

LEMMA CompletedLemma ==
  ASSUME NEW p, IsPoolRecord(p)
  PROVE  /\ IsPoolRecord(Completed(p)) /\ Completed(p).config = p.config
         /\ ~ NeedsSlowlog(Completed(p)) \/ Completed(p).config.slowlog # Null => IsUsable(Completed(p))
<1> DEFINE q == Completed(p)
<1>1. q = [config |-> p.config, domain |-> Domain(p.config.listen_address),
           is_template |-> p.config.listen_address = Null]
  <2>1. PICK c, d, b : c = p.config /\ d = p.domain /\ b = p.is_template
    OBVIOUS
  <2>2. p = [config |-> c, domain |-> d, is_template |-> b]
    BY <2>1 DEF IsPoolRecord
  <2>3. p.config = c
    BY <2>1
  <2>4. PICK y, w : y = Domain(p.config.listen_address) /\ w = (p.config.listen_address = Null)
    OBVIOUS
  <2>5. Completed(p) = [p EXCEPT !.domain = y, !.is_template = w]
    BY ONLY <2>4, Zenon DEF Completed
  <2>6. [p EXCEPT !.domain = y, !.is_template = w] = [config |-> c, domain |-> y, is_template |-> w]
    <3>1. [p EXCEPT !.domain = y] = [config |-> c, domain |-> y, is_template |-> b]
      BY ONLY <2>2
    <3>2. PICK m : m = [p EXCEPT !.domain = y]
      OBVIOUS
    <3>3. m = [config |-> c, domain |-> y, is_template |-> b]
      BY ONLY <3>1, <3>2, Zenon
    <3>4. [m EXCEPT !.is_template = w] = [config |-> c, domain |-> y, is_template |-> w]
      BY ONLY <3>3
    <3>5. [p EXCEPT !.domain = y, !.is_template = w] = [m EXCEPT !.is_template = w]
      BY ONLY <3>2, Zenon
    <3> QED BY ONLY <3>4, <3>5, Zenon
  <2>7. Completed(p) = [config |-> c, domain |-> y, is_template |-> w]
    BY ONLY <2>5, <2>6, Zenon
  <2> QED BY ONLY <2>1, <2>4, <2>7, Zenon DEF q
<1>2. /\ q.config = p.config /\ q.domain = Domain(q.config.listen_address)
      /\ q.is_template = (q.config.listen_address = Null)
  BY <1>1
<1>3. q.domain = Null <=> q.config.listen_address = Null
  BY <1>2, ConfAssumption DEF Domain
<1>4. IsPoolRecord(q)
  BY <1>1 DEF IsPoolRecord
<1> HIDE DEF q
<1> QED BY <1>2, <1>3, <1>4 DEF IsUsable, NeedsSlowlog, q

LEMMA ConfCompletes ==
  ASSUME ConfInv, NEW opens \in BOOLEAN, Complete(opens)
  PROVE  ConfInv'
<1> DEFINE done == Completed(pools[nth])
           S == ToSet(pools) \cup {done}
<1>1. /\ pools \in Seq(ToSet(pools)) /\ nth \in Nat \ {0} /\ pools # <<>>
      /\ \A q \in ToSet(pools) : IsPoolRecord(q)
      /\ \A i \in 1..Len(pools) : i < nth => IsUsable(pools[i])
  BY DEF ConfInv, Complete
<1>2. /\ Len(pools) \in Nat /\ nth \in 1..Len(pools) /\ nth' = nth + 1
      /\ pools' = [pools EXCEPT ![nth] = done]
      /\ stage' = IF NeedsSlowlog(done) /\ (done.config.slowlog = Null \/ ~opens)
                  THEN "failed" ELSE "pools"
  BY <1>1 DEF Complete
<1>3. ToSet(pools) = {pools[i] : i \in 1..Len(pools)}
  BY <1>1 DEF ToSet
<1>4. IsPoolRecord(pools[nth])
  BY <1>1, <1>2, <1>3
<1>5. /\ IsPoolRecord(done)
      /\ stage' = "pools" => IsUsable(done)
  <2>1. stage' = "pools" => ~ NeedsSlowlog(done) \/ done.config.slowlog # Null
    BY <1>2
  <2> QED BY <1>4, <2>1, CompletedLemma
<1> HIDE DEF done
<1>6. ToSet(pools) \subseteq S /\ done \in S /\ \A q \in S : IsPoolRecord(q)
  BY <1>1, <1>5
<1> HIDE DEF S
<1>7. pools' \in Seq(S) /\ Len(pools') = Len(pools)
      /\ \A i \in 1..Len(pools) : pools'[i] = IF i = nth THEN done ELSE pools[i]
  <2>1. pools \in Seq(S)
    BY <1>1, <1>6
  <2> QED BY ONLY <2>1, <1>2, <1>6
<1>8. pools' \in Seq(ToSet(pools')) /\ ToSet(pools') \subseteq S
  BY <1>7 DEF ToSet
<1>9. pools' # <<>>
  BY <1>1, <1>7
<1>10. ASSUME stage' = "pools", NEW i \in 1..Len(pools'), i < nth'
       PROVE  IsUsable(pools'[i])
  <2>1. i \in 1..Len(pools) /\ i \in Nat /\ (i = nth \/ i < nth)
    BY <1>2, <1>7, <1>10
  <2>2. pools'[i] = IF i = nth THEN done ELSE pools[i]
    BY <1>7, <2>1
  <2>3. i < nth => IsUsable(pools[i])
    BY <1>1, <2>1
  <2>4. IsUsable(done)
    BY <1>5, <1>10
  <2>5. CASE i = nth
    <3>1. pools'[i] = done
      BY <2>2, <2>5
    <3> QED BY ONLY <3>1, <2>4, Zenon
  <2>6. CASE i # nth
    <3>1. pools'[i] = pools[i] /\ IsUsable(pools[i])
      BY <2>1, <2>2, <2>3, <2>6
    <3> QED BY ONLY <3>1, Zenon
  <2> QED BY <2>5, <2>6
<1>11. nth' \in Nat \ {0} /\ stage' \in {"pools", "failed"}
  BY <1>2
<1>12. \A p \in ToSet(pools') : IsPoolRecord(p)
  BY ONLY <1>6, <1>8, Zenon
<1> QED BY <1>8, <1>9, <1>10, <1>11, <1>12 DEF ConfInv

LEMMA ConfStep == ConfInv /\ [ConfNext]_confVars => ConfInv'
<1> SUFFICES ASSUME ConfInv, [ConfNext]_confVars PROVE ConfInv'
  OBVIOUS
<1>1. ASSUME UNCHANGED <<pools, nth>>, stage' \in {stage, "failed"}
      PROVE  ConfInv'
  BY <1>1 DEF ConfInv
<1>2. CASE LoadGlobal
  <2>1. UNCHANGED <<pools, nth>> /\ stage' \in {stage, "failed"}
    BY <1>2 DEF LoadGlobal, Onward
  <2> QED BY <2>1, <1>1
<1>3. CASE LoadPool
  <2>1. PICK p : /\ p = [config |-> PoolSection(Head(todo).el.kids).conf,
                         domain |-> Null, is_template |-> FALSE]
                 /\ pools' = Append(pools, p)
    BY <1>3 DEF LoadPool
  <2>2. IsPoolRecord(p)
    BY <2>1 DEF IsPoolRecord
  <2>3. Loading /\ stage' \in {"load", "failed"} /\ nth' = nth
    BY <1>3 DEF LoadPool, Loading, Onward
  <2> QED BY <2>1, <2>2, <2>3, ConfLoads
<1>4. CASE PassOver
  <2>1. UNCHANGED <<pools, nth>> /\ stage' \in {stage, "failed"}
    BY <1>4 DEF PassOver, Onward
  <2> QED BY <2>1, <1>1
<1>5. ASSUME NEW opens \in BOOLEAN, Loaded(opens)
      PROVE  ConfInv'
  <2>1. /\ stage = "load" /\ UNCHANGED <<pools, nth>>
        /\ stage' \in {"pools", "failed"} /\ (stage' = "pools" => pools # <<>>)
    BY <1>5 DEF Loaded
  <2>2. nth = 1
    BY <2>1 DEF ConfInv
  <2>3. \A i \in 1..Len(pools) : ~ (i < nth)
    BY <2>2
  <2> QED BY <2>1, <2>2, <2>3 DEF ConfInv
<1>6. ASSUME NEW opens \in BOOLEAN, Complete(opens)
      PROVE  ConfInv'
  BY <1>6, ConfCompletes
<1>7. CASE AllComplete
  <2>1. stage = "pools" /\ nth > Len(pools) /\ stage' = "ready" /\ UNCHANGED <<pools, nth>>
    BY <1>7 DEF AllComplete
  <2>2. /\ pools \in Seq(ToSet(pools)) /\ nth \in Nat /\ pools # <<>>
        /\ \A i \in 1..Len(pools) : i < nth => IsUsable(pools[i])
    BY <2>1 DEF ConfInv
  <2>3. \A i \in 1..Len(pools) : i < nth
    BY <2>1, <2>2
  <2> QED BY <2>1, <2>2, <2>3 DEF ConfInv
<1>8. CASE UNCHANGED confVars
  <2>1. UNCHANGED <<pools, nth>> /\ stage' \in {stage, "failed"}
    BY <1>8 DEF confVars
  <2> QED BY <2>1, <1>1
<1> QED BY <1>2, <1>3, <1>4, <1>5, <1>6, <1>7, <1>8 DEF ConfNext

(* An image that goes on has pools, and each of them an address of a known kind
   or the mark of a template, and a file for its slow requests if it asks for
   one, whatever the file says and in whatever order. *)
THEOREM ConfPoolsAreUsable == ConfSpec => []PoolsAreUsable
<1>1. ConfInv => PoolsAreUsable
  <2> SUFFICES ASSUME ConfInv, stage = "ready" PROVE PoolsAreUsable
    BY DEF PoolsAreUsable
  <2>1. /\ pools \in Seq(ToSet(pools)) /\ pools # <<>>
        /\ \A i \in 1..Len(pools) : IsUsable(pools[i])
    BY DEF ConfInv
  <2>2. ToSet(pools) = {pools[i] : i \in 1..Len(pools)}
    BY <2>1 DEF ToSet
  <2>3. \A p \in ToSet(pools) : IsUsable(p)
    BY <2>1, <2>2
  <2> QED BY <2>1, <2>3 DEF PoolsAreUsable, IsUsable
<1> QED BY <1>1, ConfInitLemma, ConfStep, PTL DEF ConfSpec

(* FpmConf: what the image reads is what the file says.  Sections are read by
   folds over their elements; what a fold leads to is found step by step, and so
   is where the way through the file is. *)

(* Every set of naturals that is not empty has a least element. *)
LEMMA LeastLemma ==
  ASSUME NEW T, T \subseteq Nat, T # {}
  PROVE  \E x \in T : \A y \in T : x <= y
<1> DEFINE R == {ss \in Nat \X Nat : ss[1] < ss[2]}
<1>1. IsWellFoundedOn(R, Nat)
  BY NatLessThanWellFounded DEF OpToRel
<1>2. \A y \in Nat, z \in Nat : <<y, z>> \in R <=> y < z
  OBVIOUS
<1> HIDE DEF R
<1>3. PICK x \in T : \A y \in T : ~ (<<y, x>> \in R)
  BY <1>1, WFMin
<1>4. ASSUME NEW y \in T PROVE x <= y
  <2>1. x \in Nat /\ y \in Nat /\ ~ (y < x)
    BY <1>2, <1>3
  <2> QED BY <2>1
<1> QED BY <1>4

(* What is so before the first and stays so is so at the last. *)
LEMMA UpToLemma ==
  ASSUME NEW n \in Nat, NEW T, 0 \in T, \A k \in 1..n : k - 1 \in T => k \in T
  PROVE  \A k \in 0..n : k \in T
<1> DEFINE U == {k \in 0..n : k \notin T}
<1> SUFFICES ASSUME U # {} PROVE FALSE
  OBVIOUS
<1>1. PICK x \in U : \A y \in U : x <= y
  <2>1. U \subseteq Nat
    OBVIOUS
  <2> HIDE DEF U
  <2> QED BY <2>1, LeastLemma
<1>2. x \in 1..n /\ x - 1 \in 0..n /\ ~ (x <= x - 1)
  <2>1. x \in 0..n /\ x # 0
    OBVIOUS
  <2> QED BY <2>1
<1>3. x - 1 \in T
  BY <1>1, <1>2
<1> QED BY <1>2, <1>3

-----------------------------------------------------------------------------
(* A section is read, or its elements are chosen, one after the other. *)

(* What one element does, in a section of each kind or where elements are chosen. *)
Does(kind, x, r, el) ==
  CASE kind = "scalars" -> Unless(r, el, Scalar(x, r.conf, el))
    [] kind = "pm"      -> Unless(r, el, SetPm(r.conf, el))
    [] kind = "pairs"   -> Unless(r, el, SetPair(r.conf, el))
    [] kind = "chosen"  -> IF el \in x.places THEN Append(r, x.kids[el]) ELSE r
    [] OTHER            -> Unless(r, el, SetPool(r.conf, el))

(* f has what is done for the places of a set, the greatest last; *)
Runs(kind, x, base, s, n, f) ==
  f = [S \in SUBSET (1..n) |->
         IF S = {} THEN base ELSE Does(kind, x, f[S \ {Max(S)}], s[Max(S)])]

(* and g what is done after the first k. *)
Course(kind, x, base, s, n, g) ==
  g[0] = base /\ \A k \in 1..n : g[k] = Does(kind, x, g[k - 1], s[k])

(* The greatest of a set that has the greatest number there may be. *)
LEMMA GreatestLemma ==
  ASSUME NEW n \in Nat, NEW S, S \subseteq 1..n, n \in S
  PROVE  Max(S) = n /\ S \ {n} \in SUBSET (1..n - 1)
<1>1. \A y \in S : y \in Nat /\ n >= y
  OBVIOUS
<1>2. Max(S) \in S /\ \A y \in S : Max(S) >= y
  BY <1>1 DEF Max
<1>3. Max(S) = n
  <2>1. Max(S) \in Nat /\ n >= Max(S) /\ Max(S) >= n
    BY <1>1, <1>2
  <2> QED BY <2>1
<1>4. \A y \in S \ {n} : y \in 1..n - 1
  BY <1>1
<1> QED BY <1>3, <1>4

(* There is such a function: it goes on from that of one place less. *)
LEMMA RunsExist ==
  ASSUME NEW kind, NEW z, NEW base, NEW s, NEW n \in Nat
  PROVE  \E f : Runs(kind, z, base, s, n, f)
<1> DEFINE R(k, f) == Runs(kind, z, base, s, k, f)
           T == {k \in Nat : \E f : R(k, f)}
<1>1. 0 \in T
  <2>1. R(0, [S \in SUBSET (1..0) |-> base])
    <3>1. SUBSET (1..0) = {{}}
      OBVIOUS
    <3> QED BY <3>1 DEF Runs
  <2> QED BY <2>1
<1>2. ASSUME NEW x \in 1..n, x - 1 \in T PROVE x \in T
  <2>1. x \in Nat /\ x - 1 \in Nat
    OBVIOUS
  <2>2. PICK f : R(x - 1, f)
    BY <1>2
  <2> DEFINE g == [S \in SUBSET (1..x) |->
                     IF x \in S THEN Does(kind, z, f[S \ {x}], s[x]) ELSE f[S]]
  <2> HIDE DEF T
  <2>3. ASSUME NEW S \in SUBSET (1..x)
        PROVE  g[S] = IF S = {} THEN base ELSE Does(kind, z, g[S \ {Max(S)}], s[Max(S)])
    <3>1. CASE x \in S
      <4>1. Max(S) = x /\ S \ {x} \in SUBSET (1..x) /\ x \notin S \ {x} /\ S # {}
        BY <2>1, <3>1, GreatestLemma
      <4>2. g[S] = Does(kind, z, f[S \ {x}], s[x]) /\ g[S \ {x}] = f[S \ {x}]
        BY <3>1, <4>1
      <4> HIDE DEF g
      <4> QED BY <4>1, <4>2
    <3>2. CASE x \notin S
      <4>1. S \in SUBSET (1..x - 1)
        <5>1. ASSUME NEW y \in S PROVE y \in 1..x - 1
          <6>1. y \in 1..x /\ y # x
            BY <3>2
          <6> QED BY <6>1, <2>1
        <5> QED BY <5>1
      <4>2. f[S] = IF S = {} THEN base ELSE Does(kind, z, f[S \ {Max(S)}], s[Max(S)])
        BY <4>1, <2>2 DEF Runs
      <4>3. g[S] = f[S] /\ g[S \ {Max(S)}] = f[S \ {Max(S)}]
        BY <3>2
      <4> HIDE DEF g
      <4> QED BY <4>2, <4>3
    <3> QED BY <3>1, <3>2
  <2>4. R(x, g)
    <3>1. g = [S \in SUBSET (1..x) |-> g[S]]
      OBVIOUS
    <3> HIDE DEF g
    <3> QED BY <3>1, <2>3 DEF Runs
  <2> QED BY <2>1, <2>4 DEF T
<1>3. n \in 0..n
  OBVIOUS
<1> HIDE DEF T
<1>4. n \in T
  BY <1>1, <1>2, <1>3, UpToLemma
<1> QED BY <1>4 DEF T

(* Over the first k places it does what is done step by step. *)
LEMMA RunsCourse ==
  ASSUME NEW kind, NEW z, NEW base, NEW s, NEW n \in Nat, NEW f, Runs(kind, z, base, s, n, f)
  PROVE  Course(kind, z, base, s, n, [k \in 0..n |-> f[1..k]])
<1> DEFINE g == [k \in 0..n |-> f[1..k]]
<1>1. \A S \in SUBSET (1..n) :
        f[S] = IF S = {} THEN base ELSE Does(kind, z, f[S \ {Max(S)}], s[Max(S)])
  BY DEF Runs
<1>2. g[0] = base
  <2>1. 1..0 = {} /\ 1..0 \in SUBSET (1..n) /\ 0 \in 0..n
    OBVIOUS
  <2> QED BY <1>1, <2>1
<1>3. ASSUME NEW k \in 1..n
      PROVE  g[k] = Does(kind, z, g[k - 1], s[k])
  <2>1. /\ k \in Nat /\ k \in 1..k /\ 1..k \subseteq 1..k /\ 1..k # {}
        /\ 1..k \in SUBSET (1..n) /\ k \in 0..n /\ k - 1 \in 0..n
    OBVIOUS
  <2>5. (1..k) \ {k} = 1..k - 1
    BY <2>1
  <2>2. Max(1..k) = k
    BY <2>1, GreatestLemma
  <2>3. f[1..k] = Does(kind, z, f[1..k - 1], s[k])
    BY <1>1, <2>1, <2>2, <2>5
  <2>4. g[k] = f[1..k] /\ g[k - 1] = f[1..k - 1]
    BY <2>1
  <2> QED BY <2>3, <2>4
<1> HIDE DEF g
<1> QED BY <1>2, <1>3 DEF Course, g

(* What runs ends with what its course ends with. *)
LEMMA CourseLemma ==
  ASSUME NEW kind, NEW z, NEW base, NEW s, NEW n \in Nat,
         NEW f, Runs(kind, z, base, s, n, f), NEW r, r = f[1..n]
  PROVE  \E g : Course(kind, z, base, s, n, g) /\ r = g[n]
<1> DEFINE g == [k \in 0..n |-> f[1..k]]
<1>1. Course(kind, z, base, s, n, g)
  BY RunsCourse
<1>2. r = g[n]
  <2>1. n \in 0..n
    OBVIOUS
  <2> QED BY <2>1
<1> QED BY <1>1, <1>2

(* Each kind of section, and Chosen, is such a course. *)
LEMMA ScalarsCourse ==
  ASSUME NEW S, NEW kids \in Seq(S), NEW opts, NEW had
  PROVE  \E g : /\ Course("scalars", opts, Fine(had), kids, Len(kids), g)
                /\ Scalars(opts, had, kids) = g[Len(kids)]
<1> DEFINE n == Len(kids)
           R(f) == f = [T \in SUBSET (1..n) |->
                          IF T = {} THEN Fine(had)
                          ELSE Unless(f[T \ {Max(T)}], kids[Max(T)],
                                      Scalar(opts, f[T \ {Max(T)}].conf, kids[Max(T)]))]
           f == CHOOSE f : R(f)
<1>1. DOMAIN kids = 1..n /\ n \in Nat
  BY LenProperties
<1>2. Scalars(opts, had, kids) = f[1..n]
  BY <1>1 DEF Scalars, FoldLeft, MapThenFoldSet
<1>3. \A h : R(h) <=> Runs("scalars", opts, Fine(had), kids, n, h)
  BY DEF Runs, Does
<1>4. R(f)
  BY <1>1, <1>3, RunsExist
<1>5. Runs("scalars", opts, Fine(had), kids, n, f)
  BY <1>3, <1>4
<1> HIDE DEF f, R
<1> QED BY <1>1, <1>2, <1>5, CourseLemma

LEMMA PmCourse ==
  ASSUME NEW S, NEW kids \in Seq(S), NEW had
  PROVE  \E g : /\ Course("pm", Null, Fine(had), kids, Len(kids), g)
                /\ Pm(had, kids) = g[Len(kids)]
<1> DEFINE n == Len(kids)
           R(f) == f = [T \in SUBSET (1..n) |->
                          IF T = {} THEN Fine(had)
                          ELSE Unless(f[T \ {Max(T)}], kids[Max(T)],
                                      SetPm(f[T \ {Max(T)}].conf, kids[Max(T)]))]
           f == CHOOSE f : R(f)
<1>1. DOMAIN kids = 1..n /\ n \in Nat
  BY LenProperties
<1>2. Pm(had, kids) = f[1..n]
  BY <1>1 DEF Pm, FoldLeft, MapThenFoldSet
<1>3. \A h : R(h) <=> Runs("pm", Null, Fine(had), kids, n, h)
  BY DEF Runs, Does
<1>4. R(f)
  BY <1>1, <1>3, RunsExist
<1>5. Runs("pm", Null, Fine(had), kids, n, f)
  BY <1>3, <1>4
<1> HIDE DEF f, R
<1> QED BY <1>1, <1>2, <1>5, CourseLemma

Begin(old) == Fine([begun |-> FALSE, pairs |-> old])

LEMMA PairsCourse ==
  ASSUME NEW S, NEW kids \in Seq(S), NEW old
  PROVE  \E g : /\ Course("pairs", Null, Begin(old), kids, Len(kids), g)
                /\ Pairs(old, kids) = [conf |-> g[Len(kids)].conf.pairs, err |-> g[Len(kids)].err]
<1> DEFINE n == Len(kids)
           R(f) == f = [T \in SUBSET (1..n) |->
                          IF T = {} THEN Fine([begun |-> FALSE, pairs |-> old])
                          ELSE Unless(f[T \ {Max(T)}], kids[Max(T)],
                                      SetPair(f[T \ {Max(T)}].conf, kids[Max(T)]))]
           f == CHOOSE f : R(f)
           r == f[1..n]
<1>1. DOMAIN kids = 1..n /\ n \in Nat
  BY LenProperties
<1>2. Pairs(old, kids) = [conf |-> r.conf.pairs, err |-> r.err]
  BY <1>1 DEF Pairs, FoldLeft, MapThenFoldSet
<1>3. \A h : R(h) <=> Runs("pairs", Null, Begin(old), kids, n, h)
  BY DEF Runs, Does, Begin
<1>4. R(f)
  BY <1>1, <1>3, RunsExist
<1>5. Runs("pairs", Null, Begin(old), kids, n, f)
  BY <1>3, <1>4
<1>6. r = f[1..n]
  OBVIOUS
<1> HIDE DEF f, R, r
<1>7. PICK g : Course("pairs", Null, Begin(old), kids, n, g) /\ r = g[n]
  BY <1>1, <1>5, <1>6, CourseLemma
<1> QED BY <1>2, <1>7

LEMMA PoolCourse ==
  ASSUME NEW S, NEW kids \in Seq(S)
  PROVE  \E g : /\ Course("pool", Null, Fine(NewPool), kids, Len(kids), g)
                /\ PoolSection(kids) = g[Len(kids)]
<1> DEFINE n == Len(kids)
           R(f) == f = [T \in SUBSET (1..n) |->
                          IF T = {} THEN Fine(NewPool)
                          ELSE Unless(f[T \ {Max(T)}], kids[Max(T)],
                                      SetPool(f[T \ {Max(T)}].conf, kids[Max(T)]))]
           f == CHOOSE f : R(f)
<1>1. DOMAIN kids = 1..n /\ n \in Nat
  BY LenProperties
<1>2. PoolSection(kids) = f[1..n]
  BY <1>1 DEF PoolSection, FoldLeft, MapThenFoldSet
<1>3. \A h : R(h) <=> Runs("pool", Null, Fine(NewPool), kids, n, h)
  BY DEF Runs, Does
<1>4. R(f)
  BY <1>1, <1>3, RunsExist
<1>5. Runs("pool", Null, Fine(NewPool), kids, n, f)
  BY <1>3, <1>4
<1> HIDE DEF f, R
<1> QED BY <1>1, <1>2, <1>5, CourseLemma

Those(kids, places) == [kids |-> kids, places |-> places]

LEMMA ChosenCourse ==
  ASSUME NEW S, NEW kids \in Seq(S), NEW places
  PROVE  \E g : /\ Course("chosen", Those(kids, places), <<>>, [i \in DOMAIN kids |-> i], Len(kids), g)
                /\ Chosen(kids, places) = g[Len(kids)]
<1> DEFINE n == Len(kids)
           s == [i \in DOMAIN kids |-> i]
           R(f) == f = [T \in SUBSET (1..n) |->
                          IF T = {} THEN <<>>
                          ELSE IF s[Max(T)] \in places
                               THEN Append(f[T \ {Max(T)}], kids[s[Max(T)]])
                               ELSE f[T \ {Max(T)}]]
           f == CHOOSE f : R(f)
<1>1. DOMAIN kids = 1..n /\ n \in Nat /\ DOMAIN s = 1..n
  BY LenProperties
<1>2. Chosen(kids, places) = f[1..n]
  BY <1>1 DEF Chosen, FoldLeft, MapThenFoldSet
<1>3. \A h : R(h) <=> Runs("chosen", Those(kids, places), <<>>, s, n, h)
  BY DEF Runs, Does, Those
<1>4. R(f)
  BY <1>1, <1>3, RunsExist
<1>5. Runs("chosen", Those(kids, places), <<>>, s, n, f)
  BY <1>3, <1>4
<1> HIDE DEF f, R, s
<1>6. PICK g : Course("chosen", Those(kids, places), <<>>, s, n, g) /\ Chosen(kids, places) = g[n]
  BY <1>1, <1>2, <1>5, CourseLemma
<1> QED BY <1>6 DEF s

-----------------------------------------------------------------------------
(* Which places there are up to the k-th. *)
UpTo(places, k) == places \cap 1..k

(* One place more is one more in the set, and the greatest, or none. *)
LEMMA PlacesLemma ==
  ASSUME NEW P, NEW k \in Nat \ {0}
  PROVE  /\ k \in P => UpTo(P, k) # {} /\ Max(UpTo(P, k)) = k
         /\ k \notin P => UpTo(P, k) = UpTo(P, k - 1)
         /\ UpTo(P, k - 1) \subseteq UpTo(P, k)
<1>1. UpTo(P, k - 1) \subseteq UpTo(P, k)
  <2>1. \A i \in 1..k - 1 : i \in 1..k
    OBVIOUS
  <2> QED BY <2>1 DEF UpTo
<1>2. ASSUME k \notin P PROVE UpTo(P, k) = UpTo(P, k - 1)
  <2>1. \A i \in 1..k : i = k \/ i \in 1..k - 1
    OBVIOUS
  <2>2. UpTo(P, k) \subseteq UpTo(P, k - 1)
    BY <1>2, <2>1 DEF UpTo
  <2> QED BY <1>1, <2>2
<1>3. ASSUME k \in P PROVE UpTo(P, k) # {} /\ Max(UpTo(P, k)) = k
  <2>1. k \in UpTo(P, k) /\ UpTo(P, k) \subseteq 1..k
    BY <1>3 DEF UpTo
  <2> QED BY <2>1, GreatestLemma
<1> QED BY <1>1, <1>2, <1>3

LEMMA NoPlaces == ASSUME NEW P PROVE UpTo(P, 0) = {}
<1>1. 1..0 = {}
  OBVIOUS
<1> QED BY <1>1 DEF UpTo

LEMMA AllPlaces ==
  ASSUME NEW n, NEW P, P \subseteq 1..n
  PROVE  UpTo(P, n) = P
BY DEF UpTo

(* The places where an option is given. *)
LEMMA GivenLemma ==
  ASSUME NEW S, NEW kids \in Seq(S)
  PROVE  /\ Len(kids) \in Nat
         /\ \A o : Given(kids, o) \subseteq 1..Len(kids)
         /\ \A k \in 1..Len(kids) : \A o :
              k \in Given(kids, o) <=> IsSetting(kids[k]) /\ kids[k].name = o
<1>1. Len(kids) \in Nat /\ DOMAIN kids = 1..Len(kids)
  BY LenProperties
<1> QED BY <1>1 DEF Given

LEMMA LatestLemma ==
  ASSUME NEW S, NEW kids \in Seq(S), NEW k \in 1..Len(kids), NEW o
  PROVE  /\ k \in Given(kids, o) => /\ UpTo(Given(kids, o), k) # {}
                                   /\ Max(UpTo(Given(kids, o), k)) = k
         /\ k \notin Given(kids, o) => UpTo(Given(kids, o), k) = UpTo(Given(kids, o), k - 1)
         /\ k \in Given(kids, o) <=> IsSetting(kids[k]) /\ kids[k].name = o
<1>1. k \in Given(kids, o) <=> IsSetting(kids[k]) /\ kids[k].name = o
  BY GivenLemma
<1>2. k \in Nat \ {0}
  OBVIOUS
<1> QED BY <1>1, <1>2, PlacesLemma

LEMMA GivenEnds ==
  ASSUME NEW S, NEW kids \in Seq(S), NEW o
  PROVE  /\ UpTo(Given(kids, o), 0) = {}
         /\ UpTo(Given(kids, o), Len(kids)) = Given(kids, o)
<1>1. Given(kids, o) \subseteq 1..Len(kids)
  BY GivenLemma
<1> QED BY <1>1, NoPlaces, AllPlaces

-----------------------------------------------------------------------------
(* A section of scalars: the last value given by the first k elements counts, and
   is what was there before if there is none. *)
Bad(opts, el) ==
  /\ IsSetting(el) /\ el.name \in DOMAIN opts
  /\ ~ (el.kids[1].tag = "text" /\ Value(opts[el.name], el.kids[1]) # Invalid)

Over(opts, kids, k, had) ==
  [o \in DOMAIN had |->
     IF o \in DOMAIN opts /\ UpTo(Given(kids, o), k) # {}
     THEN Value(opts[o], kids[Max(UpTo(Given(kids, o), k))].kids[1])
     ELSE had[o]]

(* One more element of a section of scalars. *)
LEMMA ScalarLemma ==
  ASSUME NEW S, NEW kids \in Seq(S), NEW opts, NEW had, DOMAIN opts \subseteq DOMAIN had,
         NEW k \in 1..Len(kids)
  PROVE  LET r == Unless(Fine(Over(opts, kids, k - 1, had)), kids[k],
                         Scalar(opts, Over(opts, kids, k - 1, had), kids[k]))
         IN  IF Bad(opts, kids[k]) THEN r.err
             ELSE r = Fine(Over(opts, kids, k, had))
<1> DEFINE el == kids[k]
           c == Over(opts, kids, k - 1, had)
           d == Over(opts, kids, k, had)
           v == Value(opts[el.name], el.kids[1])
<1>1. /\ \A o : k \in Given(kids, o) => UpTo(Given(kids, o), k) # {} /\ Max(UpTo(Given(kids, o), k)) = k
      /\ \A o : k \notin Given(kids, o) => UpTo(Given(kids, o), k) = UpTo(Given(kids, o), k - 1)
      /\ \A o : k \in Given(kids, o) <=> IsSetting(el) /\ el.name = o
  BY LatestLemma
<1>2. CASE ~ (IsSetting(el) /\ el.name \in DOMAIN opts)
  <2>1. \A o \in DOMAIN opts : UpTo(Given(kids, o), k) = UpTo(Given(kids, o), k - 1)
    BY <1>1, <1>2
  <2>2. c = d
    <3>1. ASSUME NEW o \in DOMAIN had PROVE c[o] = d[o]
      BY <2>1 DEF Over
    <3>2. c = [o \in DOMAIN had |-> c[o]] /\ d = [o \in DOMAIN had |-> d[o]]
      BY DEF Over
    <3> HIDE DEF c, d, el, v
    <3> QED BY <3>1, <3>2
  <2> HIDE DEF c, d, el
  <2>3. Unless(Fine(c), el, Scalar(opts, c, el)) = Fine(c)
    BY <1>2 DEF Unless, Scalar, Fine
  <2>4. ~ Bad(opts, el)
    BY <1>2 DEF Bad
  <2> QED BY <2>2, <2>3, <2>4 DEF c, d, el
<1>3. CASE IsSetting(el) /\ el.name \in DOMAIN opts /\ el.kids[1].tag = "text" /\ v # Invalid
  <2>1. \A o : o # el.name => UpTo(Given(kids, o), k) = UpTo(Given(kids, o), k - 1)
    BY <1>1, <1>3
  <2>2. UpTo(Given(kids, el.name), k) # {} /\ Max(UpTo(Given(kids, el.name), k)) = k
    BY <1>1, <1>3
  <2>3. d = [c EXCEPT ![el.name] = v]
    <3>1. ASSUME NEW o \in DOMAIN had PROVE d[o] = IF o = el.name THEN v ELSE c[o]
      <4>1. CASE o = el.name
        <5>1. d[o] = Value(opts[o], kids[k].kids[1])
          BY <4>1, <2>2, <1>3 DEF Over
        <5> QED BY <4>1, <5>1
      <4>2. CASE o # el.name
        BY <4>2, <2>1 DEF Over
      <4> QED BY <4>1, <4>2
    <3>2. c = [o \in DOMAIN had |-> c[o]] /\ d = [o \in DOMAIN had |-> d[o]]
      BY DEF Over
    <3> HIDE DEF c, d, el, v
    <3> QED BY <3>1, <3>2
  <2> HIDE DEF c, d, el
  <2>4. Unless(Fine(c), el, Scalar(opts, c, el)) = Fine(d)
    BY <1>3, <2>3 DEF Unless, Scalar, Fine
  <2>5. ~ Bad(opts, el)
    BY <1>3 DEF Bad
  <2> QED BY <2>4, <2>5 DEF c, d, el
<1>4. CASE IsSetting(el) /\ el.name \in DOMAIN opts /\ ~ (el.kids[1].tag = "text" /\ v # Invalid)
  <2> HIDE DEF c, d, el
  <2>1. Unless(Fine(c), el, Scalar(opts, c, el)).err
    BY <1>4 DEF Unless, Scalar, Fine, Failed
  <2>2. Bad(opts, el)
    BY <1>4 DEF Bad
  <2> QED BY <2>1, <2>2 DEF c, d, el
<1> QED BY <1>2, <1>3, <1>4

(* Once it has failed it has failed. *)
LEMMA FailedLemma ==
  ASSUME NEW kind, kind # "chosen", NEW x, NEW r, NEW el, r.err
  PROVE  Does(kind, x, r, el) = r
BY DEF Does, Unless

(* What is read step by step: C[k] is what there is after k steps when no place so
   far was a bad one. *)
Steps(kind, x, s, n, bad, C) ==
  /\ bad \subseteq 1..n
  /\ \A k \in 1..n : LET r == Does(kind, x, Fine(C[k - 1]), s[k])
                     IN  IF k \in bad THEN r.err ELSE r = Fine(C[k])

Result(r, bad, had) == IF bad # {} THEN r.err ELSE r = Fine(had)

(* A course of such steps fails if a place is bad, and otherwise ends with what
   there is after the last one. *)
LEMMA StepsLemma ==
  ASSUME NEW kind, kind # "chosen", NEW x, NEW s, NEW n \in Nat, NEW g,
         NEW bad, NEW C, Course(kind, x, Fine(C[0]), s, n, g), Steps(kind, x, s, n, bad, C)
  PROVE  Result(g[n], bad, C[n])
<1> DEFINE Is(k) == IF UpTo(bad, k) # {} THEN g[k].err ELSE g[k] = Fine(C[k])
           T == {k \in 0..n : Is(k)}
<1>1. /\ UpTo(bad, 0) = {} /\ UpTo(bad, n) = bad
      /\ \A k \in 1..n : /\ k \in bad => UpTo(bad, k) # {}
                         /\ k \notin bad => UpTo(bad, k) = UpTo(bad, k - 1)
                         /\ UpTo(bad, k - 1) \subseteq UpTo(bad, k)
  <2>1. bad \subseteq 1..n /\ \A k \in 1..n : k \in Nat \ {0}
    BY DEF Steps
  <2> QED BY <2>1, NoPlaces, AllPlaces, PlacesLemma
<1>2. 0 \in T
  <2>1. g[0] = Fine(C[0]) /\ 0 \in 0..n
    BY DEF Course
  <2> QED BY <1>1, <2>1
<1>3. ASSUME NEW k \in 1..n, k - 1 \in T PROVE k \in T
  <2>1. g[k] = Does(kind, x, g[k - 1], s[k])
    BY DEF Course
  <2>2. Is(k - 1) /\ k \in 0..n
    BY <1>3
  <2>3. CASE UpTo(bad, k - 1) # {}
    <3>1. g[k - 1].err
      BY <2>2, <2>3
    <3>2. g[k] = g[k - 1]
      BY <2>1, <3>1, FailedLemma
    <3>3. UpTo(bad, k) # {}
      BY <1>1, <2>3
    <3> QED BY <2>2, <3>1, <3>2, <3>3
  <2>4. CASE UpTo(bad, k - 1) = {}
    <3>1. g[k - 1] = Fine(C[k - 1])
      BY <2>2, <2>4
    <3>2. IF k \in bad THEN g[k].err ELSE g[k] = Fine(C[k])
      BY <2>1, <3>1 DEF Steps
    <3>3. UpTo(bad, k) # {} <=> k \in bad
      BY <1>1, <2>4
    <3> QED BY <2>2, <3>2, <3>3
  <2> QED BY <2>3, <2>4
<1>4. n \in T
  <2> HIDE DEF T
  <2>1. n \in 0..n
    OBVIOUS
  <2> QED BY <1>2, <1>3, <2>1, UpToLemma
<1>5. Is(n)
  BY <1>4
<1> QED BY <1>1, <1>5 DEF Result

(* A section of scalars is refused if a value of it is, and otherwise sets what
   it says. *)
LEMMA ScalarsLemma ==
  ASSUME NEW S, NEW kids \in Seq(S), NEW opts, NEW had, DOMAIN opts \subseteq DOMAIN had,
         had = [o \in DOMAIN had |-> had[o]]
  PROVE  LET r == Scalars(opts, had, kids)
         IN  IF IsGood(opts, kids)
             THEN r = Fine([o \in DOMAIN had |-> IF o \in DOMAIN opts THEN Says(opts, kids, had)[o]
                                                  ELSE had[o]])
             ELSE r.err
<1> DEFINE n == Len(kids)
           bad == {k \in 1..n : Bad(opts, kids[k])}
           C == [k \in 0..n |-> Over(opts, kids, k, had)]
           d == [o \in DOMAIN had |-> IF o \in DOMAIN opts THEN Says(opts, kids, had)[o]
                                       ELSE had[o]]
<1>1. n \in Nat
  BY GivenLemma
<1>2. bad = {} <=> IsGood(opts, kids)
  <2>1. ToSet(kids) = {kids[i] : i \in 1..n}
    BY LenProperties DEF ToSet
  <2> QED BY <2>1 DEF Bad, IsGood
<1>3. C[n] = d
  <2>1. \A o : UpTo(Given(kids, o), n) = Given(kids, o)
    BY GivenEnds
  <2>2. Over(opts, kids, n, had) = d
    BY <2>1 DEF Over, Says, LastGiven
  <2> QED BY <1>1, <2>2
<1>4. C[0] = had
  <2>1. \A o : UpTo(Given(kids, o), 0) = {}
    BY GivenEnds
  <2>2. Over(opts, kids, 0, had) = had
    BY <2>1 DEF Over
  <2> QED BY <1>1, <2>2
<1>5. ASSUME NEW k \in 1..n
      PROVE  LET r == Does("scalars", opts, Fine(C[k - 1]), kids[k])
             IN  IF k \in bad THEN r.err ELSE r = Fine(C[k])
  <2>1. k \in 0..n /\ k - 1 \in 0..n /\ k \in 1..Len(kids)
    BY <1>1
  <2>2. C[k - 1] = Over(opts, kids, k - 1, had) /\ C[k] = Over(opts, kids, k, had)
    BY <2>1
  <2>3. k \in bad <=> Bad(opts, kids[k])
    OBVIOUS
  <2> HIDE DEF C, bad, n
  <2> DEFINE c == Over(opts, kids, k - 1, had)
             e == Over(opts, kids, k, had)
             el == kids[k]
  <2>4. IF Bad(opts, el) THEN Unless(Fine(c), el, Scalar(opts, c, el)).err
        ELSE Unless(Fine(c), el, Scalar(opts, c, el)) = Fine(e)
    BY <2>1, ScalarLemma
  <2> HIDE DEF c, e, el
  <2>5. Does("scalars", opts, Fine(c), el) = Unless(Fine(c), el, Scalar(opts, c, el))
    BY DEF Does, Fine
  <2> QED BY <2>2, <2>3, <2>4, <2>5 DEF c, e, el
<1>6. PICK g : Course("scalars", opts, Fine(had), kids, n, g) /\ Scalars(opts, had, kids) = g[n]
  BY ScalarsCourse
<1>7. Result(g[n], bad, C[n])
  <2>1. bad \subseteq 1..n
    OBVIOUS
  <2> HIDE DEF C, bad, n
  <2>2. Course("scalars", opts, Fine(C[0]), kids, n, g)
    BY <1>4, <1>6
  <2>3. Steps("scalars", opts, kids, n, bad, C)
    BY <1>5, <2>1 DEF Steps
  <2> QED BY <1>1, <2>2, <2>3, StepsLemma
<1> HIDE DEF C, bad, d
<1> QED BY <1>2, <1>3, <1>6, <1>7 DEF d, Result

-----------------------------------------------------------------------------
(* What the sections of a set say after one more of them. *)
LEMMA AllSayLemma ==
  ASSUME NEW kids, NEW P, NEW opts, NEW unset, NEW o \in DOMAIN opts, NEW k \in Nat \ {0}
  PROVE  AllSay(opts, kids, UpTo(P, k), unset)[o] =
           IF k \in P /\ Given(kids[k].kids, o) # {}
           THEN Value(opts[o], LastGiven(kids[k].kids, o).kids[1])
           ELSE AllSay(opts, kids, UpTo(P, k - 1), unset)[o]
<1> DEFINE G == {i \in P : Given(kids[i].kids, o) # {}}
           W(i) == UpTo(G, i)
<1>1. \A i : W(i) = {m \in UpTo(P, i) : Given(kids[m].kids, o) # {}}
  BY DEF UpTo
<1>2. ASSUME NEW i
      PROVE  AllSay(opts, kids, UpTo(P, i), unset)[o] =
               IF W(i) = {} THEN unset[o] ELSE Says(opts, kids[Max(W(i))].kids, unset)[o]
  BY <1>1 DEF AllSay
<1>3. /\ k \in G => W(k) # {} /\ Max(W(k)) = k
      /\ k \notin G => W(k) = W(k - 1)
  <2> HIDE DEF G
  <2> QED BY PlacesLemma
<1>4. k \in G <=> k \in P /\ Given(kids[k].kids, o) # {}
  OBVIOUS
<1> HIDE DEF W, G
<1>5. CASE k \in G
  <2>1. AllSay(opts, kids, UpTo(P, k), unset)[o] = Says(opts, kids[k].kids, unset)[o]
    BY <1>2, <1>3, <1>5
  <2>2. Given(kids[k].kids, o) # {}
    BY <1>4, <1>5
  <2>3. Says(opts, kids[k].kids, unset)[o] = Value(opts[o], LastGiven(kids[k].kids, o).kids[1])
    BY <2>2 DEF Says
  <2> QED BY <1>4, <1>5, <2>1, <2>3
<1>6. CASE k \notin G
  <2>1. AllSay(opts, kids, UpTo(P, k), unset)[o] = AllSay(opts, kids, UpTo(P, k - 1), unset)[o]
    BY <1>2, <1>3, <1>6
  <2> QED BY <1>4, <1>6, <2>1
<1> QED BY <1>5, <1>6

LEMMA AllSayNone ==
  ASSUME NEW kids, NEW P, NEW opts, NEW unset, NEW o \in DOMAIN opts
  PROVE  AllSay(opts, kids, UpTo(P, 0), unset)[o] = unset[o]
BY NoPlaces DEF AllSay

(* A section that is all right sets what it gives. *)
LEMMA SectionLemma ==
  ASSUME NEW kids, NEW P, NEW opts, NEW unset, NEW k \in Nat \ {0}, k \in P,
         NEW o \in DOMAIN opts, NEW c, c[o] = AllSay(opts, kids, UpTo(P, k - 1), unset)[o]
  PROVE  Says(opts, kids[k].kids, c)[o] = AllSay(opts, kids, UpTo(P, k), unset)[o]
<1>1. AllSay(opts, kids, UpTo(P, k), unset)[o] =
        IF k \in P /\ Given(kids[k].kids, o) # {}
        THEN Value(opts[o], LastGiven(kids[k].kids, o).kids[1])
        ELSE AllSay(opts, kids, UpTo(P, k - 1), unset)[o]
  BY AllSayLemma
<1>2. Says(opts, kids[k].kids, c)[o] =
        IF Given(kids[k].kids, o) = {} THEN c[o] ELSE Value(opts[o], LastGiven(kids[k].kids, o).kids[1])
  BY DEF Says
<1> QED BY <1>1, <1>2

(* The last value given among the first k. *)
Latest(opts, kids, k, unset, o) ==
  IF UpTo(Given(kids, o), k) = {} THEN unset[o]
  ELSE Value(opts[o], kids[Max(UpTo(Given(kids, o), k))].kids[1])

LEMMA LatestStep ==
  ASSUME NEW S, NEW kids \in Seq(S), NEW opts, NEW unset, NEW o, NEW k \in 1..Len(kids)
  PROVE  Latest(opts, kids, k, unset, o) =
           IF IsSetting(kids[k]) /\ kids[k].name = o THEN Value(opts[o], kids[k].kids[1])
           ELSE Latest(opts, kids, k - 1, unset, o)
<1> DEFINE P == Given(kids, o)
           b == k \in P
<1>1. /\ k \in P => UpTo(P, k) # {} /\ Max(UpTo(P, k)) = k
      /\ k \notin P => UpTo(P, k) = UpTo(P, k - 1)
      /\ k \in P <=> IsSetting(kids[k]) /\ kids[k].name = o
  BY LatestLemma
<1> HIDE DEF P
<1>2. CASE k \in P
  <2>1. IsSetting(kids[k]) /\ kids[k].name = o
    BY <1>1, <1>2
  <2> QED BY <1>1, <1>2, <2>1 DEF Latest, P
<1>3. CASE k \notin P
  <2>1. ~ (IsSetting(kids[k]) /\ kids[k].name = o)
    BY <1>1, <1>3
  <2> QED BY <1>1, <1>3, <2>1 DEF Latest, P
<1> QED BY <1>2, <1>3

LEMMA LatestEnds ==
  ASSUME NEW S, NEW kids \in Seq(S), NEW opts, NEW unset, NEW o
  PROVE  /\ Latest(opts, kids, 0, unset, o) = unset[o]
         /\ o \in DOMAIN opts => Latest(opts, kids, Len(kids), unset, o) = Says(opts, kids, unset)[o]
BY GivenEnds DEF Latest, Says, LastGiven

LEMMA ScalarIs ==
  ASSUME NEW opts, NEW c, NEW el, IsSetting(el)
  PROVE  /\ Bad(opts, el) => Scalar(opts, c, el).err
         /\ ~ Bad(opts, el) =>
              Scalar(opts, c, el) =
                Fine(IF el.name \in DOMAIN opts
                     THEN [c EXCEPT ![el.name] = Value(opts[el.name], el.kids[1])] ELSE c)
BY DEF Scalar, Bad, Fine, Failed

-----------------------------------------------------------------------------
(* A pm section: the last style and max_children, and from the apache_like ones
   in it what the last of them gives that gives it. *)
BadPm(el) ==
  \/ Bad(PmOptions, el)
  \/ IsSetting(el) /\ el.name = "apache_like" /\ ~ IsGood(ApacheOptions, el.kids)

PmOver(kids, k) ==
  [o \in DOMAIN NewPm |->
     IF o \in DOMAIN PmOptions THEN Latest(PmOptions, kids, k, NewPm, o)
     ELSE AllSay(ApacheOptions, kids, UpTo(Given(kids, "apache_like"), k), NewPm)[o]]

(* The options of a pm section are those of its two kinds, and no other. *)
LEMMA PmOptionsLemma ==
  /\ DOMAIN NewPm = DOMAIN PmOptions \cup DOMAIN ApacheOptions
  /\ "apache_like" \notin DOMAIN PmOptions
  /\ \A o \in DOMAIN ApacheOptions : o \notin DOMAIN PmOptions
<1>1. DOMAIN PmOptions = {"style", "max_children"}
  BY DEF PmOptions
<1>2. DOMAIN ApacheOptions = {"StartServers", "MinSpareServers", "MaxSpareServers"}
  BY DEF ApacheOptions
<1>3. DOMAIN NewPm = DOMAIN PmOptions \cup DOMAIN ApacheOptions
  BY DEF NewPm, Both, Unset
<1> QED BY <1>1, <1>2, <1>3

(* One more element of a pm section. *)
LEMMA PmStep ==
  ASSUME NEW kids \in Seq(Elements), NEW k \in 1..Len(kids)
  PROVE  LET r == Unless(Fine(PmOver(kids, k - 1)), kids[k], SetPm(PmOver(kids, k - 1), kids[k]))
         IN  /\ BadPm(kids[k]) => r.err
             /\ ~ BadPm(kids[k]) => r = Fine(PmOver(kids, k))
<1> DEFINE el == kids[k]
           c == PmOver(kids, k - 1)
           d == PmOver(kids, k)
           A == Given(kids, "apache_like")
           v == Value(PmOptions[el.name], el.kids[1])
           r == Unless(Fine(c), el, SetPm(c, el))
<1>1. /\ k \in Nat \ {0} /\ el \in Elements /\ el.kids \in Seq(Elements)
      /\ k \in A <=> IsSetting(el) /\ el.name = "apache_like"
  <2>1. kids[k] \in Elements
    BY ElementOfSeq
  <2>2. k \in A <=> IsSetting(el) /\ el.name = "apache_like"
    BY LatestLemma
  <2> QED BY <2>1, <2>2, ConfAssumption
<1>2. /\ c = [o \in DOMAIN NewPm |-> c[o]] /\ d = [o \in DOMAIN NewPm |-> d[o]]
      /\ DOMAIN c = DOMAIN NewPm
  BY DEF PmOver
<1>3. ASSUME NEW o \in DOMAIN PmOptions
      PROVE  d[o] = IF IsSetting(el) /\ el.name = o THEN Value(PmOptions[o], el.kids[1]) ELSE c[o]
  <2>1. c[o] = Latest(PmOptions, kids, k - 1, NewPm, o) /\ d[o] = Latest(PmOptions, kids, k, NewPm, o)
    BY PmOptionsLemma DEF PmOver
  <2>2. Latest(PmOptions, kids, k, NewPm, o) =
           IF IsSetting(kids[k]) /\ kids[k].name = o THEN Value(PmOptions[o], kids[k].kids[1])
           ELSE Latest(PmOptions, kids, k - 1, NewPm, o)
    BY LatestStep
  <2> QED BY <2>1, <2>2
<1>4. ASSUME NEW o \in DOMAIN ApacheOptions
      PROVE  /\ k \notin A => d[o] = c[o]
             /\ k \in A => d[o] = Says(ApacheOptions, el.kids, c)[o]
  <2>1. /\ c[o] = AllSay(ApacheOptions, kids, UpTo(A, k - 1), NewPm)[o]
        /\ d[o] = AllSay(ApacheOptions, kids, UpTo(A, k), NewPm)[o]
    BY PmOptionsLemma DEF PmOver
  <2> HIDE DEF c, d, A
  <2>2. ASSUME k \notin A PROVE d[o] = c[o]
    BY <1>1, <2>1, <2>2, AllSayLemma
  <2>3. ASSUME k \in A PROVE d[o] = Says(ApacheOptions, el.kids, c)[o]
    BY <1>1, <2>1, <2>3, SectionLemma
  <2> QED BY <2>2, <2>3
<1>5. DOMAIN NewPm = DOMAIN PmOptions \cup DOMAIN ApacheOptions /\ "apache_like" \notin DOMAIN PmOptions
      /\ \A o \in DOMAIN ApacheOptions : o \notin DOMAIN PmOptions
  BY PmOptionsLemma
<1>6. CASE ~ (IsSetting(el) /\ (el.name = "apache_like" \/ el.name \in DOMAIN PmOptions))
  <2>1. \A o \in DOMAIN NewPm : c[o] = d[o]
    <3> HIDE DEF c, d, A, el
    <3> QED BY <1>1, <1>3, <1>4, <1>5, <1>6
  <2>2. c = d
    <3> HIDE DEF c, d
    <3> QED BY <1>2, <2>1
  <2>3. ~ BadPm(el)
    BY <1>6 DEF BadPm, Bad
  <2> HIDE DEF c, d, el
  <2>4. r = Fine(c)
    BY <1>6 DEF Unless, SetPm, Scalar, Fine
  <2> QED BY <2>2, <2>3, <2>4 DEF c, d, el
<1>7. CASE IsSetting(el) /\ el.name = "apache_like"
  <2> DEFINE q == Scalars(ApacheOptions, c, el.kids)
             e == [o \in DOMAIN c |-> IF o \in DOMAIN ApacheOptions
                                      THEN Says(ApacheOptions, el.kids, c)[o] ELSE c[o]]
  <2>1. IF IsGood(ApacheOptions, el.kids) THEN q = Fine(e) ELSE q.err
    <3> HIDE DEF c, el
    <3> QED BY <1>1, <1>2, <1>5, ScalarsLemma
  <2>2. e = d
    <3>1. ASSUME NEW o \in DOMAIN NewPm PROVE e[o] = d[o]
      <4> HIDE DEF c, d, A, el
      <4>1. CASE o \in DOMAIN ApacheOptions
        BY <1>1, <1>2, <1>4, <1>7, <4>1
      <4>2. CASE o \notin DOMAIN ApacheOptions
        BY <1>1, <1>2, <1>3, <1>5, <1>7, <4>2
      <4> QED BY <4>1, <4>2
    <3>2. e = [o \in DOMAIN NewPm |-> e[o]]
      BY <1>2
    <3> HIDE DEF c, d, e
    <3> QED BY <1>2, <3>1, <3>2
  <2> HIDE DEF c, d, el, e, q
  <2>3. r = q
    BY <1>7 DEF Unless, SetPm, Fine, q
  <2>4. BadPm(el) <=> ~ IsGood(ApacheOptions, el.kids)
    BY <1>5, <1>7 DEF BadPm, Bad
  <2> QED BY <2>1, <2>2, <2>3, <2>4 DEF c, d, el
<1>8. CASE IsSetting(el) /\ el.name \in DOMAIN PmOptions
  <2>1. d = [c EXCEPT ![el.name] = v]
    <3>1. ASSUME NEW o \in DOMAIN NewPm PROVE d[o] = IF o = el.name THEN v ELSE c[o]
      <4> HIDE DEF c, d, A, el
      <4> QED BY <1>1, <1>3, <1>4, <1>5, <1>8
    <3> HIDE DEF c, d, el, v
    <3> QED BY <1>2, <3>1
  <2> HIDE DEF c, d, el
  <2>2. r = Scalar(PmOptions, c, el)
    BY <1>5, <1>8 DEF Unless, SetPm, Fine
  <2>3. BadPm(el) <=> Bad(PmOptions, el)
    <3>1. el.name # "apache_like"
      BY <1>5, <1>8
    <3> QED BY <3>1 DEF BadPm, Bad
  <2>4. ~ Bad(PmOptions, el) => Scalar(PmOptions, c, el) = Fine([c EXCEPT ![el.name] = v])
    BY <1>8, ScalarIs
  <2>5. Bad(PmOptions, el) => Scalar(PmOptions, c, el).err
    BY <1>8, ScalarIs
  <2> QED BY <2>1, <2>2, <2>3, <2>4, <2>5 DEF c, d, el
<1> QED BY <1>6, <1>7, <1>8

(* A pm section is refused if a value in it is, and otherwise says what SaysPm says. *)
LEMMA PmLemma ==
  ASSUME NEW kids \in Seq(Elements)
  PROVE  LET r == Pm(NewPm, kids)
         IN  IF IsGoodPm(kids) THEN r = Fine(SaysPm(kids)) ELSE r.err
<1> DEFINE n == Len(kids)
           A == Given(kids, "apache_like")
           bad == {k \in 1..n : BadPm(kids[k])}
           C == [k \in 0..n |-> PmOver(kids, k)]
           r == Pm(NewPm, kids)
<1>1. n \in Nat
  BY GivenLemma
<1>2. bad = {} <=> IsGoodPm(kids)
  <2>1. ToSet(kids) = {kids[i] : i \in 1..n}
    BY LenProperties DEF ToSet
  <2>2. IsGood(PmOptions, kids) <=> \A i \in 1..n : ~ Bad(PmOptions, kids[i])
    BY <2>1 DEF Bad, IsGood
  <2>3. \A i : i \in A <=> i \in 1..n /\ IsSetting(kids[i]) /\ kids[i].name = "apache_like"
    BY GivenLemma
  <2>4. IsGoodPm(kids) <=> /\ IsGood(PmOptions, kids)
                           /\ \A i \in A : IsGood(ApacheOptions, kids[i].kids)
    BY DEF IsGoodPm
  <2> DEFINE Odd(i) == IsSetting(kids[i]) /\ kids[i].name = "apache_like"
                         /\ ~ IsGood(ApacheOptions, kids[i].kids)
  <2>5. (\A i \in 1..n : ~ Odd(i)) <=> \A i \in A : IsGood(ApacheOptions, kids[i].kids)
    <3> HIDE DEF A, n
    <3> QED BY <2>3
  <2>6. \A i : BadPm(kids[i]) <=> Bad(PmOptions, kids[i]) \/ Odd(i)
    BY DEF BadPm
  <2>7. bad = {} <=> \A i \in 1..n : ~ BadPm(kids[i])
    OBVIOUS
  <2> HIDE DEF A, n, Odd, bad
  <2> QED BY <2>2, <2>4, <2>5, <2>6, <2>7
<1>3. C[0] = NewPm
  <2>1. PmOver(kids, 0) = [o \in DOMAIN NewPm |-> PmOver(kids, 0)[o]]
    BY DEF PmOver
  <2>2. NewPm = [o \in DOMAIN NewPm |-> NewPm[o]]
    BY DEF NewPm, Both
  <2>3. ASSUME NEW o \in DOMAIN NewPm PROVE PmOver(kids, 0)[o] = NewPm[o]
    <3>1. CASE o \in DOMAIN PmOptions
      <4>1. PmOver(kids, 0)[o] = Latest(PmOptions, kids, 0, NewPm, o)
        BY <3>1 DEF PmOver
      <4> QED BY <4>1, LatestEnds
    <3>2. CASE o \notin DOMAIN PmOptions
      <4>1. PmOver(kids, 0)[o] = AllSay(ApacheOptions, kids, UpTo(A, 0), NewPm)[o]
        BY <3>2 DEF PmOver
      <4>2. o \in DOMAIN ApacheOptions
        BY <3>2, PmOptionsLemma
      <4> QED BY <4>1, <4>2, AllSayNone
    <3> QED BY <3>1, <3>2
  <2>4. PmOver(kids, 0) = NewPm
    BY <2>1, <2>2, <2>3
  <2> QED BY <1>1, <2>4
<1>4. C[n] = SaysPm(kids)
  <2> DEFINE s == SaysPm(kids)
             d == PmOver(kids, n)
  <2>1. d = [o \in DOMAIN NewPm |-> d[o]]
    BY DEF PmOver
  <2>2. /\ s = [o \in DOMAIN PmOptions \cup DOMAIN ApacheOptions |-> s[o]]
        /\ \A o \in DOMAIN PmOptions : s[o] = Says(PmOptions, kids, NewPm)[o]
        /\ \A o \in DOMAIN ApacheOptions :
             o \notin DOMAIN PmOptions => s[o] = AllSay(ApacheOptions, kids, A, NewPm)[o]
    <3> DEFINE f == Says(PmOptions, kids, NewPm)
               h == AllSay(ApacheOptions, kids, A, NewPm)
    <3>1. DOMAIN f = DOMAIN PmOptions /\ DOMAIN h = DOMAIN ApacheOptions
      BY DEF Says, AllSay
    <3>2. s = Both(f, h)
      BY DEF SaysPm
    <3> HIDE DEF f, h, s
    <3> QED BY <3>1, <3>2 DEF Both, f, h
  <2>3. UpTo(A, n) = A
    BY GivenEnds
  <2> HIDE DEF s, A
  <2>4. ASSUME NEW o \in DOMAIN NewPm PROVE d[o] = s[o]
    <3>1. CASE o \in DOMAIN PmOptions
      <4>1. d[o] = Latest(PmOptions, kids, n, NewPm, o)
        BY <3>1 DEF PmOver
      <4> HIDE DEF d
      <4> QED BY <2>2, <3>1, <4>1, LatestEnds
    <3>2. CASE o \notin DOMAIN PmOptions
      <4>1. d[o] = AllSay(ApacheOptions, kids, UpTo(A, n), NewPm)[o]
        BY <3>2 DEF PmOver, A
      <4>2. o \in DOMAIN ApacheOptions
        BY <3>2, PmOptionsLemma
      <4> HIDE DEF d
      <4> QED BY <2>2, <2>3, <3>2, <4>1, <4>2
    <3> QED BY <3>1, <3>2
  <2>5. d = s
    <3> HIDE DEF d
    <3> QED BY <2>1, <2>2, <2>4, PmOptionsLemma
  <2> QED BY <1>1, <2>5 DEF s
<1>5. Steps("pm", Null, kids, n, bad, C)
  <2>1. ASSUME NEW k \in 1..n
        PROVE  LET q == Does("pm", Null, Fine(C[k - 1]), kids[k])
               IN  IF k \in bad THEN q.err ELSE q = Fine(C[k])
    <3>1. k \in 0..n /\ k - 1 \in 0..n /\ k \in 1..Len(kids)
      BY <1>1
    <3>2. C[k - 1] = PmOver(kids, k - 1) /\ C[k] = PmOver(kids, k)
      BY <3>1
    <3>3. k \in bad <=> BadPm(kids[k])
      OBVIOUS
    <3> HIDE DEF C, bad, n
    <3> DEFINE c == PmOver(kids, k - 1)
               e == PmOver(kids, k)
               el == kids[k]
    <3>4. LET q == Unless(Fine(c), el, SetPm(c, el))
          IN  (BadPm(el) => q.err) /\ (~ BadPm(el) => q = Fine(e))
      BY <3>1, PmStep
    <3> HIDE DEF c, e, el
    <3>5. Does("pm", Null, Fine(c), el) = Unless(Fine(c), el, SetPm(c, el))
      BY DEF Does, Fine
    <3> QED BY <3>2, <3>3, <3>4, <3>5 DEF c, e, el
  <2>2. bad \subseteq 1..n
    OBVIOUS
  <2> HIDE DEF C, bad, n
  <2> QED BY <2>1, <2>2 DEF Steps
<1>6. PICK g : Course("pm", Null, Fine(NewPm), kids, n, g) /\ r = g[n]
  BY PmCourse
<1>7. Result(g[n], bad, C[n])
  <2> HIDE DEF C, bad, n
  <2>1. Course("pm", Null, Fine(C[0]), kids, n, g)
    BY <1>3, <1>6
  <2> QED BY <1>1, <1>5, <2>1, StepsLemma
<1> HIDE DEF C, bad, r
<1> QED BY <1>2, <1>4, <1>6, <1>7 DEF Result, r

-----------------------------------------------------------------------------
(* The elements at the places of a set: those up to the k-th place are Firsts[k]. *)
Firsts(kids, places) ==
  CHOOSE g : /\ Course("chosen", Those(kids, places), <<>>, [i \in DOMAIN kids |-> i], Len(kids), g)
             /\ Chosen(kids, places) = g[Len(kids)]

LEMMA FirstsLemma ==
  ASSUME NEW S, NEW kids \in Seq(S), NEW places
  PROVE  LET g == Firsts(kids, places)
         IN  /\ g[0] = <<>> /\ Chosen(kids, places) = g[Len(kids)]
             /\ \A k \in 1..Len(kids) : g[k] = IF k \in places THEN Append(g[k - 1], kids[k]) ELSE g[k - 1]
<1> DEFINE g == Firsts(kids, places)
           s == [i \in DOMAIN kids |-> i]
           Is(f) == /\ Course("chosen", Those(kids, places), <<>>, s, Len(kids), f)
                    /\ Chosen(kids, places) = f[Len(kids)]
<1>1. \E f : Is(f)
  BY ChosenCourse
<1>2. Is(g)
  <2>1. g = CHOOSE f : Is(f)
    BY DEF Firsts
  <2> HIDE DEF Is, g
  <2> QED BY <1>1, <2>1
<1>3. ASSUME NEW k \in 1..Len(kids)
      PROVE  g[k] = IF k \in places THEN Append(g[k - 1], kids[k]) ELSE g[k - 1]
  <2>1. g[k] = Does("chosen", Those(kids, places), g[k - 1], s[k])
    BY <1>2 DEF Course
  <2>2. s[k] = k
    BY LenProperties
  <2> HIDE DEF g, s
  <2> QED BY <2>1, <2>2 DEF Does, Those
<1>4. g[0] = <<>>
  BY <1>2 DEF Course
<1> HIDE DEF g
<1> QED BY <1>2, <1>3, <1>4 DEF g

(* What a sequence is with one more element. *)
LEMMA AppendedLemma ==
  ASSUME NEW S, NEW q \in Seq(S), NEW e \in S
  PROVE  /\ Append(q, e) \in Seq(S) /\ Len(Append(q, e)) = Len(q) + 1 /\ Len(q) \in Nat
         /\ \A i \in 1..Len(q) : Append(q, e)[i] = q[i]
         /\ Append(q, e)[Len(q) + 1] = e
         /\ ToSet(Append(q, e)) = ToSet(q) \cup {e}
<1> DEFINE r == Append(q, e)
           n == Len(q)
<1>1. /\ r \in Seq(S) /\ Len(r) = n + 1 /\ n \in Nat
      /\ \A i \in 1..n : r[i] = q[i]
      /\ r[n + 1] = e
  BY AppendProperties, LenProperties
<1> HIDE DEF r
<1>2. DOMAIN q = 1..n /\ DOMAIN r = 1..n + 1
  BY <1>1, LenProperties
<1> HIDE DEF n
<1>3. ASSUME NEW x \in ToSet(r) PROVE x \in ToSet(q) \cup {e}
  <2>1. PICK i \in 1..n + 1 : r[i] = x
    BY <1>2 DEF ToSet
  <2>2. i \in 1..n \/ i = n + 1
    BY <1>1
  <2>3. CASE i \in 1..n
    BY <1>1, <1>2, <2>1, <2>3 DEF ToSet
  <2>4. CASE i = n + 1
    BY <1>1, <2>1, <2>4
  <2> QED BY <2>2, <2>3, <2>4
<1>4. ASSUME NEW x \in ToSet(q) PROVE x \in ToSet(r)
  <2>1. PICK i \in 1..n : q[i] = x
    BY <1>2 DEF ToSet
  <2>2. i \in 1..n + 1 /\ r[i] = x
    BY <1>1, <2>1
  <2> QED BY <1>2, <2>2 DEF ToSet
<1>5. e \in ToSet(r)
  <2>1. n + 1 \in 1..n + 1
    BY <1>1
  <2> QED BY <1>1, <1>2, <2>1 DEF ToSet
<1>6. ToSet(r) = ToSet(q) \cup {e}
  BY <1>3, <1>4, <1>5
<1> QED BY <1>1, <1>6 DEF r, n

LEMMA FirstsAre ==
  ASSUME NEW S, NEW kids \in Seq(S), NEW places, NEW k \in 0..Len(kids)
  PROVE  LET g == Firsts(kids, places)
         IN  /\ g[k] \in Seq(S)
             /\ \A x : x \in ToSet(g[k]) <=> \E i \in UpTo(places, k) : x = kids[i]
<1> DEFINE g == Firsts(kids, places)
           Is(j) == g[j] \in Seq(S) /\ ToSet(g[j]) = {kids[i] : i \in UpTo(places, j)}
           n == Len(kids)
           T == {j \in 0..n : Is(j)}
<1>1. n \in Nat
  BY LenProperties
<1>2. 0 \in T
  <2>1. g[0] = <<>> /\ UpTo(places, 0) = {} /\ 0 \in 0..n
    BY <1>1, FirstsLemma, NoPlaces
  <2>2. ToSet(<<>>) = {}
    BY DEF ToSet
  <2> HIDE DEF g
  <2>3. g[0] \in Seq(S) /\ ToSet(g[0]) = {}
    BY <2>1, <2>2
  <2>4. {kids[i] : i \in UpTo(places, 0)} = {}
    BY <2>1
  <2> QED BY <2>1, <2>3, <2>4
<1>3. ASSUME NEW j \in 1..n, j - 1 \in T PROVE j \in T
  <2>1. g[j] = IF j \in places THEN Append(g[j - 1], kids[j]) ELSE g[j - 1]
    BY FirstsLemma
  <2>2. Is(j - 1) /\ j \in 0..n /\ j \in Nat \ {0}
    BY <1>3
  <2>3. CASE j \notin places
    <3>1. UpTo(places, j) = UpTo(places, j - 1)
      BY <2>2, <2>3, PlacesLemma
    <3>2. g[j] = g[j - 1]
      BY <2>1, <2>3
    <3> HIDE DEF g
    <3>3. g[j] \in Seq(S) /\ ToSet(g[j]) = {kids[i] : i \in UpTo(places, j - 1)}
      BY <2>2, <3>2
    <3>4. Is(j)
      BY ONLY <3>1, <3>3, Zenon DEF Is
    <3> QED BY <2>2, <3>4
  <2>4. CASE j \in places
    <3>1. kids[j] \in S
      BY ElementOfSeq
    <3> DEFINE q == g[j - 1]
               e == kids[j]
    <3>2. q \in Seq(S) /\ g[j] = Append(q, e)
      BY <2>1, <2>2, <2>4
    <3>3. ToSet(q) = {kids[i] : i \in UpTo(places, j - 1)}
      BY <2>2
    <3>4. UpTo(places, j) = UpTo(places, j - 1) \cup {j}
      <4>1. 1..j = 1..j - 1 \cup {j}
        OBVIOUS
      <4> QED BY <2>4, <4>1 DEF UpTo
    <3>5. {kids[i] : i \in UpTo(places, j)} = {kids[i] : i \in UpTo(places, j - 1)} \cup {e}
      BY <3>4
    <3> HIDE DEF g, q, e
    <3>6. Append(q, e) \in Seq(S) /\ ToSet(Append(q, e)) = ToSet(q) \cup {e}
      <4>1. e \in S
        BY <3>1 DEF e
      <4> QED BY <3>2, <4>1, AppendedLemma
    <3> QED BY <2>2, <3>2, <3>3, <3>5, <3>6
  <2> QED BY <2>3, <2>4
<1>4. k \in T
  <2> HIDE DEF T
  <2> QED BY <1>1, <1>2, <1>3, UpToLemma
<1>5. Is(k)
  BY <1>4
<1> HIDE DEF g
<1>6. \A x : x \in ToSet(g[k]) <=> \E i \in UpTo(places, k) : x = kids[i]
  BY <1>5
<1> QED BY <1>5, <1>6 DEF g

-----------------------------------------------------------------------------
(* A list of pairs: those of its settings, in their order; what was there before
   stays if there is none. *)
SettingsAt(kids) == {i \in DOMAIN kids : IsSetting(kids[i])}

BadPair(el) == IsSetting(el) /\ el.kids[1].tag # "text"

PairUp(s) == [i \in DOMAIN s |-> <<s[i].name, s[i].kids[1]>>]

PairsOver(old, kids, k) ==
  LET P == SettingsAt(kids)
  IN  [begun |-> UpTo(P, k) # {},
       pairs |-> IF UpTo(P, k) = {} THEN old ELSE PairUp(Firsts(kids, P)[k])]

(* One more element of a list is one more pair. *)
LEMMA PairUpLemma ==
  ASSUME NEW S, NEW s \in Seq(S), NEW el \in S
  PROVE  /\ PairUp(Append(s, el)) = Append(PairUp(s), <<el.name, el.kids[1]>>)
         /\ PairUp(<<el>>) = <<<<el.name, el.kids[1]>>>>
<1> DEFINE p(x) == <<x.name, x.kids[1]>>
           a == Append(s, el)
           P == {p(x) : x \in S}
<1>1. Len(s) \in Nat /\ DOMAIN s = 1..Len(s) /\ \A i \in 1..Len(s) : s[i] \in S
  BY LenProperties, ElementOfSeq
<1>2. /\ a \in Seq(S) /\ Len(a) = Len(s) + 1 /\ DOMAIN a = 1..Len(s) + 1
      /\ \A i \in 1..Len(s) : a[i] = s[i]
      /\ a[Len(s) + 1] = el
  BY AppendProperties, LenProperties
<1>3. PairUp(s) = [i \in 1..Len(s) |-> p(s[i])]
  BY <1>1 DEF PairUp
<1>4. PairUp(s) \in Seq(P) /\ Len(PairUp(s)) = Len(s)
  <2>1. \A i \in 1..Len(s) : p(s[i]) \in P
    BY <1>1
  <2> HIDE DEF p, P
  <2> QED BY <1>1, <1>3, <2>1
<1>5. PairUp(a) = [i \in 1..Len(s) + 1 |-> p(a[i])]
  BY <1>2 DEF PairUp
<1>6. p(el) \in P
  OBVIOUS
<1>7. Append(PairUp(s), p(el)) = [i \in 1..Len(s) + 1 |-> p(a[i])]
  <2> DEFINE q == PairUp(s)
             e == p(el)
             b == Append(q, e)
  <2> HIDE DEF a, p, P, q, e
  <2>1. /\ b \in Seq(P) /\ DOMAIN b = 1..Len(s) + 1
        /\ \A i \in 1..Len(s) : b[i] = q[i]
        /\ b[Len(s) + 1] = e
    BY <1>4, <1>6, AppendProperties, LenProperties DEF q, e
  <2>2. b = [i \in 1..Len(s) + 1 |-> b[i]]
    <3> HIDE DEF b
    <3> QED BY <2>1
  <2>3. ASSUME NEW i \in 1..Len(s) + 1 PROVE b[i] = p(a[i])
    <3> HIDE DEF b
    <3>1. CASE i \in 1..Len(s)
      <4>1. q[i] = p(s[i]) /\ a[i] = s[i] /\ b[i] = q[i]
        BY <1>2, <1>3, <2>1, <3>1 DEF q
      <4> QED BY <4>1
    <3>2. CASE i \notin 1..Len(s)
      <4>1. i = Len(s) + 1
        BY <1>1, <3>2
      <4>2. b[i] = e /\ a[i] = el
        BY <1>2, <2>1, <4>1
      <4> QED BY <4>2 DEF e
    <3> QED BY <3>1, <3>2
  <2> HIDE DEF b
  <2>4. b = [i \in 1..Len(s) + 1 |-> p(a[i])]
    BY <2>2, <2>3
  <2> QED BY <2>4 DEF b, q, e
<1>8. PairUp(a) = Append(PairUp(s), p(el))
  <2> HIDE DEF a, p, P
  <2> QED BY <1>5, <1>7
<1>9. PairUp(<<el>>) = <<p(el)>>
  BY DEF PairUp
<1> QED BY <1>8, <1>9

LEMMA PairStep ==
  ASSUME NEW old, NEW kids \in Seq(Elements), NEW k \in 1..Len(kids)
  PROVE  LET r == Unless(Fine(PairsOver(old, kids, k - 1)), kids[k],
                         SetPair(PairsOver(old, kids, k - 1), kids[k]))
         IN  /\ BadPair(kids[k]) => r.err
             /\ ~ BadPair(kids[k]) => r = Fine(PairsOver(old, kids, k))
<1> DEFINE P == SettingsAt(kids)
           g == Firsts(kids, P)
           el == kids[k]
           c == PairsOver(old, kids, k - 1)
           d == PairsOver(old, kids, k)
           r == Unless(Fine(c), el, SetPair(c, el))
           pair == <<el.name, el.kids[1]>>
<1>1. k \in Nat \ {0} /\ el \in Elements /\ k - 1 \in 0..Len(kids)
  BY ElementOfSeq
<1>2. k \in P <=> IsSetting(el)
  BY LenProperties DEF SettingsAt
<1>3. /\ k \in P => UpTo(P, k) # {}
      /\ k \notin P => UpTo(P, k) = UpTo(P, k - 1)
  BY <1>1, PlacesLemma
<1>4. g[k] = IF k \in P THEN Append(g[k - 1], el) ELSE g[k - 1]
  BY FirstsLemma
<1>5. g[k - 1] \in Seq(Elements)
  BY <1>1, FirstsAre
<1>6. UpTo(P, k - 1) = {} => g[k - 1] = <<>>
  <2>1. ASSUME UpTo(P, k - 1) = {}, NEW x PROVE x \notin ToSet(g[k - 1])
    BY <1>1, <2>1, FirstsAre
  <2>2. ASSUME UpTo(P, k - 1) = {} PROVE g[k - 1] = <<>>
    <3>1. ToSet(g[k - 1]) = {}
      BY <2>1, <2>2
    <3> DEFINE q == g[k - 1]
    <3>2. q \in Seq(Elements) /\ ToSet(q) = {}
      BY <1>5, <3>1
    <3> HIDE DEF q
    <3>3. Len(q) \in Nat /\ DOMAIN q = 1..Len(q) /\ 1 \notin DOMAIN q
      BY <3>2, LenProperties DEF ToSet
    <3>4. q = <<>>
      BY <3>2, <3>3, EmptySeq
    <3> QED BY <3>4 DEF q
  <2> QED BY <2>2
<1>7. /\ c = [begun |-> UpTo(P, k - 1) # {},
              pairs |-> IF UpTo(P, k - 1) = {} THEN old ELSE PairUp(g[k - 1])]
      /\ d = [begun |-> UpTo(P, k) # {}, pairs |-> IF UpTo(P, k) = {} THEN old ELSE PairUp(g[k])]
  BY DEF PairsOver
<1>8. CASE ~ IsSetting(el)
  <2>1. c = d /\ ~ BadPair(el)
    <3> HIDE DEF P, g, el, c, d
    <3> QED BY <1>2, <1>3, <1>4, <1>7, <1>8 DEF BadPair
  <2>2. r = Fine(c)
    BY <1>8 DEF Unless
  <2> QED BY <2>1, <2>2
<1>9. CASE IsSetting(el) /\ el.kids[1].tag # "text"
  <2>1. r.err
    <3> HIDE DEF c, el
    <3> QED BY <1>9 DEF Unless, SetPair, Failed, Fine
  <2> QED BY <1>9, <2>1 DEF BadPair
<1>10. CASE IsSetting(el) /\ el.kids[1].tag = "text"
  <2>1. r = Fine([begun |-> TRUE, pairs |-> IF c.begun THEN Append(c.pairs, pair) ELSE <<pair>>])
    <3> HIDE DEF c, el
    <3> QED BY <1>10 DEF Unless, SetPair, Failed, Fine, pair
  <2>2. d = [begun |-> TRUE, pairs |-> PairUp(g[k])]
    BY <1>2, <1>3, <1>7, <1>10
  <2>3. PairUp(g[k]) = IF c.begun THEN Append(c.pairs, pair) ELSE <<pair>>
    <3>1. g[k] = Append(g[k - 1], el)
      BY <1>2, <1>4, <1>10
    <3>2. CASE UpTo(P, k - 1) = {}
      <4>1. g[k] = <<el>> /\ ~ c.begun
        <5> HIDE DEF P, g, el, c
        <5>1. ~ c.begun
          BY <1>7, <3>2
        <5>2. g[k] = Append(<<>>, el)
          BY <1>6, <3>1, <3>2
        <5>3. Append(<<>>, el) = <<el>>
          OBVIOUS
        <5> QED BY <5>1, <5>2, <5>3
      <4>2. PairUp(<<el>>) = <<pair>>
        <5> HIDE DEF el
        <5> QED BY <1>1, <1>5, PairUpLemma DEF pair
      <4> HIDE DEF P, g, el, c, pair
      <4> QED BY <4>1, <4>2
    <3>3. CASE UpTo(P, k - 1) # {}
      <4>1. c.begun /\ c.pairs = PairUp(g[k - 1])
        <5> HIDE DEF P, g, c
        <5> QED BY <1>7, <3>3
      <4>2. PairUp(Append(g[k - 1], el)) = Append(PairUp(g[k - 1]), pair)
        <5> HIDE DEF g, el
        <5> QED BY <1>1, <1>5, PairUpLemma DEF pair
      <4> HIDE DEF P, g, el, c, pair
      <4> QED BY <3>1, <4>1, <4>2
    <3> QED BY <3>2, <3>3
  <2>4. ~ BadPair(el)
    BY <1>10 DEF BadPair
  <2> HIDE DEF P, g, el, c, d, r, pair
  <2> QED BY <2>1, <2>2, <2>3, <2>4 DEF el, c, d, r
<1> QED BY <1>8, <1>9, <1>10

(* A list with a pair that is no text is refused; any other takes the place of the old one. *)
LEMMA PairsLemma ==
  ASSUME NEW old, NEW kids \in Seq(Elements)
  PROVE  LET r == Pairs(old, kids)
         IN  IF ArePairs(kids) THEN r = Fine(IF SettingsAt(kids) = {} THEN old ELSE PairsOf(kids))
             ELSE r.err
<1> DEFINE n == Len(kids)
           P == SettingsAt(kids)
           bad == {k \in 1..n : BadPair(kids[k])}
           C == [k \in 0..n |-> PairsOver(old, kids, k)]
           r == Pairs(old, kids)
<1>1. n \in Nat /\ DOMAIN kids = 1..n
  BY LenProperties
<1>2. bad = {} <=> ArePairs(kids)
  <2>1. ToSet(kids) = {kids[i] : i \in 1..n}
    BY LenProperties DEF ToSet
  <2> QED BY <2>1 DEF BadPair, ArePairs
<1>3. C[0] = [begun |-> FALSE, pairs |-> old]
  <2>1. UpTo(P, 0) = {}
    BY NoPlaces
  <2>2. PairsOver(old, kids, 0) = [begun |-> FALSE, pairs |-> old]
    BY <2>1 DEF PairsOver
  <2> QED BY <1>1, <2>2
<1>4. C[n].pairs = IF P = {} THEN old ELSE PairsOf(kids)
  <2>1. UpTo(P, n) = P
    BY <1>1, AllPlaces DEF SettingsAt
  <2>2. Chosen(kids, P) = Firsts(kids, P)[n]
    BY FirstsLemma
  <2>3. PairsOf(kids) = PairUp(Chosen(kids, P))
    BY DEF PairsOf, PairUp, SettingsAt
  <2>4. PairsOver(old, kids, n) = [begun |-> P # {}, pairs |-> IF P = {} THEN old ELSE PairsOf(kids)]
    <3> HIDE DEF P
    <3> QED BY <2>1, <2>2, <2>3 DEF PairsOver, P
  <2>5. C[n] = PairsOver(old, kids, n)
    BY <1>1
  <2> HIDE DEF C, P
  <2> QED BY <2>4, <2>5
<1>5. Steps("pairs", Null, kids, n, bad, C)
  <2>1. ASSUME NEW k \in 1..n
        PROVE  LET q == Does("pairs", Null, Fine(C[k - 1]), kids[k])
               IN  IF k \in bad THEN q.err ELSE q = Fine(C[k])
    <3>1. k \in 0..n /\ k - 1 \in 0..n /\ k \in 1..Len(kids)
      BY <1>1
    <3>2. C[k - 1] = PairsOver(old, kids, k - 1) /\ C[k] = PairsOver(old, kids, k)
      BY <3>1
    <3>3. k \in bad <=> BadPair(kids[k])
      OBVIOUS
    <3> HIDE DEF C, bad, n
    <3> DEFINE c == PairsOver(old, kids, k - 1)
               e == PairsOver(old, kids, k)
               el == kids[k]
    <3>4. LET q == Unless(Fine(c), el, SetPair(c, el))
          IN  (BadPair(el) => q.err) /\ (~ BadPair(el) => q = Fine(e))
      BY <3>1, PairStep
    <3> HIDE DEF c, e, el
    <3>5. Does("pairs", Null, Fine(c), el) = Unless(Fine(c), el, SetPair(c, el))
      BY DEF Does, Fine
    <3> QED BY <3>2, <3>3, <3>4, <3>5 DEF c, e, el
  <2>2. bad \subseteq 1..n
    OBVIOUS
  <2> HIDE DEF C, bad, n
  <2> QED BY <2>1, <2>2 DEF Steps
<1>6. PICK g : Course("pairs", Null, Begin(old), kids, n, g) /\ r = [conf |-> g[n].conf.pairs, err |-> g[n].err]
  BY PairsCourse
<1>7. Result(g[n], bad, C[n])
  <2> HIDE DEF C, bad, n
  <2>1. Course("pairs", Null, Fine(C[0]), kids, n, g)
    BY <1>3, <1>6 DEF Begin
  <2> QED BY <1>1, <1>5, <2>1, StepsLemma
<1>8. ASSUME ArePairs(kids) PROVE r = Fine(IF P = {} THEN old ELSE PairsOf(kids))
  <2>1. g[n] = Fine(C[n])
    <3> HIDE DEF C, bad, r
    <3> QED BY <1>2, <1>7, <1>8 DEF Result
  <2> HIDE DEF C, bad, r, P
  <2>2. g[n].conf = C[n] /\ g[n].err = FALSE
    BY <2>1 DEF Fine
  <2>3. g[n].conf.pairs = IF P = {} THEN old ELSE PairsOf(kids)
    BY <1>4, <2>2
  <2>4. r = [conf |-> g[n].conf.pairs, err |-> FALSE]
    BY <1>6, <2>2
  <2> QED BY <2>3, <2>4 DEF Fine
<1>9. ASSUME ~ ArePairs(kids) PROVE r.err
  <2>1. g[n].err
    <3> HIDE DEF C, bad, r
    <3> QED BY <1>2, <1>7, <1>9 DEF Result
  <2> HIDE DEF C, bad, r, P
  <2> QED BY <1>6, <2>1
<1> HIDE DEF r, P
<1> QED BY <1>8, <1>9 DEF r, P

-----------------------------------------------------------------------------
(* A pool section: what its parts are after the first k elements. *)
ListenOver(kids, k) ==
  IF UpTo(Given(kids, "listen_options"), k) = {} THEN Null
  ELSE Says(ListenOptions, kids[Max(UpTo(Given(kids, "listen_options"), k))].kids, NewListenOptions)

PmsOver(kids, k) ==
  IF UpTo(Given(kids, "pm"), k) = {} THEN Null
  ELSE SaysPm(kids[Max(UpTo(Given(kids, "pm"), k))].kids)

Lists(kids, l) == {i \in Given(kids, l) : SettingsAt(kids[i].kids) # {}}

ListOver(kids, l, k) ==
  IF UpTo(Lists(kids, l), k) = {} THEN <<>> ELSE PairsOf(kids[Max(UpTo(Lists(kids, l), k))].kids)

PoolOver(kids, k) ==
  [o \in DOMAIN NewPool |->
     CASE o = "listen_options" -> ListenOver(kids, k)
       [] o = "pm"             -> PmsOver(kids, k)
       [] o \in PairLists      -> ListOver(kids, o, k)
       [] OTHER                -> Latest(PoolOptions, kids, k, NewPool, o)]

BadPart(el) ==
  \/ el.name = "listen_options" /\ ~ IsGood(ListenOptions, el.kids)
  \/ el.name = "pm" /\ ~ IsGoodPm(el.kids)
  \/ el.name \in PairLists /\ ~ ArePairs(el.kids)

BadPool(el) == Bad(PoolOptions, el) \/ (IsSetting(el) /\ BadPart(el))

LEMMA ListenStep ==
  ASSUME NEW S, NEW kids \in Seq(S), NEW k \in 1..Len(kids)
  PROVE  ListenOver(kids, k) =
           IF IsSetting(kids[k]) /\ kids[k].name = "listen_options"
           THEN Says(ListenOptions, kids[k].kids, NewListenOptions) ELSE ListenOver(kids, k - 1)
<1> DEFINE P == Given(kids, "listen_options")
<1>1. /\ k \in P => UpTo(P, k) # {} /\ Max(UpTo(P, k)) = k
      /\ k \notin P => UpTo(P, k) = UpTo(P, k - 1)
      /\ k \in P <=> IsSetting(kids[k]) /\ kids[k].name = "listen_options"
  BY LatestLemma
<1> HIDE DEF P
<1> QED BY <1>1 DEF ListenOver, P

LEMMA PmsStep ==
  ASSUME NEW S, NEW kids \in Seq(S), NEW k \in 1..Len(kids)
  PROVE  PmsOver(kids, k) =
           IF IsSetting(kids[k]) /\ kids[k].name = "pm" THEN SaysPm(kids[k].kids)
           ELSE PmsOver(kids, k - 1)
<1> DEFINE P == Given(kids, "pm")
<1>1. /\ k \in P => UpTo(P, k) # {} /\ Max(UpTo(P, k)) = k
      /\ k \notin P => UpTo(P, k) = UpTo(P, k - 1)
      /\ k \in P <=> IsSetting(kids[k]) /\ kids[k].name = "pm"
  BY LatestLemma
<1> HIDE DEF P
<1> QED BY <1>1 DEF PmsOver, P

LEMMA ListStep ==
  ASSUME NEW S, NEW kids \in Seq(S), NEW k \in 1..Len(kids), NEW l
  PROVE  ListOver(kids, l, k) =
           IF IsSetting(kids[k]) /\ kids[k].name = l /\ SettingsAt(kids[k].kids) # {}
           THEN PairsOf(kids[k].kids) ELSE ListOver(kids, l, k - 1)
<1> DEFINE P == Lists(kids, l)
<1>1. /\ k \in P => UpTo(P, k) # {} /\ Max(UpTo(P, k)) = k
      /\ k \notin P => UpTo(P, k) = UpTo(P, k - 1)
  <2>1. k \in Nat \ {0}
    OBVIOUS
  <2> HIDE DEF P
  <2> QED BY <2>1, PlacesLemma
<1>2. k \in P <=> IsSetting(kids[k]) /\ kids[k].name = l /\ SettingsAt(kids[k].kids) # {}
  BY LatestLemma DEF Lists
<1> HIDE DEF P
<1> QED BY <1>1, <1>2 DEF ListOver, P

(* The parts of a pool are none of its scalar options. *)
LEMMA PoolOptionsLemma ==
  /\ DOMAIN NewPool = DOMAIN PoolOptions \cup {"listen_options", "pm"} \cup PairLists
  /\ \A o \in DOMAIN PoolOptions : o # "listen_options" /\ o # "pm" /\ o \notin PairLists
  /\ "listen_options" \notin PairLists /\ "pm" \notin PairLists
  /\ NewPool = [o \in DOMAIN NewPool |-> NewPool[o]]
<1>1. DOMAIN NewPool = DOMAIN PoolOptions \cup {"listen_options", "pm"} \cup PairLists
  BY DEF NewPool, Both, Unset
<1>2. {"listen_options", "pm", "php_defines", "environment"} \cap DOMAIN PoolOptions = {}
  BY DEF PoolOptions
<1>3. NewPool = [o \in DOMAIN NewPool |-> NewPool[o]]
  BY DEF NewPool, Both
<1> QED BY <1>1, <1>2, <1>3 DEF PairLists

LEMMA ListenSays ==
  ASSUME NEW S, NEW kids \in Seq(S)
  PROVE  LET r == Scalars(ListenOptions, NewListenOptions, kids)
         IN  IF IsGood(ListenOptions, kids)
             THEN r = Fine(Says(ListenOptions, kids, NewListenOptions)) ELSE r.err
<1> DEFINE N == NewListenOptions
<1>1. DOMAIN N = DOMAIN ListenOptions /\ N = [o \in DOMAIN N |-> N[o]]
  BY DEF NewListenOptions, Unset
<1> HIDE DEF N
<1>2. LET r == Scalars(ListenOptions, N, kids)
      IN  IF IsGood(ListenOptions, kids)
          THEN r = Fine([o \in DOMAIN N |-> IF o \in DOMAIN ListenOptions
                                            THEN Says(ListenOptions, kids, N)[o] ELSE N[o]])
          ELSE r.err
  BY <1>1, ScalarsLemma
<1>3. [o \in DOMAIN N |-> IF o \in DOMAIN ListenOptions THEN Says(ListenOptions, kids, N)[o] ELSE N[o]]
        = Says(ListenOptions, kids, N)
  BY <1>1 DEF Says
<1> QED BY <1>2, <1>3 DEF N

(* What a good element gives an option of its name. *)
Gives(o, el, was) ==
  CASE o = "listen_options" -> Says(ListenOptions, el.kids, NewListenOptions)
    [] o = "pm"             -> SaysPm(el.kids)
    [] o \in PairLists      -> IF SettingsAt(el.kids) = {} THEN was ELSE PairsOf(el.kids)
    [] OTHER                -> Value(PoolOptions[o], el.kids[1])

LEMMA PoolOverStep ==
  ASSUME NEW kids \in Seq(Elements), NEW k \in 1..Len(kids), NEW o \in DOMAIN NewPool
  PROVE  PoolOver(kids, k)[o] =
           IF IsSetting(kids[k]) /\ kids[k].name = o THEN Gives(o, kids[k], PoolOver(kids, k - 1)[o])
           ELSE PoolOver(kids, k - 1)[o]
<1> DEFINE el == kids[k]
           c == PoolOver(kids, k - 1)
           d == PoolOver(kids, k)
<1>1. CASE o = "listen_options"
  <2>1. d[o] = ListenOver(kids, k) /\ c[o] = ListenOver(kids, k - 1)
    BY <1>1, PoolOptionsLemma DEF PoolOver
  <2>2. Gives(o, el, c[o]) = Says(ListenOptions, el.kids, NewListenOptions)
    BY <1>1, PoolOptionsLemma DEF Gives
  <2> HIDE DEF c, d
  <2> QED BY <1>1, <2>1, <2>2, ListenStep DEF c, d
<1>2. CASE o = "pm"
  <2>1. d[o] = PmsOver(kids, k) /\ c[o] = PmsOver(kids, k - 1)
    BY <1>2, PoolOptionsLemma DEF PoolOver
  <2>2. Gives(o, el, c[o]) = SaysPm(el.kids)
    BY <1>2, PoolOptionsLemma DEF Gives
  <2> HIDE DEF c, d
  <2> QED BY <1>2, <2>1, <2>2, PmsStep DEF c, d
<1>3. CASE o \in PairLists
  <2>1. o # "listen_options" /\ o # "pm"
    BY <1>3, PoolOptionsLemma
  <2>2. d[o] = ListOver(kids, o, k) /\ c[o] = ListOver(kids, o, k - 1)
    BY <1>3, <2>1 DEF PoolOver
  <2>3. Gives(o, el, c[o]) = IF SettingsAt(el.kids) = {} THEN c[o] ELSE PairsOf(el.kids)
    BY <1>3, <2>1 DEF Gives
  <2>4. ListOver(kids, o, k) =
           IF IsSetting(kids[k]) /\ kids[k].name = o /\ SettingsAt(kids[k].kids) # {}
           THEN PairsOf(kids[k].kids) ELSE ListOver(kids, o, k - 1)
    BY ListStep
  <2> HIDE DEF c, d
  <2> QED BY <2>2, <2>3, <2>4 DEF c, d
<1>4. CASE o # "listen_options" /\ o # "pm" /\ o \notin PairLists
  <2>1. /\ d[o] = Latest(PoolOptions, kids, k, NewPool, o)
        /\ c[o] = Latest(PoolOptions, kids, k - 1, NewPool, o)
    BY <1>4 DEF PoolOver
  <2>2. Gives(o, el, c[o]) = Value(PoolOptions[o], el.kids[1])
    BY <1>4 DEF Gives
  <2> HIDE DEF c, d
  <2> QED BY <2>1, <2>2, LatestStep DEF c, d
<1> QED BY <1>1, <1>2, <1>3, <1>4

(* What one element of a pool section changes, or that it is refused. *)
LEMMA SetPoolIs ==
  ASSUME NEW c, NEW el \in Elements, IsSetting(el)
  PROVE  LET r == SetPool(c, el)
         IN  /\ BadPool(el) => r.err
             /\ ~ BadPool(el) =>
                  r = Fine(IF el.name \in DOMAIN NewPool
                           THEN [c EXCEPT ![el.name] = Gives(el.name, el, c[el.name])] ELSE c)
<1> DEFINE Into(q) == [conf |-> [c EXCEPT ![el.name] = q.conf], err |-> q.err]
           new == [c EXCEPT ![el.name] = Gives(el.name, el, c[el.name])]
           r == SetPool(c, el)
<1>1. el.kids \in Seq(Elements)
  BY ConfAssumption
<1>2. ASSUME NEW q, NEW w, q = Fine(w)
      PROVE  Into(q) = Fine([c EXCEPT ![el.name] = w])
  BY <1>2 DEF Fine
<1>3. ASSUME NEW q, q.err PROVE Into(q).err
  BY <1>3
<1>4. CASE el.name = "listen_options"
  <2> DEFINE q == Scalars(ListenOptions, NewListenOptions, el.kids)
             w == Says(ListenOptions, el.kids, NewListenOptions)
  <2>1. IF IsGood(ListenOptions, el.kids) THEN q = Fine(w) ELSE q.err
    BY <1>1, ListenSays
  <2>2. Gives(el.name, el, c[el.name]) = w
    BY <1>4, PoolOptionsLemma DEF Gives
  <2> HIDE DEF q, w
  <2>3. r = Into(q)
    BY <1>4, PoolOptionsLemma DEF SetPool, q
  <2>4. BadPool(el) <=> ~ IsGood(ListenOptions, el.kids)
    <3>1. el.name \notin DOMAIN PoolOptions /\ el.name # "pm" /\ el.name \notin PairLists
      BY <1>4, PoolOptionsLemma
    <3> QED BY <1>4, <3>1 DEF BadPool, BadPart, Bad
  <2>5. el.name \in DOMAIN NewPool
    BY <1>4, PoolOptionsLemma
  <2>6. ASSUME IsGood(ListenOptions, el.kids) PROVE r = Fine(new)
    <3>1. q = Fine(w)
      BY <2>1, <2>6
    <3> HIDE DEF Into
    <3>2. Into(q) = Fine([c EXCEPT ![el.name] = w])
      BY <1>2, <3>1
    <3> QED BY <2>2, <2>3, <3>2
  <2>7. ASSUME ~ IsGood(ListenOptions, el.kids) PROVE r.err
    <3> HIDE DEF Into
    <3> QED BY <1>3, <2>1, <2>3, <2>7
  <2> QED BY <2>4, <2>5, <2>6, <2>7
<1>5. CASE el.name = "pm"
  <2> DEFINE q == Pm(NewPm, el.kids)
             w == SaysPm(el.kids)
  <2>1. IF IsGoodPm(el.kids) THEN q = Fine(w) ELSE q.err
    BY <1>1, PmLemma
  <2>2. Gives(el.name, el, c[el.name]) = w
    BY <1>5, PoolOptionsLemma DEF Gives
  <2> HIDE DEF q, w
  <2>3. r = Into(q)
    BY <1>5, PoolOptionsLemma DEF SetPool, q
  <2>4. BadPool(el) <=> ~ IsGoodPm(el.kids)
    <3>1. el.name \notin DOMAIN PoolOptions /\ el.name # "listen_options" /\ el.name \notin PairLists
      BY <1>5, PoolOptionsLemma
    <3> QED BY <1>5, <3>1 DEF BadPool, BadPart, Bad
  <2>5. el.name \in DOMAIN NewPool
    BY <1>5, PoolOptionsLemma
  <2>6. ASSUME IsGoodPm(el.kids) PROVE r = Fine(new)
    <3>1. q = Fine(w)
      BY <2>1, <2>6
    <3> HIDE DEF Into
    <3>2. Into(q) = Fine([c EXCEPT ![el.name] = w])
      BY <1>2, <3>1
    <3> QED BY <2>2, <2>3, <3>2
  <2>7. ASSUME ~ IsGoodPm(el.kids) PROVE r.err
    <3> HIDE DEF Into
    <3> QED BY <1>3, <2>1, <2>3, <2>7
  <2> QED BY <2>4, <2>5, <2>6, <2>7
<1>6. CASE el.name \in PairLists
  <2> DEFINE q == Pairs(c[el.name], el.kids)
             w == IF SettingsAt(el.kids) = {} THEN c[el.name] ELSE PairsOf(el.kids)
  <2>1. IF ArePairs(el.kids) THEN q = Fine(w) ELSE q.err
    BY <1>1, PairsLemma
  <2>0. el.name \notin DOMAIN PoolOptions /\ el.name # "listen_options" /\ el.name # "pm"
    BY <1>6, PoolOptionsLemma
  <2>2. Gives(el.name, el, c[el.name]) = w
    BY <1>6, <2>0 DEF Gives
  <2> HIDE DEF q, w
  <2>3. r = Into(q)
    BY <1>6, <2>0 DEF SetPool, q
  <2>4. BadPool(el) <=> ~ ArePairs(el.kids)
    BY <1>6, <2>0 DEF BadPool, BadPart, Bad
  <2>5. el.name \in DOMAIN NewPool
    BY <1>6, PoolOptionsLemma
  <2>6. ASSUME ArePairs(el.kids) PROVE r = Fine(new)
    <3>1. q = Fine(w)
      BY <2>1, <2>6
    <3> HIDE DEF Into
    <3>2. Into(q) = Fine([c EXCEPT ![el.name] = w])
      BY <1>2, <3>1
    <3> QED BY <2>2, <2>3, <3>2
  <2>7. ASSUME ~ ArePairs(el.kids) PROVE r.err
    <3> HIDE DEF Into
    <3> QED BY <1>3, <2>1, <2>3, <2>7
  <2> QED BY <2>4, <2>5, <2>6, <2>7
<1>7. CASE el.name # "listen_options" /\ el.name # "pm" /\ el.name \notin PairLists
  <2>1. r = Scalar(PoolOptions, c, el)
    BY <1>7 DEF SetPool
  <2>2. BadPool(el) <=> Bad(PoolOptions, el)
    BY <1>7 DEF BadPool, BadPart, Bad
  <2>3. el.name \in DOMAIN PoolOptions <=> el.name \in DOMAIN NewPool
    BY <1>7, PoolOptionsLemma
  <2>4. Gives(el.name, el, c[el.name]) = Value(PoolOptions[el.name], el.kids[1])
    BY <1>7 DEF Gives
  <2>5. Bad(PoolOptions, el) => Scalar(PoolOptions, c, el).err
    BY ScalarIs
  <2>6. ~ Bad(PoolOptions, el) =>
          Scalar(PoolOptions, c, el) =
            Fine(IF el.name \in DOMAIN PoolOptions
                 THEN [c EXCEPT ![el.name] = Value(PoolOptions[el.name], el.kids[1])] ELSE c)
    BY ScalarIs
  <2> QED BY <2>1, <2>2, <2>3, <2>4, <2>5, <2>6
<1> QED BY <1>4, <1>5, <1>6, <1>7

(* One more element of a pool section. *)
LEMMA PoolStep ==
  ASSUME NEW kids \in Seq(Elements), NEW k \in 1..Len(kids)
  PROVE  LET r == Unless(Fine(PoolOver(kids, k - 1)), kids[k], SetPool(PoolOver(kids, k - 1), kids[k]))
         IN  /\ BadPool(kids[k]) => r.err
             /\ ~ BadPool(kids[k]) => r = Fine(PoolOver(kids, k))
<1> DEFINE el == kids[k]
           c == PoolOver(kids, k - 1)
           d == PoolOver(kids, k)
           r == Unless(Fine(c), el, SetPool(c, el))
           new == [c EXCEPT ![el.name] = Gives(el.name, el, c[el.name])]
<1>1. el \in Elements
  BY ElementOfSeq
<1>2. /\ c = [o \in DOMAIN NewPool |-> c[o]] /\ d = [o \in DOMAIN NewPool |-> d[o]]
      /\ DOMAIN c = DOMAIN NewPool
  BY DEF PoolOver
<1>3. \A o \in DOMAIN NewPool :
        d[o] = IF IsSetting(el) /\ el.name = o THEN Gives(o, el, c[o]) ELSE c[o]
  BY PoolOverStep
<1> HIDE DEF c, d, el
<1>4. CASE ~ IsSetting(el)
  <2>1. d = c
    BY <1>2, <1>3, <1>4
  <2>2. r = Fine(c)
    BY <1>4 DEF Unless
  <2>3. ~ BadPool(el)
    BY <1>4 DEF BadPool, Bad
  <2> QED BY <2>1, <2>2, <2>3 DEF c, d, el
<1>5. CASE IsSetting(el)
  <2>1. d = IF el.name \in DOMAIN NewPool THEN new ELSE c
    <3>1. CASE el.name \in DOMAIN NewPool
      <4>1. new = [o \in DOMAIN NewPool |-> IF o = el.name THEN Gives(o, el, c[o]) ELSE c[o]]
        BY <1>2, <3>1
      <4> QED BY <1>2, <1>3, <1>5, <3>1, <4>1
    <3>2. CASE el.name \notin DOMAIN NewPool
      BY <1>2, <1>3, <3>2
    <3> QED BY <3>1, <3>2
  <2>2. r = SetPool(c, el)
    BY <1>5 DEF Unless, Fine
  <2>3. BadPool(el) => SetPool(c, el).err
    BY <1>1, <1>5, SetPoolIs
  <2>4. ~ BadPool(el) => SetPool(c, el) = Fine(IF el.name \in DOMAIN NewPool THEN new ELSE c)
    BY <1>1, <1>5, SetPoolIs
  <2> HIDE DEF r, new
  <2> QED BY <2>1, <2>2, <2>3, <2>4 DEF c, d, el, r
<1> QED BY <1>4, <1>5

LEMMA PoolStart ==
  ASSUME NEW S, NEW kids \in Seq(S)
  PROVE  PoolOver(kids, 0) = NewPool
<1>1. \A P : UpTo(P, 0) = {}
  BY NoPlaces
<1>2. /\ NewPool["listen_options"] = Null /\ NewPool["pm"] = Null
      /\ \A l \in PairLists : NewPool[l] = <<>>
  <2> DEFINE R == [listen_options |-> Null, pm |-> Null]
             L == [l \in PairLists |-> <<>>]
             B == Both(R, L)
             U == Unset(PoolOptions)
  <2>1. DOMAIN R = {"listen_options", "pm"} /\ R["listen_options"] = Null /\ R["pm"] = Null
    OBVIOUS
  <2>2. DOMAIN L = PairLists /\ \A l \in PairLists : L[l] = <<>>
    OBVIOUS
  <2>3. DOMAIN U = DOMAIN PoolOptions
    BY DEF Unset
  <2>4. NewPool = Both(U, B)
    BY DEF NewPool
  <2> HIDE DEF R, L, U
  <2>5. B = [o \in DOMAIN R \cup DOMAIN L |-> IF o \in DOMAIN R THEN R[o] ELSE L[o]]
    BY DEF Both
  <2> HIDE DEF B
  <2>6. NewPool = [o \in DOMAIN U \cup DOMAIN B |-> IF o \in DOMAIN U THEN U[o] ELSE B[o]]
    BY <2>4 DEF Both
  <2>7. /\ B["listen_options"] = Null /\ B["pm"] = Null /\ \A l \in PairLists : B[l] = <<>>
        /\ DOMAIN B = {"listen_options", "pm"} \cup PairLists
    BY <2>1, <2>2, <2>5, PoolOptionsLemma
  <2> QED BY <2>3, <2>6, <2>7, PoolOptionsLemma
<1>3. ASSUME NEW o \in DOMAIN NewPool PROVE PoolOver(kids, 0)[o] = NewPool[o]
  <2>1. CASE o = "listen_options"
    <3>1. PoolOver(kids, 0)[o] = ListenOver(kids, 0)
      BY <2>1, PoolOptionsLemma DEF PoolOver
    <3> QED BY <1>1, <1>2, <2>1, <3>1 DEF ListenOver
  <2>2. CASE o = "pm"
    <3>1. PoolOver(kids, 0)[o] = PmsOver(kids, 0)
      BY <2>2, PoolOptionsLemma DEF PoolOver
    <3> QED BY <1>1, <1>2, <2>2, <3>1 DEF PmsOver
  <2>3. CASE o \in PairLists
    <3>1. PoolOver(kids, 0)[o] = ListOver(kids, o, 0)
      BY <2>3, PoolOptionsLemma DEF PoolOver
    <3> QED BY <1>1, <1>2, <2>3, <3>1 DEF ListOver
  <2>4. CASE o # "listen_options" /\ o # "pm" /\ o \notin PairLists
    <3>1. PoolOver(kids, 0)[o] = Latest(PoolOptions, kids, 0, NewPool, o)
      BY <2>4 DEF PoolOver
    <3> QED BY <3>1, LatestEnds
  <2> QED BY <2>1, <2>2, <2>3, <2>4
<1>4. PoolOver(kids, 0) = [o \in DOMAIN NewPool |-> PoolOver(kids, 0)[o]]
  BY DEF PoolOver
<1> QED BY <1>3, <1>4, PoolOptionsLemma

LEMMA PoolEnd ==
  ASSUME NEW S, NEW kids \in Seq(S)
  PROVE  PoolOver(kids, Len(kids)) = SaysPool(kids)
<1> DEFINE n == Len(kids)
           d == PoolOver(kids, n)
           s == SaysPool(kids)
           U == Says(PoolOptions, kids, NewPool)
           ls == Given(kids, "listen_options")
           ps == Given(kids, "pm")
           lo == IF ls = {} THEN Null ELSE Says(ListenOptions, kids[Max(ls)].kids, NewListenOptions)
           pm == IF ps = {} THEN Null ELSE SaysPm(kids[Max(ps)].kids)
           R == [listen_options |-> lo, pm |-> pm]
           L == [l \in PairLists |-> SaysPairs(kids, l)]
           B == Both(R, L)
<1>1. /\ s = [o \in DOMAIN PoolOptions \cup {"listen_options", "pm"} \cup PairLists |-> s[o]]
      /\ \A o \in DOMAIN PoolOptions : s[o] = Says(PoolOptions, kids, NewPool)[o]
      /\ s["listen_options"] = lo /\ s["pm"] = pm
      /\ \A l \in PairLists : s[l] = SaysPairs(kids, l)
  <2>1. DOMAIN R = {"listen_options", "pm"} /\ R["listen_options"] = lo /\ R["pm"] = pm
    <3> HIDE DEF lo, pm
    <3> QED OBVIOUS
  <2>2. DOMAIN L = PairLists /\ \A l \in PairLists : L[l] = SaysPairs(kids, l)
    OBVIOUS
  <2>3. DOMAIN U = DOMAIN PoolOptions
    BY DEF Says
  <2>4. s = Both(U, B)
    BY Zenon DEF SaysPool
  <2> HIDE DEF R, L, U, s, lo, pm
  <2>5. B = [o \in DOMAIN R \cup DOMAIN L |-> IF o \in DOMAIN R THEN R[o] ELSE L[o]]
    BY DEF Both
  <2> HIDE DEF B
  <2>6. s = [o \in DOMAIN U \cup DOMAIN B |-> IF o \in DOMAIN U THEN U[o] ELSE B[o]]
    BY <2>4 DEF Both
  <2>7. /\ B["listen_options"] = lo /\ B["pm"] = pm /\ \A l \in PairLists : B[l] = SaysPairs(kids, l)
        /\ DOMAIN B = {"listen_options", "pm"} \cup PairLists
    BY <2>1, <2>2, <2>5, PoolOptionsLemma
  <2>8. DOMAIN s = DOMAIN PoolOptions \cup {"listen_options", "pm"} \cup PairLists
    BY <2>3, <2>6, <2>7
  <2>9. s = [o \in DOMAIN s |-> s[o]]
    BY <2>6
  <2>10. /\ \A o \in DOMAIN PoolOptions : s[o] = U[o]
         /\ s["listen_options"] = lo /\ s["pm"] = pm
         /\ \A l \in PairLists : s[l] = SaysPairs(kids, l)
    BY <2>3, <2>6, <2>7, PoolOptionsLemma
  <2> QED BY <2>8, <2>9, <2>10 DEF U
<1>2. UpTo(ls, n) = ls /\ UpTo(ps, n) = ps
  BY GivenEnds
<1>3. ASSUME NEW l \in PairLists PROVE ListOver(kids, l, n) = SaysPairs(kids, l)
  <2>1. \A i : SettingsAt(kids[i].kids) # {} <=> \E k \in ToSet(kids[i].kids) : IsSetting(k)
    BY DEF SettingsAt, ToSet
  <2>2. Lists(kids, l) = {i \in Given(kids, l) : \E k \in ToSet(kids[i].kids) : IsSetting(k)}
    BY <2>1 DEF Lists
  <2>3. UpTo(Lists(kids, l), n) = Lists(kids, l)
    <3>1. Lists(kids, l) \subseteq 1..n
      BY GivenLemma DEF Lists
    <3> QED BY <3>1, AllPlaces
  <2>4. SaysPairs(kids, l) =
          IF Lists(kids, l) = {} THEN <<>> ELSE PairsOf(kids[Max(Lists(kids, l))].kids)
    BY <2>2, Zenon DEF SaysPairs
  <2> QED BY <2>3, <2>4 DEF ListOver
<1> HIDE DEF s, ls, ps
<1>4. ASSUME NEW o \in DOMAIN NewPool PROVE d[o] = s[o]
  <2>1. CASE o = "listen_options"
    <3>1. d[o] = ListenOver(kids, n)
      BY <2>1, PoolOptionsLemma DEF PoolOver
    <3> QED BY <1>1, <1>2, <2>1, <3>1 DEF ListenOver, ls
  <2>2. CASE o = "pm"
    <3>1. d[o] = PmsOver(kids, n)
      BY <2>2, PoolOptionsLemma DEF PoolOver
    <3> QED BY <1>1, <1>2, <2>2, <3>1 DEF PmsOver, ps
  <2>3. CASE o \in PairLists
    <3>1. d[o] = ListOver(kids, o, n)
      BY <2>3, PoolOptionsLemma DEF PoolOver
    <3> QED BY <1>1, <1>3, <2>3, <3>1
  <2>4. CASE o # "listen_options" /\ o # "pm" /\ o \notin PairLists
    <3>1. d[o] = Latest(PoolOptions, kids, n, NewPool, o)
      BY <2>4 DEF PoolOver
    <3>2. o \in DOMAIN PoolOptions
      BY <2>4, PoolOptionsLemma
    <3> QED BY <1>1, <3>1, <3>2, LatestEnds
  <2> QED BY <2>1, <2>2, <2>3, <2>4
<1>5. d = [o \in DOMAIN NewPool |-> d[o]]
  BY DEF PoolOver
<1> HIDE DEF d
<1>6. d = s
  BY <1>1, <1>4, <1>5, PoolOptionsLemma
<1> QED BY <1>6 DEF d, s

(* A pool section is refused if a value in it is, and otherwise says what SaysPool says. *)
LEMMA PoolLemma ==
  ASSUME NEW kids \in Seq(Elements)
  PROVE  LET r == PoolSection(kids)
         IN  IF IsGoodPool(kids) THEN r = Fine(SaysPool(kids)) ELSE r.err
<1> DEFINE n == Len(kids)
           bad == {k \in 1..n : BadPool(kids[k])}
           C == [k \in 0..n |-> PoolOver(kids, k)]
           r == PoolSection(kids)
<1>1. n \in Nat
  BY GivenLemma
<1>2. bad = {} <=> IsGoodPool(kids)
  <2>1. ToSet(kids) = {kids[i] : i \in 1..n}
    BY LenProperties DEF ToSet
  <2>2. IsGood(PoolOptions, kids) <=> \A i \in 1..n : ~ Bad(PoolOptions, kids[i])
    BY <2>1 DEF Bad, IsGood
  <2>3. \A o, i : i \in Given(kids, o) <=> i \in 1..n /\ IsSetting(kids[i]) /\ kids[i].name = o
    BY GivenLemma
  <2> DEFINE Odd(i) == IsSetting(kids[i]) /\ BadPart(kids[i])
             A == \A i \in Given(kids, "listen_options") : IsGood(ListenOptions, kids[i].kids)
             B == \A i \in Given(kids, "pm") : IsGoodPm(kids[i].kids)
             D == \A l \in PairLists : \A i \in Given(kids, l) : ArePairs(kids[i].kids)
  <2>4. IsGoodPool(kids) <=> IsGood(PoolOptions, kids) /\ A /\ B /\ D
    BY DEF IsGoodPool
  <2>5. A /\ B /\ D <=> \A i \in 1..n : ~ Odd(i)
    <3> HIDE DEF n
    <3> QED BY <2>3 DEF BadPart
  <2>6. \A i : BadPool(kids[i]) <=> Bad(PoolOptions, kids[i]) \/ Odd(i)
    BY DEF BadPool
  <2>7. bad = {} <=> \A i \in 1..n : ~ BadPool(kids[i])
    OBVIOUS
  <2> HIDE DEF A, B, D, n, Odd, bad
  <2> QED BY <2>2, <2>4, <2>5, <2>6, <2>7
<1>3. C[0] = NewPool /\ C[n] = SaysPool(kids)
  BY <1>1, PoolStart, PoolEnd
<1>4. Steps("pool", Null, kids, n, bad, C)
  <2>1. ASSUME NEW k \in 1..n
        PROVE  LET q == Does("pool", Null, Fine(C[k - 1]), kids[k])
               IN  IF k \in bad THEN q.err ELSE q = Fine(C[k])
    <3>1. k \in 0..n /\ k - 1 \in 0..n /\ k \in 1..Len(kids)
      BY <1>1
    <3>2. C[k - 1] = PoolOver(kids, k - 1) /\ C[k] = PoolOver(kids, k)
      BY <3>1
    <3>3. k \in bad <=> BadPool(kids[k])
      OBVIOUS
    <3> HIDE DEF C, bad, n
    <3> DEFINE c == PoolOver(kids, k - 1)
               e == PoolOver(kids, k)
               el == kids[k]
    <3>4. LET q == Unless(Fine(c), el, SetPool(c, el))
          IN  (BadPool(el) => q.err) /\ (~ BadPool(el) => q = Fine(e))
      BY <3>1, PoolStep
    <3> HIDE DEF c, e, el
    <3>5. Does("pool", Null, Fine(c), el) = Unless(Fine(c), el, SetPool(c, el))
      BY DEF Does, Fine
    <3> QED BY <3>2, <3>3, <3>4, <3>5 DEF c, e, el
  <2>2. bad \subseteq 1..n
    OBVIOUS
  <2> HIDE DEF C, bad, n
  <2> QED BY <2>1, <2>2 DEF Steps
<1>5. PICK g : Course("pool", Null, Fine(NewPool), kids, n, g) /\ r = g[n]
  BY PoolCourse
<1>6. Result(g[n], bad, C[n])
  <2> HIDE DEF C, bad, n
  <2>1. Course("pool", Null, Fine(C[0]), kids, n, g)
    BY <1>3, <1>5
  <2> QED BY <1>1, <1>4, <2>1, StepsLemma
<1> HIDE DEF C, bad, r
<1> QED BY <1>2, <1>3, <1>5, <1>6 DEF Result, r

-----------------------------------------------------------------------------
(* Where the way through the file is: below the j-th element of the i-th one of
   the configuration, with d elements ahead that are deeper than any section. *)
AnySteps == {Step(kids, i) : kids \in Seq(Elements), i \in Nat}

AnyVisits == [el : Elements, parent : Seq(AnySteps), own : Seq(AnySteps)]

IsVisit(v) == v \in AnyVisits /\ Len(v.own) = Len(v.parent) + 1

IsDeep(v) == IsVisit(v) /\ Len(v.parent) >= 3

Outer(cs) == Visits(cs, GlobalPath)

Inside(cs, i) == Visits(cs[i].kids, Outer(cs)[i].own)

Within(cs, i) == IF i = 0 THEN 0 ELSE Len(cs[i].kids)

At(cs, t, d, i, j) ==
  /\ d \in Nat /\ i \in 0..Len(cs) /\ j \in 0..Within(cs, i)
  /\ t \in Seq(AnyVisits)
  /\ Len(t) = d + (Within(cs, i) - j) + (Len(cs) - i)
  /\ \A x \in 1..d : IsDeep(t[x])
  /\ \A x \in 1..Within(cs, i) - j : t[d + x] = Inside(cs, i)[j + x]
  /\ \A x \in 1..Len(cs) - i : t[d + (Within(cs, i) - j) + x] = Outer(cs)[i + x]

(* An element, then its children, then what follows it. *)
BehindOf(t) == Visits(Head(t).el.kids, Head(t).own) \o Tail(t)

(* What is gone through of the children of one element. *)
LEMMA VisitsLemma ==
  ASSUME NEW kids \in Seq(Elements), NEW way \in Seq(AnySteps)
  PROVE  LET v == Visits(kids, way)
         IN  /\ v \in Seq(AnyVisits) /\ Len(v) = Len(kids)
             /\ \A i \in 1..Len(kids) :
                  /\ IsVisit(v[i]) /\ v[i].el = kids[i] /\ v[i].parent = way
                  /\ v[i].own = Append(way, Step(kids, i))
<1> DEFINE v == Visits(kids, way)
           n == Len(kids)
<1>1. n \in Nat /\ DOMAIN kids = 1..n
  BY LenProperties
<1>2. ASSUME NEW i \in 1..n
      PROVE  /\ v[i] = [el |-> kids[i], parent |-> way, own |-> Append(way, Step(kids, i))]
             /\ IsVisit(v[i]) /\ v[i] \in AnyVisits
             /\ v[i].el = kids[i] /\ v[i].parent = way /\ v[i].own = Append(way, Step(kids, i))
  <2> DEFINE s == Step(kids, i)
  <2>1. v[i] = [el |-> kids[i], parent |-> way, own |-> Append(way, s)]
    BY <1>1 DEF Visits
  <2>2. s \in AnySteps
    BY <1>1 DEF AnySteps
  <2>3. kids[i] \in Elements
    BY ElementOfSeq
  <2> HIDE DEF s, v, n
  <2>4. Append(way, s) \in Seq(AnySteps) /\ Len(Append(way, s)) = Len(way) + 1
    BY <2>2, AppendProperties
  <2>5. v[i] \in AnyVisits
    BY <2>1, <2>3, <2>4 DEF AnyVisits
  <2> QED BY <2>1, <2>4, <2>5 DEF IsVisit, s
<1>3. v = [i \in 1..n |-> v[i]]
  BY <1>1 DEF Visits
<1>4. v \in Seq(AnyVisits) /\ Len(v) = n
  <2> HIDE DEF v, n
  <2> QED BY <1>1, <1>2, <1>3
<1> QED BY <1>2, <1>4

(* What is left to go through after an element. *)
LEMMA BehindLemma ==
  ASSUME NEW t \in Seq(AnyVisits), t # <<>>
  PROVE  LET n == Len(Head(t).el.kids)
         IN  /\ Head(t) = t[1] /\ Head(t) \in AnyVisits /\ n \in Nat /\ Len(t) \in Nat \ {0}
             /\ BehindOf(t) \in Seq(AnyVisits) /\ Len(BehindOf(t)) = n + Len(t) - 1
             /\ \A x \in 1..n :
                  /\ BehindOf(t)[x] = Visits(Head(t).el.kids, Head(t).own)[x]
                  /\ IsVisit(BehindOf(t)[x]) /\ BehindOf(t)[x].parent = Head(t).own
             /\ \A x \in 1..Len(t) - 1 : BehindOf(t)[n + x] = t[x + 1]
<1> DEFINE h == Head(t)
           n == Len(h.el.kids)
           v == Visits(h.el.kids, h.own)
           r == Tail(t)
           u == BehindOf(t)
<1>1. /\ h \in AnyVisits /\ r \in Seq(AnyVisits) /\ Len(r) = Len(t) - 1
      /\ \A x \in 1..Len(r) : r[x] = t[x + 1]
  BY HeadTailProperties
<1>2. h = t[1] /\ Len(t) \in Nat \ {0}
  BY EmptySeq
<1> HIDE DEF h, r
<1>3. h.el.kids \in Seq(Elements) /\ h.own \in Seq(AnySteps)
  BY <1>1, ConfAssumption DEF AnyVisits
<1>4. /\ v \in Seq(AnyVisits) /\ Len(v) = n
      /\ \A x \in 1..n : IsVisit(v[x]) /\ v[x].parent = h.own
  BY <1>3, VisitsLemma
<1>5. n \in Nat
  BY <1>3, LenProperties
<1> HIDE DEF v, n
<1>6. /\ u \in Seq(AnyVisits) /\ Len(u) = Len(v) + Len(r)
      /\ \A x \in 1..Len(v) + Len(r) : u[x] = IF x <= Len(v) THEN v[x] ELSE r[x - Len(v)]
  <2>1. u = v \o r
    BY DEF BehindOf, v, r, h
  <2> HIDE DEF u
  <2> QED BY <1>1, <1>4, <2>1, ConcatProperties
<1> HIDE DEF u
<1>7. ASSUME NEW x \in 1..n PROVE u[x] = v[x]
  BY <1>1, <1>2, <1>4, <1>5, <1>6
<1>8. ASSUME NEW x \in 1..Len(t) - 1 PROVE u[n + x] = t[x + 1]
  <2>1. /\ n + x \in 1..Len(v) + Len(r) /\ ~ (n + x <= Len(v))
        /\ (n + x) - Len(v) = x /\ x \in 1..Len(r)
    BY <1>1, <1>2, <1>4, <1>5
  <2>2. u[n + x] = r[(n + x) - Len(v)]
    BY <1>6, <2>1
  <2> QED BY <1>1, <2>1, <2>2
<1>9. Len(u) = n + Len(t) - 1
  BY <1>1, <1>2, <1>4, <1>5, <1>6
<1> QED BY <1>1, <1>2, <1>4, <1>5, <1>6, <1>7, <1>8, <1>9 DEF h, n, v, u

(* The depth of an element is the length of its path. *)
LEMMA OuterLemma ==
  ASSUME NEW cs \in Seq(Elements), GlobalPath \in Seq(AnySteps)
  PROVE  /\ Len(cs) \in Nat /\ Len(Outer(cs)) = Len(cs) /\ Outer(cs) \in Seq(AnyVisits)
         /\ \A i \in 1..Len(cs) :
              LET v == Outer(cs)[i]
              IN  /\ IsVisit(v) /\ v.el = cs[i] /\ v.parent = GlobalPath /\ Len(v.own) = 2
                  /\ v.own = Append(GlobalPath, Step(cs, i))
                  /\ cs[i].kids \in Seq(Elements) /\ Within(cs, i) \in Nat
                  /\ Within(cs, i) = Len(cs[i].kids)
                  /\ \A x \in 1..Within(cs, i) :
                       LET w == Inside(cs, i)[x]
                       IN  /\ IsVisit(w) /\ w.el = cs[i].kids[x] /\ w.parent = v.own
                           /\ Len(w.own) = 3
<1>1. /\ Len(cs) \in Nat /\ Len(Outer(cs)) = Len(cs) /\ Outer(cs) \in Seq(AnyVisits)
      /\ \A i \in 1..Len(cs) :
           /\ IsVisit(Outer(cs)[i]) /\ Outer(cs)[i].el = cs[i] /\ Outer(cs)[i].parent = GlobalPath
           /\ Outer(cs)[i].own = Append(GlobalPath, Step(cs, i))
  BY VisitsLemma, LenProperties DEF Outer
<1>2. ASSUME NEW i \in 1..Len(cs)
      PROVE  LET v == Outer(cs)[i]
             IN  /\ IsVisit(v) /\ v.el = cs[i] /\ v.parent = GlobalPath /\ Len(v.own) = 2
                 /\ v.own = Append(GlobalPath, Step(cs, i))
                 /\ cs[i].kids \in Seq(Elements) /\ Within(cs, i) \in Nat
                 /\ Within(cs, i) = Len(cs[i].kids)
                 /\ \A x \in 1..Within(cs, i) :
                      LET w == Inside(cs, i)[x]
                      IN  /\ IsVisit(w) /\ w.el = cs[i].kids[x] /\ w.parent = v.own
                          /\ Len(w.own) = 3
  <2> DEFINE v == Outer(cs)[i]
             kids == cs[i].kids
  <2>1. IsVisit(v) /\ v.el = cs[i] /\ v.parent = GlobalPath /\ v.own = Append(GlobalPath, Step(cs, i))
    BY <1>1
  <2>2. kids \in Seq(Elements)
    <3>1. cs[i] \in Elements
      BY ElementOfSeq
    <3> QED BY <3>1, ConfAssumption
  <2>3. Len(GlobalPath) = 1
    BY DEF GlobalPath
  <2> HIDE DEF v
  <2>4. Len(v.own) = 2 /\ v.own \in Seq(AnySteps)
    BY <2>1, <2>3 DEF IsVisit, AnyVisits
  <2>5. Within(cs, i) = Len(kids) /\ Len(kids) \in Nat
    BY <1>1, <2>2, LenProperties DEF Within
  <2>6. Inside(cs, i) = Visits(kids, v.own)
    BY DEF Inside, v
  <2> HIDE DEF kids
  <2>7. ASSUME NEW x \in 1..Len(kids)
        PROVE  /\ IsVisit(Inside(cs, i)[x]) /\ Inside(cs, i)[x].el = kids[x]
               /\ Inside(cs, i)[x].parent = v.own /\ Len(Inside(cs, i)[x].own) = 3
    <3>1. /\ IsVisit(Inside(cs, i)[x]) /\ Inside(cs, i)[x].el = kids[x]
          /\ Inside(cs, i)[x].parent = v.own
      BY <2>2, <2>4, <2>6, VisitsLemma
    <3> DEFINE w == Inside(cs, i)[x]
    <3> HIDE DEF w
    <3>2. Len(w.own) = Len(w.parent) + 1 /\ w.parent = v.own
      BY <3>1 DEF IsVisit, w
    <3>3. Len(w.own) = 3
      <4>1. Len(w.parent) = 2
        BY <2>4, <3>2
      <4> QED BY ONLY <3>2, <4>1
    <3> QED BY <3>1, <3>3 DEF w
  <2>8. \A x \in 1..Within(cs, i) :
          /\ IsVisit(Inside(cs, i)[x]) /\ Inside(cs, i)[x].el = kids[x]
          /\ Inside(cs, i)[x].parent = v.own /\ Len(Inside(cs, i)[x].own) = 3
    BY <2>5, <2>7
  <2>9. Within(cs, i) \in Nat
    BY <2>5
  <2> QED BY <2>1, <2>2, <2>4, <2>5, <2>8, <2>9 DEF v, kids
<1> QED BY <1>1, <1>2

(* Where the way goes: deeper, to the next element inside the i-th, or to the
   next of the configuration. *)
LEMMA DeeperLemma ==
  ASSUME NEW cs \in Seq(Elements), GlobalPath \in Seq(AnySteps), NEW t, NEW d, NEW i, NEW j,
         At(cs, t, d, i, j), d # 0
  PROVE  /\ t # <<>> /\ IsDeep(Head(t))
         /\ \E e : At(cs, BehindOf(t), e, i, j)
<1> DEFINE n == Len(Head(t).el.kids)
           u == BehindOf(t)
           m == Within(cs, i)
           l == Len(cs)
<1>1. /\ d \in Nat \ {0} /\ i \in 0..l /\ j \in 0..m /\ t \in Seq(AnyVisits)
      /\ Len(t) = d + (m - j) + (l - i)
      /\ \A x \in 1..d : IsDeep(t[x])
      /\ \A x \in 1..m - j : t[d + x] = Inside(cs, i)[j + x]
      /\ \A x \in 1..l - i : t[d + (m - j) + x] = Outer(cs)[i + x]
  BY DEF At
<1>2. l \in Nat /\ m \in Nat
  BY <1>1, OuterLemma DEF Within
<1> HIDE DEF m, l
<1>3. Len(t) \in Nat \ {0} /\ t # <<>>
  <2>1. Len(t) \in Nat \ {0}
    BY <1>1, <1>2
  <2> QED BY <2>1, EmptySeq
<1>4. /\ Head(t) = t[1] /\ n \in Nat
      /\ u \in Seq(AnyVisits) /\ Len(u) = n + Len(t) - 1
      /\ \A x \in 1..n : IsVisit(u[x]) /\ u[x].parent = Head(t).own
      /\ \A x \in 1..Len(t) - 1 : u[n + x] = t[x + 1]
  BY <1>1, <1>3, BehindLemma
<1>5. PICK a \in Nat, b \in Nat : a = m - j /\ b = l - i
  <2>1. i \in 0..l /\ j \in 0..m
    BY <1>1
  <2> QED BY ONLY <1>2, <2>1
<1>6. Len(t) = d + a + b
  BY <1>1, <1>5
<1>7. IsDeep(Head(t))
  <2>1. 1 \in 1..d
    BY <1>1
  <2> QED BY <1>1, <1>4, <2>1
<1> HIDE DEF u, n
<1> DEFINE e == n + d - 1
<1>8. ASSUME NEW x \in 1..e PROVE IsDeep(u[x])
  <2>1. CASE x \in 1..n
    <3>1. IsVisit(u[x]) /\ u[x].parent = Head(t).own
      BY <1>4, <2>1
    <3>2. Len(Head(t).own) >= 3
      <4>1. Len(Head(t).parent) \in Nat
        BY <1>7, LenProperties DEF IsDeep, IsVisit, AnyVisits
      <4> QED BY <1>7, <4>1 DEF IsDeep, IsVisit
    <3> QED BY <3>1, <3>2 DEF IsDeep
  <2>2. CASE x \notin 1..n
    <3>1. /\ x - n \in 1..Len(t) - 1 /\ (x - n) + 1 \in 1..d /\ n + (x - n) = x
      BY <1>1, <1>2, <1>4, <2>2
    <3>2. u[n + (x - n)] = t[(x - n) + 1]
      BY <1>4, <3>1
    <3> QED BY <1>1, <3>1, <3>2
  <2> QED BY <2>1, <2>2
<1>9. ASSUME NEW x \in 1..m - j PROVE u[e + x] = Inside(cs, i)[j + x]
  <2> DEFINE y == d - 1 + x
  <2>1. /\ y \in 1..Len(t) - 1 /\ n + y = e + x
        /\ y + 1 = d + x
    <3>2. x \in 1..a /\ d \in Nat \ {0} /\ n \in Nat
      BY <1>1, <1>4, <1>5
    <3>3. Len(t) - 1 = d - 1 + a + b
      BY ONLY <1>6, <3>2
    <3>4. y \in 1..(d - 1 + a + b) /\ y + 1 = d + x /\ n + y = e + x
      BY ONLY <3>2
    <3> QED BY ONLY <3>3, <3>4, Zenon
  <2> HIDE DEF y
  <2>2. u[n + y] = t[y + 1]
    BY <1>4, <2>1
  <2>3. t[d + x] = Inside(cs, i)[j + x]
    BY <1>1
  <2> QED BY ONLY <2>1, <2>2, <2>3, Zenon
<1>10. ASSUME NEW x \in 1..l - i PROVE u[e + (m - j) + x] = Outer(cs)[i + x]
  <2> DEFINE y == d - 1 + (m - j) + x
  <2>1. /\ y \in 1..Len(t) - 1 /\ n + y = e + (m - j) + x
        /\ y + 1 = d + (m - j) + x
    <3>2. x \in 1..b /\ d \in Nat \ {0} /\ n \in Nat
      BY <1>1, <1>4, <1>5
    <3>3. Len(t) - 1 = d - 1 + a + b /\ y = d - 1 + a + x
      BY ONLY <1>5, <1>6, <3>2
    <3> HIDE DEF y
    <3>4. y \in 1..(d - 1 + a + b) /\ y + 1 = d + a + x /\ n + y = n + d - 1 + a + x
      BY ONLY <3>2, <3>3
    <3> QED BY <1>5, <3>3, <3>4
  <2> HIDE DEF y
  <2>2. u[n + y] = t[y + 1]
    BY <1>4, <2>1
  <2>3. t[d + (m - j) + x] = Outer(cs)[i + x]
    BY <1>1
  <2> QED BY ONLY <2>1, <2>2, <2>3, Zenon
<1>11. e \in Nat /\ Len(u) = e + (m - j) + (l - i)
  <2>1. d \in Nat \ {0} /\ n \in Nat /\ Len(u) = n + (d + a + b) - 1
    BY <1>1, <1>4, <1>6
  <2>2. e \in Nat /\ Len(u) = e + a + b
    BY ONLY <2>1
  <2> QED BY ONLY <1>5, <2>2, Zenon
<1> HIDE DEF e
<1>12. At(cs, u, e, i, j)
  BY <1>1, <1>4, <1>8, <1>9, <1>10, <1>11 DEF At, m, l
<1> QED BY <1>3, <1>7, <1>12 DEF u

LEMMA InnerLemma ==
  ASSUME NEW cs \in Seq(Elements), GlobalPath \in Seq(AnySteps), NEW t, NEW i, NEW j,
         At(cs, t, 0, i, j), j # Within(cs, i)
  PROVE  /\ t # <<>> /\ i \in 1..Len(cs) /\ j + 1 \in 1..Within(cs, i)
         /\ Head(t) = Inside(cs, i)[j + 1]
         /\ \E e : At(cs, BehindOf(t), e, i, j + 1)
<1> DEFINE n == Len(Head(t).el.kids)
           u == BehindOf(t)
           m == Within(cs, i)
           l == Len(cs)
<1>1. /\ i \in 0..l /\ j \in 0..m /\ t \in Seq(AnyVisits)
      /\ Len(t) = 0 + (m - j) + (l - i)
      /\ \A x \in 1..m - j : t[0 + x] = Inside(cs, i)[j + x]
      /\ \A x \in 1..l - i : t[0 + (m - j) + x] = Outer(cs)[i + x]
  BY DEF At
<1>2. l \in Nat /\ m \in Nat /\ (i = 0 => m = 0)
  BY <1>1, OuterLemma DEF Within
<1>3. j # m
  OBVIOUS
<1> HIDE DEF m, l
<1>4. /\ i \in 1..l /\ j + 1 \in 1..m /\ 1 \in 1..m - j /\ j \in Nat
      /\ Len(t) \in Nat \ {0} /\ m - j - 1 \in Nat /\ l - i \in Nat
  BY <1>1, <1>2, <1>3
<1>5. t # <<>>
  BY <1>4, EmptySeq
<1>6. /\ Head(t) = t[1] /\ n \in Nat
      /\ u \in Seq(AnyVisits) /\ Len(u) = n + Len(t) - 1
      /\ \A x \in 1..n : IsVisit(u[x]) /\ u[x].parent = Head(t).own
      /\ \A x \in 1..Len(t) - 1 : u[n + x] = t[x + 1]
  BY <1>1, <1>5, BehindLemma
<1>7. Head(t) = Inside(cs, i)[j + 1]
  <2>1. t[0 + 1] = Inside(cs, i)[j + 1] /\ 0 + 1 = 1
    BY <1>1, <1>4
  <2> QED BY <1>6, <2>1
<1>8. Len(Head(t).own) = 3
  <2>1. i \in 1..Len(cs) /\ j + 1 \in 1..Within(cs, i)
    BY <1>4 DEF l, m
  <2>2. Len(Inside(cs, i)[j + 1].own) = 3
    BY <2>1, OuterLemma
  <2> QED BY <1>7, <2>2
<1>9. PICK a \in Nat, b \in Nat : a = m - j - 1 /\ b = l - i
  BY <1>4
<1>10. m - j = a + 1 /\ m - (j + 1) = a /\ Len(t) = a + 1 + b /\ n \in Nat
  BY <1>1, <1>2, <1>4, <1>6, <1>9
<1> HIDE DEF u, n
<1>11. ASSUME NEW x \in 1..n PROVE IsDeep(u[x])
  <2>1. IsVisit(u[x]) /\ u[x].parent = Head(t).own
    BY <1>6
  <2>2. Len(u[x].parent) = 3
    BY <1>8, <2>1
  <2>3. Len(u[x].parent) >= 3
    BY ONLY <2>2
  <2> QED BY ONLY <2>1, <2>3, Zenon DEF IsDeep
<1>12. ASSUME NEW x \in 1..m - (j + 1) PROVE u[n + x] = Inside(cs, i)[(j + 1) + x]
  <2>1. x \in 1..Len(t) - 1 /\ x + 1 \in 1..m - j /\ 0 + (x + 1) = x + 1 /\ j + (x + 1) = (j + 1) + x
    BY <1>4, <1>10
  <2>2. u[n + x] = t[x + 1]
    BY <1>6, <2>1
  <2>3. t[0 + (x + 1)] = Inside(cs, i)[j + (x + 1)]
    BY <1>1, <2>1
  <2> QED BY <2>1, <2>2, <2>3
<1>13. ASSUME NEW x \in 1..l - i PROVE u[n + (m - (j + 1)) + x] = Outer(cs)[i + x]
  <2> DEFINE y == (m - (j + 1)) + x
  <2>1. /\ y \in 1..Len(t) - 1 /\ n + y = n + (m - (j + 1)) + x
        /\ y + 1 = 0 + (m - j) + x
    <3>1. x \in 1..b /\ y = a + x
      BY <1>9, <1>10
    <3> HIDE DEF y
    <3> QED BY <1>10, <3>1
  <2> HIDE DEF y
  <2>2. u[n + y] = t[y + 1]
    BY <1>6, <2>1
  <2>3. t[0 + (m - j) + x] = Outer(cs)[i + x]
    BY <1>1
  <2> QED BY <2>1, <2>2, <2>3
<1>14. Len(u) = n + (m - (j + 1)) + (l - i)
  <2>1. Len(u) = n + (a + 1 + b) - 1
    BY <1>6, <1>10
  <2>2. n + (a + 1 + b) - 1 = n + a + b
    BY ONLY <1>10
  <2> QED BY <1>9, <1>10, <2>1, <2>2, Zenon
<1>15. At(cs, u, n, i, j + 1)
  <2>1. j + 1 \in 0..m /\ n \in Nat /\ u \in Seq(AnyVisits) /\ i \in 0..l
    BY <1>1, <1>2, <1>4, <1>6
  <2> QED BY <1>11, <1>12, <1>13, <1>14, <2>1 DEF At, m, l
<1> QED BY <1>4, <1>5, <1>7, <1>15 DEF u, l, m

LEMMA OnLemma ==
  ASSUME NEW cs \in Seq(Elements), GlobalPath \in Seq(AnySteps), NEW t, NEW i, NEW j,
         At(cs, t, 0, i, j), j = Within(cs, i), t # <<>>
  PROVE  /\ i \in 0..Len(cs) /\ i + 1 \in 1..Len(cs)
         /\ Head(t) = Outer(cs)[i + 1]
         /\ At(cs, BehindOf(t), 0, i + 1, 0)
<1> DEFINE n == Len(Head(t).el.kids)
           u == BehindOf(t)
           m == Within(cs, i)
           l == Len(cs)
<1>1. /\ i \in 0..l /\ j = m /\ t \in Seq(AnyVisits)
      /\ Len(t) = 0 + (m - j) + (l - i)
      /\ \A x \in 1..l - i : t[0 + (m - j) + x] = Outer(cs)[i + x]
  BY DEF At
<1>2. l \in Nat /\ m \in Nat
  BY <1>1, OuterLemma DEF Within
<1> HIDE DEF m, l
<1>3. Len(t) = l - i /\ \A x \in 1..l - i : t[x] = Outer(cs)[i + x]
  <2>1. \A x \in 1..l - i : 0 + (m - j) + x = x
    BY <1>1, <1>2
  <2> QED BY <1>1, <1>2, <2>1
<1>4. Len(t) \in Nat \ {0}
  BY <1>1, EmptySeq
<1>5. i + 1 \in 1..l /\ 1 \in 1..l - i
  BY <1>1, <1>2, <1>3, <1>4
<1>6. /\ Head(t) = t[1] /\ n \in Nat
      /\ u \in Seq(AnyVisits) /\ Len(u) = n + Len(t) - 1
      /\ \A x \in 1..n : u[x] = Visits(Head(t).el.kids, Head(t).own)[x]
      /\ \A x \in 1..Len(t) - 1 : u[n + x] = t[x + 1]
  BY <1>1, BehindLemma
<1>7. Head(t) = Outer(cs)[i + 1]
  BY <1>3, <1>5, <1>6
<1>8. Head(t).el = cs[i + 1] /\ n = Within(cs, i + 1)
  <2>1. i + 1 \in 1..Len(cs)
    BY <1>5 DEF l
  <2>2. Outer(cs)[i + 1].el = cs[i + 1] /\ Within(cs, i + 1) = Len(cs[i + 1].kids)
    BY <2>1, OuterLemma
  <2> QED BY <1>7, <2>2
<1>9. \A x \in 1..n : u[x] = Inside(cs, i + 1)[x]
  BY <1>6, <1>7, <1>8 DEF Inside
<1> HIDE DEF u, n
<1>10. ASSUME NEW x \in 1..n - 0 PROVE u[0 + x] = Inside(cs, i + 1)[0 + x]
  <2>1. x \in 1..n /\ 0 + x = x
    BY <1>6
  <2> QED BY <1>9, <2>1
<1>11. ASSUME NEW x \in 1..l - (i + 1) PROVE u[0 + (n - 0) + x] = Outer(cs)[(i + 1) + x]
  <2>1. /\ x \in 1..Len(t) - 1 /\ 0 + (n - 0) + x = n + x
        /\ x + 1 \in 1..l - i /\ (i + 1) + x = i + (x + 1)
    BY <1>1, <1>2, <1>3, <1>6
  <2>2. u[n + x] = t[x + 1]
    BY <1>6, <2>1
  <2>3. t[x + 1] = Outer(cs)[i + (x + 1)]
    BY <1>3, <2>1
  <2> QED BY <2>1, <2>2, <2>3
<1>12. Len(u) = 0 + (n - 0) + (l - (i + 1))
  BY <1>1, <1>2, <1>3, <1>6
<1>13. At(cs, u, 0, i + 1, 0)
  <2>1. 0 \in 0..n /\ u \in Seq(AnyVisits) /\ i + 1 \in 0..l
    BY <1>1, <1>2, <1>5, <1>6
  <2> QED BY <1>8, <1>10, <1>11, <1>12, <2>1 DEF At, l
<1> QED BY <1>1, <1>5, <1>7, <1>13 DEF u, l

(* Nothing is left only at the end. *)
LEMMA OverLemma ==
  ASSUME NEW cs \in Seq(Elements), GlobalPath \in Seq(AnySteps), NEW d, NEW i, NEW j,
         At(cs, <<>>, d, i, j)
  PROVE  d = 0 /\ i = Len(cs) /\ j = Within(cs, i)
<1> DEFINE m == Within(cs, i)
           l == Len(cs)
<1>1. /\ d \in Nat /\ i \in 0..l /\ j \in 0..m
      /\ Len(<<>>) = d + (m - j) + (l - i)
  BY DEF At
<1>2. l \in Nat /\ m \in Nat
  BY <1>1, OuterLemma DEF Within
<1>3. Len(<<>>) = 0
  OBVIOUS
<1> HIDE DEF m, l
<1>4. d = 0 /\ i = l /\ j = m
  BY <1>1, <1>2, <1>3
<1> QED BY <1>4 DEF l, m

-----------------------------------------------------------------------------
(* What was read of the file on the way. *)
FileIs == \E e \in Elements : e.tag = "configuration" /\ file = <<e>>

PoolPlaces == Sections(InWorkers, "pool")

(* The one workers element, if there is one and no other. *)
IsThere(i) == Cardinality(WorkersAt) = 1 /\ i = Max(WorkersAt)

(* The sections for pools that were passed, and what was read of them all. *)
SoFar(i, j) ==
  IF Cardinality(WorkersAt) # 1 \/ i < Max(WorkersAt) THEN <<>>
  ELSE Firsts(InWorkers, PoolPlaces)[IF i = Max(WorkersAt) THEN j ELSE Len(InWorkers)]

OptionsSoFar(i, o) ==
  /\ o = AllSay(GlobalOptions, Configuration, UpTo(GlobalSections, i), Unset(GlobalOptions))
  /\ \A x \in UpTo(GlobalSections, i) : IsGood(GlobalOptions, Configuration[x].kids)

PoolsAre(ps, sections) ==
  /\ Len(ps) = Len(sections)
  /\ \A x \in 1..Len(sections) : ps[x].config = SaysPool(sections[x].kids)

AreGood(sections) == \A p \in ToSet(sections) : IsGoodPool(p.kids)

(* Being there, with all that is behind read as it is written. *)
Read(t, o, ps, i, j) ==
  /\ \E d : At(Configuration, t, d, i, j)
  /\ OptionsSoFar(i, o)
  /\ PoolsAre(ps, SoFar(i, j)) /\ AreGood(SoFar(i, j))

LoadInv ==
  \/ todo = Visits(file, <<>>) /\ options = Unset(GlobalOptions) /\ pools = <<>>
  \/ \E i, j : Read(todo, options, pools, i, j)

LEMMA AppendTwo == ASSUME NEW a, NEW b PROVE Append(<<a>>, b) = <<a, b>>
<1> DEFINE r == Append(<<a>>, b)
<1>1. <<a>> \in Seq({a, b}) /\ Len(<<a>>) = 1 /\ <<a>>[1] = a
  OBVIOUS
<1>2. r \in Seq({a, b}) /\ Len(r) = 2 /\ r[1] = a /\ r[2] = b
  <2>1. /\ r \in Seq({a, b}) /\ Len(r) = Len(<<a>>) + 1
        /\ \A i \in 1..Len(<<a>>) : r[i] = <<a>>[i]
        /\ r[Len(<<a>>) + 1] = b
    <3>1. b \in {a, b}
      OBVIOUS
    <3> HIDE DEF r
    <3> QED BY <1>1, <3>1, AppendProperties DEF r
  <2> HIDE DEF r
  <2> QED BY <1>1, <2>1
<1> HIDE DEF r
<1>3. r = <<a, b>>
  BY <1>2
<1> QED BY <1>3 DEF r

LEMMA FileLemma ==
  ASSUME FileIs
  PROVE  /\ Configuration \in Seq(Elements)
         /\ GlobalPath \in Seq(AnySteps)
         /\ Visits(file, <<>>) \in Seq(AnyVisits) /\ Len(Visits(file, <<>>)) = 1
         /\ LET v == Visits(file, <<>>)[1]
            IN  v.parent = <<>> /\ v.own = GlobalPath /\ v.el.kids = Configuration
<1>1. PICK e \in Elements : e.tag = "configuration" /\ file = <<e>>
  BY DEF FileIs
<1>2. Configuration \in Seq(Elements) /\ file[1] = e
  BY <1>1, ConfAssumption DEF Configuration
<1>3. file \in Seq(Elements) /\ Len(file) = 1 /\ DOMAIN file = {1}
  BY <1>1
<1>4. Step(file, 1) = <<"configuration", 0>>
  <2>1. {k \in DOMAIN file : file[k].tag = file[1].tag} = {1}
    BY <1>3
  <2>2. Cardinality({1}) = 1
    BY FS_Singleton
  <2> QED BY <1>1, <1>2, <2>1, <2>2 DEF Step
<1>5. Step(file, 1) \in AnySteps
  <2>1. PICK f \in Seq(Elements), i \in Nat : f = file /\ i = 1
    BY <1>3
  <2>2. Step(f, i) \in AnySteps
    BY DEF AnySteps
  <2> QED BY <2>1, <2>2
<1>6. GlobalPath = Append(<<>>, Step(file, 1)) /\ GlobalPath \in Seq(AnySteps)
  BY <1>4, <1>5 DEF GlobalPath
<1> DEFINE v == Visits(file, <<>>)
<1>7. /\ v \in Seq(AnyVisits) /\ Len(v) = 1
      /\ v[1].parent = <<>> /\ v[1].own = Append(<<>>, Step(file, 1)) /\ v[1].el = file[1]
  <2>1. <<>> \in Seq(AnySteps)
    OBVIOUS
  <2>2. 1 \in 1..Len(file)
    BY <1>3
  <2> QED BY <1>3, <2>1, <2>2, VisitsLemma
<1> HIDE DEF v
<1> QED BY <1>2, <1>6, <1>7 DEF v, Configuration

(* An element has the path the pools are registered under if it is the only one
   that is called workers: with two, both have a number in their paths. *)
LEMMA WorkersLemma ==
  ASSUME FileIs
  PROVE  /\ Cardinality(WorkersAt) = 1 =>
              /\ WorkersAt = {Max(WorkersAt)} /\ Max(WorkersAt) \in 1..Len(Configuration)
              /\ InWorkers = Configuration[Max(WorkersAt)].kids /\ InWorkers \in Seq(Elements)
         /\ \A i \in 1..Len(Configuration) : Outer(Configuration)[i].own = PoolPath <=> IsThere(i)
<1> DEFINE C == Configuration
           W == WorkersAt
<1>1. C \in Seq(Elements) /\ GlobalPath \in Seq(AnySteps)
  BY FileLemma
<1>2. Len(C) \in Nat /\ DOMAIN C = 1..Len(C)
  BY <1>1, LenProperties
<1>3. W \subseteq 1..Len(C) /\ \A i \in 1..Len(C) : i \in W <=> C[i].tag = "workers"
  BY <1>2 DEF WorkersAt
<1>4. IsFiniteSet(W)
  <2>1. IsFiniteSet(1..Len(C))
    BY <1>2, FS_Interval
  <2> HIDE DEF W, C
  <2> QED BY <1>3, <2>1, FS_Subset
<1>5. ASSUME Cardinality(W) = 1
      PROVE  /\ W = {Max(W)} /\ Max(W) \in 1..Len(C)
             /\ InWorkers = C[Max(W)].kids /\ InWorkers \in Seq(Elements)
  <2>1. PICK w : W = {w}
    BY <1>4, <1>5, FS_Singleton
  <2>2. w \in 1..Len(C) /\ w \in Nat
    BY <1>2, <1>3, <2>1
  <2>3. Max(W) = w
    <3>1. Max({w}) = w
      BY <2>2 DEF Max
    <3> QED BY <2>1, <3>1
  <2>4. InWorkers = C[Max(W)].kids
    BY DEF InWorkers
  <2>5. C[w] \in Elements
    BY <1>1, <2>2, ElementOfSeq
  <2> HIDE DEF C, W
  <2> QED BY <2>1, <2>2, <2>3, <2>4, <2>5, ConfAssumption
<1>6. ASSUME NEW i \in 1..Len(C)
      PROVE  Outer(C)[i].own = PoolPath <=> IsThere(i)
  <2> DEFINE s == Step(C, i)
  <2>1. Outer(C)[i].own = Append(GlobalPath, s)
    BY <1>1, OuterLemma
  <2>2. Append(GlobalPath, s) = PoolPath <=> s = <<"workers", 0>>
    <3>1. PICK x, a, b : x = s /\ a = <<"configuration", 0>> /\ b = <<"workers", 0>>
      OBVIOUS
    <3>2. GlobalPath = <<a>> /\ PoolPath = <<a, b>>
      BY <3>1 DEF GlobalPath, PoolPath
    <3>3. Append(<<a>>, x) = <<a, x>>
      BY ONLY AppendTwo
    <3>4. <<a, x>> = <<a, b>> <=> x = b
      OBVIOUS
    <3> HIDE DEF s
    <3> QED BY ONLY <3>1, <3>2, <3>3, <3>4, Zenon
  <2>3. s = <<C[i].tag, IF Cardinality({k \in DOMAIN C : C[k].tag = C[i].tag}) = 1 THEN 0
                        ELSE Cardinality({k \in DOMAIN C : C[k].tag = C[i].tag} \cap 1..i)>>
    BY DEF Step
  <2>4. CASE C[i].tag # "workers"
    <3>1. s # <<"workers", 0>>
      BY <2>3, <2>4
    <3>2. i \notin W
      BY <1>3, <2>4
    <3>3. ~ IsThere(i)
      BY <1>5, <3>2 DEF IsThere
    <3> QED BY <2>1, <2>2, <3>1, <3>3
  <2>5. CASE C[i].tag = "workers"
    <3>1. {k \in DOMAIN C : C[k].tag = C[i].tag} = W
      BY <2>5 DEF WorkersAt
    <3>2. i \in W
      BY <1>3, <2>5
    <3>3. CASE Cardinality(W) = 1
      <4>1. s = <<"workers", 0>>
        BY <2>3, <2>5, <3>1, <3>3
      <4>2. IsThere(i)
        BY <1>5, <3>2, <3>3 DEF IsThere
      <4> QED BY <2>1, <2>2, <4>1, <4>2
    <3>4. CASE Cardinality(W) # 1
      <4>1. s = <<"workers", Cardinality(W \cap 1..i)>>
        BY <2>3, <2>5, <3>1, <3>4
      <4>2. Cardinality(W \cap 1..i) # 0
        <5>1. IsFiniteSet(W \cap 1..i)
          <6> HIDE DEF W
          <6> QED BY <1>4, FS_Subset
        <5>2. i \in W \cap 1..i
          BY <3>2
        <5> HIDE DEF W
        <5> QED BY <5>1, <5>2, FS_EmptySet
      <4>3. s # <<"workers", 0>>
        BY <4>1, <4>2
      <4>4. ~ IsThere(i)
        BY <3>4 DEF IsThere
      <4> QED BY <2>1, <2>2, <4>3, <4>4
    <3> QED BY <3>3, <3>4
  <2> QED BY <2>4, <2>5
<1> QED BY <1>5, <1>6

(* The sections passed, one element further. *)
LEMMA SoFarLemma ==
  ASSUME FileIs, NEW i \in 0..Len(Configuration), NEW j \in 0..Within(Configuration, i)
  PROVE  /\ SoFar(i, j) \in Seq(Elements)
         /\ i = 0 /\ j = 0 => SoFar(i, j) = <<>>
         /\ i + 1 \in 1..Len(Configuration) /\ j = Within(Configuration, i) =>
              SoFar(i + 1, 0) = SoFar(i, j)
         /\ i \in 1..Len(Configuration) /\ j + 1 \in 1..Within(Configuration, i) =>
              SoFar(i, j + 1) = IF IsThere(i) /\ j + 1 \in PoolPlaces
                                THEN Append(SoFar(i, j), Configuration[i].kids[j + 1])
                                ELSE SoFar(i, j)
         /\ i = Len(Configuration) /\ j = Within(Configuration, i) => SoFar(i, j) = PoolSections
<1> DEFINE C == Configuration
           n == Len(C)
           M == Max(WorkersAt)
           K == InWorkers
           g == Firsts(InWorkers, PoolPlaces)
<1>1. C \in Seq(Elements) /\ n \in Nat /\ GlobalPath \in Seq(AnySteps)
  BY FileLemma, LenProperties
<1>2. Within(C, i) \in Nat /\ j \in Nat /\ (i = 0 => Within(C, i) = 0)
  BY <1>1, OuterLemma DEF Within
<1>3. CASE Cardinality(WorkersAt) # 1
  <2>1. \A x, y : SoFar(x, y) = <<>> /\ ~ IsThere(x)
    BY <1>3 DEF SoFar, IsThere
  <2>2. PoolSections = <<>> /\ <<>> \in Seq(Elements)
    BY <1>3 DEF PoolSections
  <2> QED BY <2>1, <2>2
<1>4. CASE Cardinality(WorkersAt) = 1
  <2>1. M \in 1..n /\ K = C[M].kids /\ K \in Seq(Elements)
    BY <1>4, WorkersLemma
  <2>2. Within(C, M) = Len(K) /\ Len(K) \in Nat
    <3>1. Within(C, M) = Len(C[M].kids)
      BY <1>1, <2>1, OuterLemma
    <3> QED BY <2>1, <3>1, LenProperties
  <2>3. /\ g[0] = <<>> /\ PoolSections = g[Len(K)]
        /\ \A k \in 1..Len(K) : g[k] = IF k \in PoolPlaces THEN Append(g[k - 1], K[k]) ELSE g[k - 1]
        /\ \A k \in 0..Len(K) : g[k] \in Seq(Elements)
    <3>1. /\ g[0] = <<>> /\ Chosen(K, PoolPlaces) = g[Len(K)]
          /\ \A k \in 1..Len(K) : g[k] = IF k \in PoolPlaces THEN Append(g[k - 1], K[k]) ELSE g[k - 1]
      BY <2>1, FirstsLemma
    <3>2. \A k \in 0..Len(K) : g[k] \in Seq(Elements)
      BY <2>1, FirstsAre
    <3>3. PoolSections = Chosen(K, PoolPlaces)
      BY <1>4 DEF PoolSections, PoolPlaces
    <3> HIDE DEF g, K
    <3> QED BY <3>1, <3>2, <3>3
  <2>4. \A x, y : SoFar(x, y) = IF x < M THEN <<>> ELSE g[IF x = M THEN y ELSE Len(K)]
    BY <1>4 DEF SoFar
  <2>5. \A x : IsThere(x) <=> x = M
    BY <1>4 DEF IsThere
  <2> HIDE DEF g, M, n, C, K
  <2>6. CASE i < M
    <3>1. SoFar(i, j) = <<>> /\ <<>> \in Seq(Elements)
      BY <2>4, <2>6
    <3>2. ~ IsThere(i) /\ SoFar(i, j + 1) = <<>> /\ i # n
      BY <1>1, <2>1, <2>4, <2>5, <2>6
    <3>3. SoFar(i + 1, 0) = <<>>
      <4>1. i + 1 < M \/ i + 1 = M
        BY <1>1, <2>1, <2>6
      <4>2. CASE i + 1 < M
        BY <2>4, <4>2
      <4>3. CASE i + 1 = M
        BY <2>1, <2>3, <2>4, <4>3
      <4> QED BY <4>1, <4>2, <4>3
    <3>4. i = 0 /\ j = 0 => SoFar(i, j) = <<>>
      BY <3>1
    <3> QED BY <3>1, <3>2, <3>3 DEF n, C
  <2>7. CASE i = M
    <3>1. Within(C, i) = Len(K) /\ j \in 0..Len(K) /\ i # 0 /\ ~ (i < M)
      BY <2>1, <2>2, <2>7 DEF C
    <3>2. SoFar(i, j) = g[j] /\ SoFar(i, j + 1) = g[j + 1] /\ SoFar(i, j) \in Seq(Elements)
      BY <2>3, <2>4, <2>7, <3>1
    <3>3. SoFar(i + 1, 0) = g[Len(K)]
      <4>1. ~ (i + 1 < M) /\ i + 1 # M
        BY <2>1, <2>7
      <4> QED BY <2>4, <4>1
    <3>4. ASSUME j + 1 \in 1..Len(K)
          PROVE  SoFar(i, j + 1) = IF IsThere(i) /\ j + 1 \in PoolPlaces THEN Append(SoFar(i, j), K[j + 1])
                                   ELSE SoFar(i, j)
      <4>1. g[j + 1] = IF j + 1 \in PoolPlaces THEN Append(g[(j + 1) - 1], K[j + 1]) ELSE g[(j + 1) - 1]
        BY <2>3, <3>4
      <4>2. (j + 1) - 1 = j
        BY <1>2
      <4> QED BY <2>5, <2>7, <3>2, <4>1, <4>2
    <3>5. C[i].kids = K
      BY <2>1, <2>7
    <3> QED BY <2>3, <3>1, <3>2, <3>3, <3>4, <3>5 DEF n, C
  <2>8. CASE i > M
    <3>1. ~ (i < M) /\ i # M /\ ~ (i + 1 < M) /\ i + 1 # M /\ i # 0 /\ ~ IsThere(i)
      BY <2>1, <2>5, <2>8
    <3>2. SoFar(i, j) = g[Len(K)] /\ SoFar(i, j + 1) = g[Len(K)] /\ SoFar(i + 1, 0) = g[Len(K)]
      BY <2>4, <3>1
    <3>3. g[Len(K)] \in Seq(Elements)
      BY <2>2, <2>3
    <3> QED BY <2>3, <3>1, <3>2, <3>3
  <2>9. i < M \/ i = M \/ i > M
    BY <2>1
  <2> QED BY <2>6, <2>7, <2>8, <2>9
<1> QED BY <1>3, <1>4

(* A section for a pool is one of those of the file. *)
LEMMA PlacedLemma ==
  ASSUME FileIs, NEW i, IsThere(i), NEW k \in 1..Within(Configuration, i), k \in PoolPlaces
  PROVE  /\ Configuration[i].kids[k] \in Elements
         /\ Configuration[i].kids[k] \in ToSet(PoolSections)
<1> DEFINE K == InWorkers
           g == Firsts(K, PoolPlaces)
<1>1. /\ Cardinality(WorkersAt) = 1 /\ i \in 1..Len(Configuration)
      /\ K = Configuration[i].kids /\ K \in Seq(Elements)
  BY WorkersLemma DEF IsThere
<1>2. Within(Configuration, i) = Len(K) /\ Len(K) \in Nat /\ k \in 1..Len(K)
  <2>1. Within(Configuration, i) = Len(Configuration[i].kids)
    BY <1>1, FileLemma, OuterLemma
  <2> QED BY <1>1, <2>1, LenProperties
<1>3. PoolSections = g[Len(K)]
  <2>1. Chosen(K, PoolPlaces) = g[Len(K)]
    BY <1>1, FirstsLemma
  <2>2. PoolSections = Chosen(K, PoolPlaces)
    BY <1>1 DEF PoolSections, PoolPlaces
  <2> HIDE DEF g
  <2> QED BY <2>1, <2>2
<1>4. K[k] \in ToSet(g[Len(K)])
  <2>1. Len(K) \in 0..Len(K) /\ k \in UpTo(PoolPlaces, Len(K))
    BY <1>2 DEF UpTo
  <2> HIDE DEF K
  <2> QED BY <1>1, <2>1, FirstsAre
<1>5.. K[k] \in Elements
  BY <1>1, <1>2, ElementOfSeq
<1> HIDE DEF g, K
<1> QED BY <1>1, <1>3, <1>4, <1>5

(* What kind of element is next. *)
LEMMA NextLemma ==
  ASSUME FileIs, NEW t, NEW d, NEW i, NEW j, At(Configuration, t, d, i, j), t # <<>>
  PROVE  \/ /\ ~ IsGlobal(Head(t)) /\ ~ IsPool(Head(t))
            /\ \E e : At(Configuration, BehindOf(t), e, i, j)
         \/ /\ i \in 1..Len(Configuration) /\ j + 1 \in 1..Within(Configuration, i)
            /\ ~ IsGlobal(Head(t)) /\ (IsPool(Head(t)) <=> IsThere(i) /\ j + 1 \in PoolPlaces)
            /\ Head(t).el = Configuration[i].kids[j + 1]
            /\ \E e : At(Configuration, BehindOf(t), e, i, j + 1)
         \/ /\ i + 1 \in 1..Len(Configuration) /\ j = Within(Configuration, i)
            /\ ~ IsPool(Head(t)) /\ (IsGlobal(Head(t)) <=> i + 1 \in GlobalSections)
            /\ Head(t).el = Configuration[i + 1]
            /\ At(Configuration, BehindOf(t), 0, i + 1, 0)
<1> DEFINE C == Configuration
           v == Head(t)
<1>1. /\ C \in Seq(Elements) /\ Len(C) \in Nat /\ DOMAIN C = 1..Len(C)
      /\ GlobalPath \in Seq(AnySteps)
  BY FileLemma, LenProperties
<1>2. Len(GlobalPath) = 1 /\ Len(PoolPath) = 2
  BY DEF GlobalPath, PoolPath
<1> HIDE DEF C
<1>3. CASE d # 0
  <2>1. IsDeep(v) /\ \E e : At(C, BehindOf(t), e, i, j)
    BY <1>1, <1>3, DeeperLemma DEF C
  <2>2. v.parent # GlobalPath /\ v.parent # PoolPath
    <3>1. Len(v.parent) >= 3 /\ v.parent \in Seq(AnySteps)
      BY <2>1 DEF IsDeep, IsVisit, AnyVisits
    <3>2. Len(v.parent) \in Nat
      BY <3>1, LenProperties
    <3>3. Len(v.parent) # 1 /\ Len(v.parent) # 2
      <4>1. PICK m \in Nat : m = Len(v.parent)
        BY <3>2
      <4>2. m >= 3
        BY <3>1, <4>1
      <4>3. m # 1 /\ m # 2
        BY ONLY <4>2
      <4> QED BY ONLY <4>1, <4>3, Zenon
    <3> QED BY ONLY <1>2, <3>3
  <2> QED BY <2>1, <2>2 DEF C, IsGlobal, IsPool
<1>4. CASE d = 0 /\ j # Within(C, i)
  <2>1. /\ i \in 1..Len(C) /\ j + 1 \in 1..Within(C, i) /\ v = Inside(C, i)[j + 1]
        /\ \E e : At(C, BehindOf(t), e, i, j + 1)
    BY <1>1, <1>4, InnerLemma DEF C
  <2>2. v.el = C[i].kids[j + 1] /\ v.parent = Outer(C)[i].own /\ Len(v.parent) = 2
    BY <1>1, <2>1, OuterLemma
  <2>3. ~ IsGlobal(v)
    <3>1. v.parent # GlobalPath
      BY ONLY <1>2, <2>2
    <3> QED BY <3>1 DEF IsGlobal
  <2>4. v.parent = PoolPath <=> IsThere(i)
    BY <2>1, <2>2, WorkersLemma DEF C
  <2>5. IsThere(i) => (j + 1 \in PoolPlaces <=> v.el.tag = "section" /\ v.el.name = "pool")
    <3> SUFFICES ASSUME IsThere(i)
                 PROVE  j + 1 \in PoolPlaces <=> v.el.tag = "section" /\ v.el.name = "pool"
      OBVIOUS
    <3>1. InWorkers = C[i].kids /\ InWorkers \in Seq(Elements)
      BY WorkersLemma DEF IsThere, C
    <3>2. Within(C, i) = Len(InWorkers)
      BY <1>1, <2>1, <3>1, OuterLemma
    <3>3. DOMAIN InWorkers = 1..Len(InWorkers)
      BY <3>1, LenProperties
    <3> QED BY <2>1, <2>2, <3>1, <3>2, <3>3 DEF PoolPlaces, Sections
  <2>6. IsPool(v) <=> IsThere(i) /\ j + 1 \in PoolPlaces
    BY <2>4, <2>5 DEF IsPool
  <2> QED BY <2>1, <2>2, <2>3, <2>6 DEF C
<1>5. CASE d = 0 /\ j = Within(C, i)
  <2>1. i + 1 \in 1..Len(C) /\ v = Outer(C)[i + 1] /\ At(C, BehindOf(t), 0, i + 1, 0)
    BY <1>1, <1>5, OnLemma DEF C
  <2>2. v.el = C[i + 1] /\ v.parent = GlobalPath
    BY <1>1, <2>1, OuterLemma
  <2>3. ~ IsPool(v)
    <3>1. v.parent # PoolPath
      BY ONLY <1>2, <2>2
    <3> QED BY <3>1 DEF IsPool
  <2>4. IsGlobal(v) <=> i + 1 \in GlobalSections
    BY <1>1, <2>1, <2>2 DEF IsGlobal, GlobalSections, Sections, C
  <2> QED BY <1>5, <2>1, <2>2, <2>3, <2>4 DEF C
<1> QED BY <1>3, <1>4, <1>5

LEMMA PlacedAt ==
  ASSUME FileIs, NEW t, NEW o, NEW ps, NEW i, NEW j, Read(t, o, ps, i, j)
  PROVE  /\ i \in 0..Len(Configuration) /\ j \in 0..Within(Configuration, i)
         /\ i \in Nat /\ j \in Nat /\ Within(Configuration, i) \in Nat
         /\ Len(Configuration) \in Nat
<1>1. /\ i \in 0..Len(Configuration) /\ j \in 0..Within(Configuration, i)
  BY DEF Read, At
<1>2. Configuration \in Seq(Elements) /\ GlobalPath \in Seq(AnySteps)
  BY FileLemma
<1>3. Len(Configuration) \in Nat /\ Within(Configuration, i) \in Nat
  BY <1>1, <1>2, OuterLemma DEF Within
<1> QED BY <1>1, <1>3

(* An element of no interest. *)
LEMMA ReadPass ==
  ASSUME FileIs, NEW t, NEW o, NEW ps, NEW i, NEW j, Read(t, o, ps, i, j), t # <<>>,
         ~ IsGlobal(Head(t)), ~ IsPool(Head(t))
  PROVE  \E x, y : Read(BehindOf(t), o, ps, x, y)
<1> DEFINE C == Configuration
<1>1. PICK d : At(C, t, d, i, j)
  BY DEF Read
<1>2. /\ i \in 0..Len(C) /\ j \in 0..Within(C, i) /\ i \in Nat
  BY PlacedAt
<1>3. OptionsSoFar(i, o) /\ PoolsAre(ps, SoFar(i, j)) /\ AreGood(SoFar(i, j))
  BY DEF Read
<1>4. CASE \E e : At(C, BehindOf(t), e, i, j)
  BY <1>3, <1>4 DEF Read
<1>5. CASE /\ i \in 1..Len(C) /\ j + 1 \in 1..Within(C, i)
           /\ ~ (IsThere(i) /\ j + 1 \in PoolPlaces)
           /\ \E e : At(C, BehindOf(t), e, i, j + 1)
  <2>1. SoFar(i, j + 1) = SoFar(i, j)
    BY <1>2, <1>5, SoFarLemma
  <2>2. Read(BehindOf(t), o, ps, i, j + 1)
    BY <1>3, <1>5, <2>1 DEF Read
  <2> QED BY <2>2
<1>6. CASE /\ i + 1 \in 1..Len(C) /\ j = Within(C, i) /\ i + 1 \notin GlobalSections
           /\ At(C, BehindOf(t), 0, i + 1, 0)
  <2>1. SoFar(i + 1, 0) = SoFar(i, j)
    BY <1>2, <1>6, SoFarLemma
  <2>2. UpTo(GlobalSections, i + 1) = UpTo(GlobalSections, i)
    <3>1. i + 1 \in Nat \ {0} /\ (i + 1) - 1 = i
      BY <1>2
    <3> QED BY <1>6, <3>1, PlacesLemma
  <2>3. OptionsSoFar(i + 1, o)
    BY <1>3, <2>2 DEF OptionsSoFar
  <2>4. Read(BehindOf(t), o, ps, i + 1, 0)
    BY <1>3, <1>6, <2>1, <2>3 DEF Read
  <2> QED BY <2>4
<1> QED BY <1>1, <1>4, <1>5, <1>6, NextLemma

(* A section of global options. *)
LEMMA ReadGlobal ==
  ASSUME FileIs, NEW t, NEW o, NEW ps, NEW i, NEW j, Read(t, o, ps, i, j), t # <<>>,
         IsGlobal(Head(t))
  PROVE  LET r == Scalars(GlobalOptions, o, Head(t).el.kids)
         IN  IF r.err THEN ~ IsGoodFile ELSE Read(BehindOf(t), r.conf, ps, i + 1, 0)
<1> DEFINE C == Configuration
           P == GlobalSections
           k == i + 1
           U == Unset(GlobalOptions)
           r == Scalars(GlobalOptions, o, Head(t).el.kids)
           a == AllSay(GlobalOptions, C, UpTo(P, k), U)
<1>1. PICK d : At(C, t, d, i, j)
  BY DEF Read
<1>2. /\ i \in 0..Len(C) /\ j \in 0..Within(C, i) /\ i \in Nat
      /\ k \in Nat \ {0} /\ k - 1 = i
  BY PlacedAt
<1>3. OptionsSoFar(i, o) /\ PoolsAre(ps, SoFar(i, j)) /\ AreGood(SoFar(i, j))
  BY DEF Read
<1>4. /\ k \in 1..Len(C) /\ j = Within(C, i) /\ k \in P /\ Head(t).el = C[k]
      /\ At(C, BehindOf(t), 0, k, 0)
  BY <1>1, NextLemma
<1>5. C[k].kids \in Seq(Elements)
  BY <1>4, FileLemma, OuterLemma
<1>6. DOMAIN o = DOMAIN GlobalOptions /\ o = AllSay(GlobalOptions, C, UpTo(P, k - 1), U)
  <2>1. o = AllSay(GlobalOptions, C, UpTo(P, i), U)
    BY <1>3 DEF OptionsSoFar
  <2>2. DOMAIN o = DOMAIN GlobalOptions
    BY <2>1 DEF AllSay
  <2> QED BY <1>2, <2>1, <2>2
<1>7. o = [x \in DOMAIN o |-> o[x]]
  BY <1>6 DEF AllSay
<1> DEFINE s == [x \in DOMAIN o |-> IF x \in DOMAIN GlobalOptions
                                    THEN Says(GlobalOptions, C[k].kids, o)[x] ELSE o[x]]
<1>8. IF IsGood(GlobalOptions, C[k].kids) THEN r = Fine(s) ELSE r.err
  <2>1. DOMAIN GlobalOptions \subseteq DOMAIN o
    BY <1>6
  <2> DEFINE q == C[k].kids
  <2>2. r = Scalars(GlobalOptions, o, q)
    BY <1>4
  <2> HIDE DEF q, r, k
  <2> QED BY <1>5, <1>7, <2>1, <2>2, ScalarsLemma DEF q
<1>9. s = a
  <2>1. ASSUME NEW x \in DOMAIN GlobalOptions PROVE s[x] = a[x]
    <3>1. o[x] = AllSay(GlobalOptions, C, UpTo(P, k - 1), U)[x]
      BY <1>6
    <3>2. Says(GlobalOptions, C[k].kids, o)[x] = a[x]
      <4> HIDE DEF C, P, U, k, s
      <4> QED BY <1>2, <1>4, <3>1, SectionLemma
    <3> QED BY <1>6, <3>2
  <2>2. s = [x \in DOMAIN GlobalOptions |-> s[x]] /\ a = [x \in DOMAIN GlobalOptions |-> a[x]]
    BY <1>6 DEF AllSay
  <2> HIDE DEF s, a
  <2> QED BY <2>1, <2>2
<1>10. CASE ~ IsGood(GlobalOptions, C[k].kids)
  <2>1. r.err
    BY <1>8, <1>10
  <2>2. ~ IsGoodFile
    BY <1>4, <1>10 DEF IsGoodFile
  <2> QED BY <2>1, <2>2
<1>11. CASE IsGood(GlobalOptions, C[k].kids)
  <2>1. ~ r.err /\ r.conf = a
    <3> HIDE DEF r, s, a
    <3> QED BY <1>8, <1>9, <1>11 DEF Fine
  <2>2. OptionsSoFar(k, a)
    <3>1. \A x \in UpTo(P, k) : x = k \/ x \in UpTo(P, i)
      <4>1. \A x \in 1..k : x = k \/ x \in 1..i
        BY <1>2
      <4> QED BY <4>1 DEF UpTo
    <3>2. \A x \in UpTo(P, i) : IsGood(GlobalOptions, C[x].kids)
      BY <1>3 DEF OptionsSoFar
    <3> HIDE DEF k, P
    <3>3. \A x \in UpTo(P, k) : IsGood(GlobalOptions, C[x].kids)
      BY <1>11, <3>1, <3>2
    <3> QED BY <3>3 DEF OptionsSoFar, P
  <2>3. SoFar(k, 0) = SoFar(i, j)
    BY <1>2, <1>4, SoFarLemma
  <2> HIDE DEF a, r
  <2>4. Read(BehindOf(t), a, ps, k, 0)
    BY <1>3, <1>4, <2>2, <2>3 DEF Read
  <2> QED BY <2>1, <2>4 DEF r
<1> QED BY <1>10, <1>11

(* A section for a pool. *)
LEMMA ReadPool ==
  ASSUME FileIs, NEW t, NEW o, NEW ps, ps \in Seq(ToSet(ps)), NEW i, NEW j, Read(t, o, ps, i, j),
         t # <<>>, IsPool(Head(t))
  PROVE  LET r == PoolSection(Head(t).el.kids)
             q == [config |-> r.conf, domain |-> Null, is_template |-> FALSE]
         IN  IF r.err THEN ~ IsGoodFile ELSE Read(BehindOf(t), o, Append(ps, q), i, j + 1)
<1> DEFINE C == Configuration
           p == C[i].kids[j + 1]
           r == PoolSection(p.kids)
           q == [config |-> r.conf, domain |-> Null, is_template |-> FALSE]
           s == SoFar(i, j)
<1>1. PICK d : At(C, t, d, i, j)
  BY DEF Read
<1>2. /\ i \in 0..Len(C) /\ j \in 0..Within(C, i)
  BY PlacedAt
<1>3. OptionsSoFar(i, o) /\ PoolsAre(ps, s) /\ AreGood(s)
  BY DEF Read
<1>4. /\ i \in 1..Len(C) /\ j + 1 \in 1..Within(C, i) /\ IsThere(i) /\ j + 1 \in PoolPlaces
      /\ Head(t).el = p /\ \E e : At(C, BehindOf(t), e, i, j + 1)
  BY <1>1, NextLemma
<1>5. p \in Elements /\ p \in ToSet(PoolSections) /\ p.kids \in Seq(Elements)
  <2>1. p \in Elements /\ p \in ToSet(PoolSections)
    BY <1>4, PlacedLemma
  <2> QED BY <2>1, ConfAssumption
<1>6. SoFar(i, j + 1) = Append(s, p) /\ s \in Seq(Elements)
  BY <1>2, <1>4, SoFarLemma
<1>7. IF IsGoodPool(p.kids) THEN r = Fine(SaysPool(p.kids)) ELSE r.err
  BY <1>5, PoolLemma
<1>8. CASE ~ IsGoodPool(p.kids)
  <2>1. ~ IsGoodFile
    BY <1>5, <1>8 DEF IsGoodFile
  <2> QED BY <1>4, <1>7, <1>8, <2>1
<1>9. CASE IsGoodPool(p.kids)
  <2>1. ~ r.err /\ r.conf = SaysPool(p.kids) /\ q.config = SaysPool(p.kids)
    BY <1>7, <1>9 DEF Fine
  <2> HIDE DEF q, p, s
  <2> DEFINE T == ToSet(ps) \cup {q}
             as == Append(s, p)
             aq == Append(ps, q)
  <2>2. /\ Len(aq) = Len(ps) + 1 /\ Len(ps) \in Nat
        /\ \A x \in 1..Len(ps) : aq[x] = ps[x]
        /\ aq[Len(ps) + 1] = q
    <3>1. ps \in Seq(T) /\ q \in T
      OBVIOUS
    <3> HIDE DEF T
    <3> QED BY <3>1, AppendedLemma
  <2>3. /\ Len(as) = Len(s) + 1 /\ Len(s) \in Nat
        /\ \A x \in 1..Len(s) : as[x] = s[x]
        /\ as[Len(s) + 1] = p
        /\ ToSet(as) = ToSet(s) \cup {p}
    BY <1>5, <1>6, AppendedLemma
  <2> HIDE DEF aq, as, T
  <2>4. PoolsAre(aq, as)
    <3>1. Len(ps) = Len(s) /\ \A x \in 1..Len(s) : ps[x].config = SaysPool(s[x].kids)
      BY <1>3 DEF PoolsAre
    <3>2. ASSUME NEW x \in 1..Len(as) PROVE aq[x].config = SaysPool(as[x].kids)
      <4>1. x \in 1..Len(s) \/ x = Len(s) + 1
        BY <2>3
      <4>2. CASE x \in 1..Len(s)
        BY <2>2, <2>3, <3>1, <4>2
      <4>3. CASE x = Len(s) + 1
        <5>1. aq[x] = q /\ as[x] = p
          BY <2>2, <2>3, <3>1, <4>3
        <5> QED BY <2>1, <5>1
      <4> QED BY <4>1, <4>2, <4>3
    <3> QED BY <2>2, <2>3, <3>1, <3>2 DEF PoolsAre
  <2>5. AreGood(as)
    BY <1>3, <1>9, <2>3 DEF AreGood
  <2>6. Read(BehindOf(t), o, aq, i, j + 1)
    BY <1>3, <1>4, <1>6, <2>4, <2>5 DEF Read, as
  <2> QED BY <1>4, <2>1, <2>6 DEF p, q, aq
<1> QED BY <1>8, <1>9

(* The file itself has been read: what follows is below it. *)
LEMMA ReadStart ==
  ASSUME FileIs
  PROVE  LET t == Visits(file, <<>>)
         IN  /\ t # <<>> /\ ~ IsGlobal(Head(t)) /\ ~ IsPool(Head(t))
             /\ Read(BehindOf(t), Unset(GlobalOptions), <<>>, 0, 0)
<1> DEFINE C == Configuration
           t == Visits(file, <<>>)
           u == BehindOf(t)
<1>1. /\ C \in Seq(Elements) /\ GlobalPath \in Seq(AnySteps)
      /\ t \in Seq(AnyVisits) /\ Len(t) = 1
      /\ t[1].parent = <<>> /\ t[1].own = GlobalPath /\ t[1].el.kids = C
  BY FileLemma
<1> HIDE DEF t, C
<1>2. t # <<>>
  <2>1. Len(<<>>) = 0
    OBVIOUS
  <2>2. Len(t) # 0
    BY <1>1
  <2> QED BY ONLY <2>1, <2>2, Zenon
<1>3. Head(t) = t[1]
  BY <1>1, <1>2, BehindLemma
<1>4. ~ IsGlobal(Head(t)) /\ ~ IsPool(Head(t))
  <2>1. <<>> # GlobalPath /\ <<>> # PoolPath
    BY DEF GlobalPath, PoolPath
  <2> QED BY <1>1, <1>3, <2>1 DEF IsGlobal, IsPool
<1>5. /\ Len(C) \in Nat /\ Len(Outer(C)) = Len(C) /\ Len(u) = Len(C)
      /\ u \in Seq(AnyVisits)
      /\ \A x \in 1..Len(C) : u[x] = Outer(C)[x]
  <2>1. Len(C) \in Nat /\ Len(Outer(C)) = Len(C)
    BY <1>1, OuterLemma
  <2>2. /\ u \in Seq(AnyVisits) /\ Len(u) = Len(Head(t).el.kids) + Len(t) - 1
        /\ \A x \in 1..Len(Head(t).el.kids) : u[x] = Visits(Head(t).el.kids, Head(t).own)[x]
    BY <1>1, <1>2, BehindLemma
  <2> HIDE DEF u
  <2> QED BY <1>1, <1>3, <2>1, <2>2 DEF Outer
<1>6. At(C, u, 0, 0, 0)
  <2> HIDE DEF u
  <2>1. Within(C, 0) = 0
    BY DEF Within
  <2>2. /\ 0 \in 0..Len(C) /\ 0 \in 0..0 /\ Len(u) = 0 + (0 - 0) + (Len(C) - 0)
        /\ 1..0 = {} /\ 0 - 0 = 0 /\ Len(C) - 0 = Len(C)
        /\ \A x \in 1..Len(C) : 0 + (0 - 0) + x = x /\ 0 + x = x
    BY <1>5
  <2>3. \A x \in 1..Len(C) - 0 : u[0 + (0 - 0) + x] = Outer(C)[0 + x]
    BY <1>5, <2>2
  <2> QED BY <1>5, <2>1, <2>2, <2>3 DEF At
<1>7. OptionsSoFar(0, Unset(GlobalOptions))
  <2> DEFINE U == Unset(GlobalOptions)
             a == AllSay(GlobalOptions, Configuration, UpTo(GlobalSections, 0), U)
  <2>1. \A o \in DOMAIN GlobalOptions : a[o] = U[o]
    BY AllSayNone
  <2>2. a = [o \in DOMAIN GlobalOptions |-> a[o]]
    BY DEF AllSay
  <2>3. U = [o \in DOMAIN GlobalOptions |-> U[o]]
    BY DEF Unset
  <2> HIDE DEF a, U
  <2>4. a = U
    BY <2>1, <2>2, <2>3
  <2> QED BY <2>4, NoPlaces DEF OptionsSoFar, a, U
<1>8. PoolsAre(<<>>, SoFar(0, 0)) /\ AreGood(SoFar(0, 0))
  <2>1. SoFar(0, 0) = <<>>
    <3>1. 0 \in 0..Len(Configuration) /\ 0 \in 0..Within(Configuration, 0)
      BY <1>5 DEF Within, C
    <3> QED BY <3>1, SoFarLemma
  <2>2. ToSet(<<>>) = {}
    BY DEF ToSet
  <2> QED BY <2>1, <2>2 DEF PoolsAre, AreGood
<1> QED BY <1>2, <1>4, <1>6, <1>7, <1>8 DEF Read, t, C

(* All of it has been read. *)
LEMMA ReadEnd ==
  ASSUME FileIs, NEW o, NEW ps, NEW i, NEW j, Read(<<>>, o, ps, i, j)
  PROVE  /\ IsGoodFile /\ PoolsAre(ps, PoolSections)
         /\ o = AllSay(GlobalOptions, Configuration, GlobalSections, Unset(GlobalOptions))
<1>1. Configuration \in Seq(Elements) /\ GlobalPath \in Seq(AnySteps)
  BY FileLemma
<1>2. /\ i = Len(Configuration) /\ j = Within(Configuration, i)
      /\ i \in 0..Len(Configuration) /\ j \in 0..Within(Configuration, i)
  BY <1>1, OverLemma, PlacedAt DEF Read
<1>3. SoFar(i, j) = PoolSections
  BY <1>2, SoFarLemma
<1>4. UpTo(GlobalSections, i) = GlobalSections
  <2>1. GlobalSections \subseteq 1..Len(Configuration)
    BY <1>1, LenProperties DEF GlobalSections, Sections
  <2> QED BY <1>2, <2>1, AllPlaces
<1> QED BY <1>3, <1>4 DEF Read, OptionsSoFar, AreGood, IsGoodFile

(* The file does not change. *)
LEMMA FileStays ==
  ASSUME file' = file
  PROVE  /\ FileIs => FileIs'
         /\ Configuration' = Configuration /\ GlobalSections' = GlobalSections
         /\ PoolSections' = PoolSections /\ IsGoodFile' = IsGoodFile
         /\ \A i, j : SoFar(i, j)' = SoFar(i, j)
<1>1. Configuration' = Configuration
  BY DEF Configuration
<1>2. GlobalSections' = GlobalSections
  BY <1>1 DEF GlobalSections
<1>3. WorkersAt' = WorkersAt
  BY <1>1 DEF WorkersAt
<1>4. InWorkers' = InWorkers
  BY <1>1, <1>3 DEF InWorkers
<1>5. PoolPlaces' = PoolPlaces
  BY <1>4 DEF PoolPlaces
<1>6. PoolSections' = PoolSections
  BY <1>3, <1>4 DEF PoolSections
<1>7. IsGoodFile' = IsGoodFile
  BY <1>1, <1>2, <1>6 DEF IsGoodFile
<1>8. \A i, j : SoFar(i, j)' = SoFar(i, j)
  BY <1>3, <1>4, <1>5 DEF SoFar
<1>9. FileIs => FileIs'
  BY DEF FileIs
<1> QED BY <1>1, <1>2, <1>6, <1>7, <1>8, <1>9

LEMMA ReadStays ==
  ASSUME file' = file, NEW i, NEW j, Read(todo', options', pools', i, j)
  PROVE  LoadInv'
<1>1. /\ Configuration' = Configuration /\ GlobalSections' = GlobalSections
      /\ SoFar(i, j)' = SoFar(i, j)
  BY FileStays
<1>2. /\ \E d : At(Configuration, todo', d, i, j)
      /\ OptionsSoFar(i, options')
      /\ PoolsAre(pools', SoFar(i, j)) /\ AreGood(SoFar(i, j))
  BY DEF Read
<1>3. (\E d : At(Configuration, todo, d, i, j))'
  BY <1>1, <1>2
<1>4. OptionsSoFar(i, options)'
  BY <1>1, <1>2 DEF OptionsSoFar
<1>5. PoolsAre(pools, SoFar(i, j))' /\ AreGood(SoFar(i, j))'
  BY <1>1, <1>2
<1>6. Read(todo, options, pools, i, j)'
  BY <1>3, <1>4, <1>5 DEF Read
<1> QED BY <1>6 DEF LoadInv

-----------------------------------------------------------------------------
LoadedOptions ==
  [AllSay(GlobalOptions, Configuration, GlobalSections, Unset(GlobalOptions))
     EXCEPT !.error_log = IF @ = Null THEN DefaultLog ELSE @]

(* While the file is gone through, what was read of it is what the part that was
   gone through says; after that, what all of it says. *)
WrittenInv ==
  /\ FileIs /\ stage \in {"load", "pools", "ready", "failed"}
  /\ stage = "load" => LoadInv
  /\ stage \in {"pools", "ready"} =>
       IsGoodFile /\ options = LoadedOptions /\ PoolsAre(pools, PoolSections)
  /\ stage = "failed" /\ IsGoodFile => options.error_log # Null

LEMMA LoadedOptionsLemma == LoadedOptions.error_log # Null
<1> DEFINE a == AllSay(GlobalOptions, Configuration, GlobalSections, Unset(GlobalOptions))
           x == IF a.error_log = Null THEN DefaultLog ELSE a.error_log
<1>1. "error_log" \in DOMAIN a
  BY DEF AllSay, GlobalOptions
<1>2. LoadedOptions = [a EXCEPT !.error_log = x]
  BY DEF LoadedOptions
<1>3. x # Null
  BY DefaultLogAssumption
<1> HIDE DEF a, x
<1>4. LoadedOptions.error_log = x
  BY <1>1, <1>2
<1> QED BY <1>3, <1>4

LEMMA WrittenInit == ConfInit => WrittenInv
<1> SUFFICES ASSUME ConfInit PROVE WrittenInv
  OBVIOUS
<1>1. FileIs
  BY DEF ConfInit, FileIs
<1>2. stage = "load" /\ LoadInv
  BY DEF ConfInit, LoadInv
<1> QED BY <1>1, <1>2 DEF WrittenInv

LEMMA WrittenGlobal == ConfInv /\ WrittenInv /\ LoadGlobal => WrittenInv'
<1> SUFFICES ASSUME WrittenInv, LoadGlobal PROVE WrittenInv'
  OBVIOUS
<1> DEFINE r == Scalars(GlobalOptions, options, Head(todo).el.kids)
<1>1. /\ stage = "load" /\ todo # <<>> /\ IsGlobal(Head(todo)) /\ FileIs /\ LoadInv
      /\ options' = r.conf /\ stage' = (IF r.err THEN "failed" ELSE stage)
      /\ todo' = (IF r.err THEN <<>> ELSE BehindOf(todo))
      /\ file' = file /\ pools' = pools
  BY DEF LoadGlobal, Loading, Onward, Behind, BehindOf, WrittenInv
<1>2. PICK i, j : Read(todo, options, pools, i, j)
  BY <1>1, ReadStart DEF LoadInv
<1>3. IF r.err THEN ~ IsGoodFile ELSE Read(BehindOf(todo), r.conf, pools, i + 1, 0)
  BY <1>1, <1>2, ReadGlobal
<1>4. FileIs' /\ IsGoodFile' = IsGoodFile
  BY <1>1, FileStays
<1> HIDE DEF r
<1>5. CASE r.err
  BY <1>1, <1>3, <1>4, <1>5 DEF WrittenInv
<1>6. CASE ~ r.err
  <2>1. Read(todo', options', pools', i + 1, 0)
    BY <1>1, <1>3, <1>6
  <2>2. LoadInv' /\ stage' = "load"
    BY <1>1, <1>6, <2>1, ReadStays
  <2> QED BY <1>4, <2>2 DEF WrittenInv
<1> QED BY <1>5, <1>6

LEMMA WrittenPool == ConfInv /\ WrittenInv /\ LoadPool => WrittenInv'
<1> SUFFICES ASSUME ConfInv, WrittenInv, LoadPool PROVE WrittenInv'
  OBVIOUS
<1> DEFINE r == PoolSection(Head(todo).el.kids)
           q == [config |-> r.conf, domain |-> Null, is_template |-> FALSE]
<1>1. /\ stage = "load" /\ todo # <<>> /\ IsPool(Head(todo)) /\ FileIs /\ LoadInv
      /\ pools' = Append(pools, q) /\ stage' = (IF r.err THEN "failed" ELSE stage)
      /\ todo' = (IF r.err THEN <<>> ELSE BehindOf(todo))
      /\ file' = file /\ options' = options
  BY DEF LoadPool, Loading, Onward, Behind, BehindOf, WrittenInv
<1>2. PICK i, j : Read(todo, options, pools, i, j)
  BY <1>1, ReadStart DEF LoadInv
<1>3. IF r.err THEN ~ IsGoodFile ELSE Read(BehindOf(todo), options, Append(pools, q), i, j + 1)
  <2>1. pools \in Seq(ToSet(pools))
    BY DEF ConfInv
  <2> QED BY <1>1, <1>2, <2>1, ReadPool
<1>4. FileIs' /\ IsGoodFile' = IsGoodFile
  BY <1>1, FileStays
<1> HIDE DEF r, q
<1>5. CASE r.err
  BY <1>1, <1>3, <1>4, <1>5 DEF WrittenInv
<1>6. CASE ~ r.err
  <2>1. Read(todo', options', pools', i, j + 1)
    BY <1>1, <1>3, <1>6
  <2>2. LoadInv' /\ stage' = "load"
    BY <1>1, <1>6, <2>1, ReadStays
  <2> QED BY <1>4, <2>2 DEF WrittenInv
<1> QED BY <1>5, <1>6

LEMMA WrittenPass == WrittenInv /\ PassOver => WrittenInv'
<1> SUFFICES ASSUME WrittenInv, PassOver PROVE WrittenInv'
  OBVIOUS
<1>1. /\ stage = "load" /\ todo # <<>> /\ ~ IsGlobal(Head(todo)) /\ ~ IsPool(Head(todo))
      /\ FileIs /\ LoadInv /\ stage' = "load" /\ todo' = BehindOf(todo)
      /\ UNCHANGED <<file, options, pools>>
  BY DEF PassOver, Loading, Onward, Behind, BehindOf, WrittenInv
<1>2. \E i, j : Read(todo', options', pools', i, j)
  <2>1. CASE todo = Visits(file, <<>>) /\ options = Unset(GlobalOptions) /\ pools = <<>>
    <3>1. Read(BehindOf(todo), options, pools, 0, 0)
      BY <1>1, <2>1, ReadStart
    <3> QED BY <1>1, <3>1
  <2>2. CASE \E i, j : Read(todo, options, pools, i, j)
    <3>1. \E i, j : Read(BehindOf(todo), options, pools, i, j)
      BY <1>1, <2>2, ReadPass
    <3> QED BY <1>1, <3>1
  <2> QED BY <1>1, <2>1, <2>2 DEF LoadInv
<1>3. LoadInv' /\ FileIs'
  BY <1>1, <1>2, ReadStays, FileStays
<1> QED BY <1>1, <1>3 DEF WrittenInv

LEMMA WrittenLoaded ==
  ASSUME WrittenInv, NEW opens \in BOOLEAN, Loaded(opens)
  PROVE  WrittenInv'
<1> DEFINE a == AllSay(GlobalOptions, Configuration, GlobalSections, Unset(GlobalOptions))
<1>1. /\ stage = "load" /\ todo = <<>> /\ FileIs /\ LoadInv
      /\ options' = [options EXCEPT !.error_log = IF @ = Null THEN DefaultLog ELSE @]
      /\ stage' \in {"pools", "failed"} /\ UNCHANGED <<file, pools>>
  BY DEF Loaded, WrittenInv
<1>2. PICK i, j : Read(<<>>, options, pools, i, j)
  BY <1>1, ReadStart DEF LoadInv
<1>3. IsGoodFile /\ PoolsAre(pools, PoolSections) /\ options = a
  BY <1>1, <1>2, ReadEnd
<1>4. options' = LoadedOptions
  BY <1>1, <1>3 DEF LoadedOptions
<1>5. /\ FileIs' /\ IsGoodFile' = IsGoodFile /\ Configuration' = Configuration
      /\ GlobalSections' = GlobalSections /\ PoolSections' = PoolSections
  BY <1>1, FileStays
<1>6. LoadedOptions' = LoadedOptions
  BY <1>5 DEF LoadedOptions
<1>7. options'.error_log # Null
  BY <1>4, LoadedOptionsLemma
<1>8. PoolsAre(pools, PoolSections)'
  BY <1>1, <1>3, <1>5
<1> QED BY <1>1, <1>3, <1>4, <1>5, <1>6, <1>7, <1>8 DEF WrittenInv

(* What is not of the file leaves what was read of it. *)
LEMMA WrittenKept ==
  ASSUME WrittenInv, UNCHANGED <<file, options>>,
         stage = "pools" /\ stage' \in {"pools", "ready", "failed"},
         PoolsAre(pools', PoolSections)
  PROVE  WrittenInv'
<1>1. /\ FileIs' /\ IsGoodFile' = IsGoodFile /\ Configuration' = Configuration
      /\ GlobalSections' = GlobalSections /\ PoolSections' = PoolSections
  BY FileStays DEF WrittenInv
<1>2. LoadedOptions' = LoadedOptions
  BY <1>1 DEF LoadedOptions
<1>3. IsGoodFile /\ options = LoadedOptions
  BY DEF WrittenInv
<1>4. PoolsAre(pools, PoolSections)'
  BY <1>1
<1>5. options' = LoadedOptions' /\ options'.error_log # Null
  BY <1>2, <1>3, LoadedOptionsLemma
<1> QED BY <1>1, <1>3, <1>4, <1>5 DEF WrittenInv

LEMMA WrittenCompletes ==
  ASSUME ConfInv, WrittenInv, NEW opens \in BOOLEAN, Complete(opens)
  PROVE  WrittenInv'
<1> DEFINE done == Completed(pools[nth])
<1>1. /\ stage = "pools" /\ pools \in Seq(ToSet(pools)) /\ nth \in 1..Len(pools)
      /\ pools' = [pools EXCEPT ![nth] = done]
      /\ stage' \in {"pools", "failed"} /\ UNCHANGED <<file, options>>
      /\ PoolsAre(pools, PoolSections)
  <2>1. nth \in Nat \ {0} /\ nth <= Len(pools) /\ pools \in Seq(ToSet(pools))
    BY DEF ConfInv, Complete
  <2>2. Len(pools) \in Nat
    BY <2>1, LenProperties
  <2> QED BY <2>1, <2>2 DEF Complete, WrittenInv
<1>2. done.config = pools[nth].config
  <2>1. pools[nth] \in ToSet(pools)
    BY <1>1, ElementOfSeq
  <2>2. IsPoolRecord(pools[nth])
    BY <2>1 DEF ConfInv
  <2> QED BY <2>2, CompletedLemma
<1> HIDE DEF done
<1>3. DOMAIN pools = 1..Len(pools) /\ Len(pools) \in Nat
  BY <1>1, LenProperties
<1>4. Len(pools') = Len(pools)
  BY <1>1, <1>3
<1>5. \A i \in 1..Len(pools) : pools'[i].config = pools[i].config
  BY <1>1, <1>2, <1>3
<1>6. PoolsAre(pools', PoolSections)
  BY <1>1, <1>4, <1>5 DEF PoolsAre
<1> QED BY <1>1, <1>6, WrittenKept

LEMMA WrittenStep == ConfInv /\ WrittenInv /\ [ConfNext]_confVars => WrittenInv'
<1> SUFFICES ASSUME ConfInv, WrittenInv, [ConfNext]_confVars PROVE WrittenInv'
  OBVIOUS
<1>1. CASE LoadGlobal
  BY <1>1, WrittenGlobal
<1>2. CASE LoadPool
  BY <1>2, WrittenPool
<1>3. CASE PassOver
  BY <1>3, WrittenPass
<1>4. ASSUME NEW opens \in BOOLEAN, Loaded(opens) PROVE WrittenInv'
  BY <1>4, WrittenLoaded
<1>5. ASSUME NEW opens \in BOOLEAN, Complete(opens) PROVE WrittenInv'
  BY <1>5, WrittenCompletes
<1>6. CASE AllComplete
  <2>1. /\ UNCHANGED <<file, options, pools>> /\ stage = "pools" /\ stage' = "ready"
        /\ PoolsAre(pools, PoolSections)
    BY <1>6 DEF AllComplete, WrittenInv
  <2> QED BY <2>1, WrittenKept
<1>7. CASE UNCHANGED confVars
  <2>1. UNCHANGED <<file, todo, options, pools, stage>>
    BY <1>7 DEF confVars
  <2>2. /\ FileIs' /\ IsGoodFile' = IsGoodFile /\ Configuration' = Configuration
        /\ GlobalSections' = GlobalSections /\ PoolSections' = PoolSections
    BY <2>1, FileStays DEF WrittenInv
  <2>3. LoadedOptions' = LoadedOptions
    BY <2>2 DEF LoadedOptions
  <2>4. LoadInv => LoadInv'
    <3>1. ASSUME NEW i, NEW j, Read(todo, options, pools, i, j) PROVE LoadInv'
      <4>1. Read(todo', options', pools', i, j)
        BY <2>1, <3>1
      <4> QED BY <2>1, <4>1, ReadStays
    <3>2. CASE todo = Visits(file, <<>>) /\ options = Unset(GlobalOptions) /\ pools = <<>>
      BY <2>1, <3>2 DEF LoadInv
    <3> QED BY <3>1, <3>2 DEF LoadInv
  <2> QED BY <2>1, <2>2, <2>3, <2>4 DEF WrittenInv
<1> QED BY <1>1, <1>2, <1>3, <1>4, <1>5, <1>6, <1>7 DEF ConfNext

(* The configuration is what the file says, for every file an administrator may
   write: whatever is given twice, left out or in another order, and wherever
   other elements stand between; and only a file with a value that no parser
   accepts is refused while it is read. *)
THEOREM ConfLoadedAsWritten == ConfSpec => []LoadedAsWritten
<1>1. ConfInv /\ WrittenInv => LoadedAsWritten
  <2> SUFFICES ASSUME ConfInv, WrittenInv PROVE LoadedAsWritten
    OBVIOUS
  <2>1. ASSUME stage \in {"pools", "ready"}
        PROVE  /\ IsGoodFile /\ options = LoadedOptions /\ Len(pools) = Len(PoolSections)
               /\ \A i \in DOMAIN pools : pools[i].config = SaysPool(PoolSections[i].kids)
    <3>1. IsGoodFile /\ options = LoadedOptions /\ PoolsAre(pools, PoolSections)
      BY <2>1 DEF WrittenInv
    <3>2. DOMAIN pools = 1..Len(pools)
      BY LenProperties DEF ConfInv
    <3> QED BY <3>1, <3>2 DEF PoolsAre
  <2>2. stage = "failed" /\ IsGoodFile => options.error_log # Null
    BY DEF WrittenInv
  <2> QED BY <2>1, <2>2 DEF LoadedAsWritten, LoadedOptions
<1>2. ConfInit => ConfInv /\ WrittenInv
  BY ConfInitLemma, WrittenInit
<1>3. ConfInv /\ WrittenInv /\ [ConfNext]_confVars => (ConfInv /\ WrittenInv)'
  BY ConfStep, WrittenStep
<1> QED BY <1>1, <1>2, <1>3, PTL DEF ConfSpec
=============================================================================
