------------------------------- MODULE FpmImages ------------------------------
(***************************************************************************)
(* The images of the master that follow each other: an image reads the     *)
(* configuration, becomes a daemon, takes over the listening sockets that  *)
(* the image before passed on in FPM_SOCKETS, opens those that are new,    *)
(* closes the rest and writes the pid file; it ends by a reload (execvp),  *)
(* an exit, a failed initialisation, or a crash.  The steps are those of   *)
(* fpm_init; between them the administrator edits the configuration and    *)
(* other programs bind and leave addresses.  Who orders the reload, and    *)
(* when no worker is left, is in FpmMaster.                                *)
(***************************************************************************)
EXTENDS Integers, Sequences, FiniteSets

CONSTANTS NPools,      \* pools of the configuration, in its order
          Inet, Unix,  \* addresses: of AF_INET, and paths
          Clash,       \* sets of two Inet addresses of which one excludes the other
          Fd,          \* descriptors for listening sockets
          None,
          MaxImages,   \* bound: images that begin
          MaxEdits     \* bound: edits of the configuration

Addr == Inet \cup Unix

(* A socket: its address, and the image that opened it to tell it from others. *)
Socket == [key : Addr, by : 1..MaxImages]

ASSUME ImagesAssumption ==
  /\ NPools \in Nat \ {0} /\ MaxImages \in Nat /\ MaxEdits \in Nat
  /\ Inet \cap Unix = {} /\ None \notin Addr \cup Fd \cup Socket
  /\ Clash \subseteq SUBSET Inet
  /\ IsFiniteSet(Fd) /\ Cardinality(Fd) >= 2 * NPools

Pool == 1..NPools

VARIABLES
  pc,            \* the step of fpm_init, or "run", or "off"
  config,        \* the configuration file: the address of each pool
  conf,          \* listen_address of the pools, as this image read it
  sockets_list,  \* records of the address (key), the descriptor and refcount
  at,            \* the pool or the entry of sockets_list that is next
  listening,     \* listening_socket of the pools
  env,           \* FPM_SOCKETS: entries <<key, fd>>
  pid,           \* of the process
  parent_pid,    \* fpm_globals.parent_pid
  pidfile,       \* the process id in the pid file; 0: it is empty; -1: there is none
  fds,           \* the sockets the process has open, by descriptor
  path,          \* the socket each path leads to
  busy,          \* Inet addresses that other processes have bound
  images, edits, \* images begun, edits made
  served,        \* ghost: the sockets of the image before, if it was reloaded
  failed         \* ghost: some image crashed or failed in between

who    == <<pid, parent_pid>>
image  == <<pc, conf, sockets_list, at, listening, env, who>>
system == <<pidfile, fds, path, busy>>
past   == <<images, served, failed>>
admin  == <<config, edits>>
vars   == <<image, system, past, admin>>

(* An entry of the table. *)
Entry  == [key : Addr, sock : Fd, refcount : 0..NPools]

NoFile == -1

Open == {fd \in Fd : fds[fd] # None}

TypeOK ==
  /\ pc \in {"off", "conf", "daemonize", "import", "listen", "unused", "creat", "write",
             "run"}
  /\ config \in [Pool -> Addr \cup {None}] /\ conf \in [Pool -> Addr \cup {None}]
  /\ sockets_list \in Seq(Entry) /\ at \in Nat
  /\ listening \in [Pool -> Fd \cup {None}]
  /\ env \in Seq(Addr \X Fd)
  /\ pid \in Nat /\ parent_pid \in 0..pid /\ pidfile \in NoFile..pid
  /\ fds \in [Fd -> Socket \cup {None}] /\ path \in [Unix -> Socket \cup {None}]
  /\ busy \subseteq Inet
  /\ images \in 0..MaxImages /\ edits \in 0..MaxEdits
  /\ served \subseteq Socket /\ failed \in BOOLEAN

NoConf == [p \in Pool |-> None]

Init ==
  /\ pc = "off" /\ config \in [Pool -> Addr \cup {None}] /\ conf = NoConf
  /\ sockets_list = <<>> /\ at = 0 /\ listening = NoConf /\ env = <<>>
  /\ pid = 0 /\ parent_pid = 0 /\ pidfile = NoFile
  /\ fds = [fd \in Fd |-> None] /\ path = [u \in Unix |-> None] /\ busy = {}
  /\ images = 0 /\ edits = 0 /\ served = {} /\ failed = FALSE

-----------------------------------------------------------------------------
(* The administrator and other programs. *)
EditConfig ==
  /\ edits < MaxEdits
  /\ \E p \in Pool, a \in Addr \cup {None} :
       config[p] # a /\ config' = [config EXCEPT ![p] = a]
  /\ edits' = edits + 1
  /\ UNCHANGED <<image, system, past>>

Keys == {fds[fd].key : fd \in Open}

(* a and some address of A cannot both be bound *)
Excluded(a, A) == a \in A \/ \E b \in A : {a, b} \in Clash

OthersBind(a) ==
  /\ ~ Excluded(a, busy \cup Keys)
  /\ busy' = busy \cup {a}
  /\ UNCHANGED <<image, pidfile, fds, path, admin, past>>

OthersLeave(a) ==
  /\ a \in busy
  /\ busy' = busy \ {a}
  /\ UNCHANGED <<image, pidfile, fds, path, admin, past>>

-----------------------------------------------------------------------------
(* The process ends: the kernel closes its sockets. *)
Ends ==
  /\ pc' = "off" /\ conf' = NoConf /\ sockets_list' = <<>> /\ at' = 0
  /\ listening' = NoConf /\ env' = <<>>
  /\ fds' = [fd \in Fd |-> None]
  /\ served' = {} /\ parent_pid' = 0
  /\ UNCHANGED <<pid, admin, images>>

(* fpm_init returns an error, and main ends; files stay. *)
Fails == Ends /\ failed' = TRUE /\ UNCHANGED <<path, pidfile, busy>>

(* startfpm *)
Start ==
  /\ pc = "off" /\ images < MaxImages
  /\ pc' = "conf" /\ images' = images + 1 /\ pid' = pid + 1
  /\ UNCHANGED <<conf, sockets_list, at, listening, env, parent_pid, system, admin, served, failed>>

(* fpm_conf_init_main; the file may be invalid, and has at least one pool *)
LoadConf ==
  /\ pc = "conf"
  /\ pc' = "daemonize" /\ conf' = config
  /\ UNCHANGED <<sockets_list, at, listening, env, who, system, admin, past>>

(* Mutant: the process id is taken before the fork. *)
PidOfMasterEarly == pid

(* getpid, after the fork *)
PidOfMaster == pid'

(* fpm_unix_init_main: the parent exits, its child goes on with another process
   id and the same sockets; without daemonize nothing happens *)
Daemonize ==
  /\ pc = "daemonize"
  /\ pc' = "import"
  /\ pid' \in {pid, pid + 1}
  /\ parent_pid' = PidOfMaster
  /\ UNCHANGED <<conf, sockets_list, at, listening, env, system, admin, past>>

(* Mutant: FPM_SOCKETS is read up to the first comma. *)
InheritedFirst(e) ==
  [i \in DOMAIN e \cap {1} |-> [key |-> e[i][1], sock |-> e[i][2], refcount |-> 0]]

(* Mutant: an inherited socket counts as used, as one just created does. *)
InheritedUsed(e) == [i \in DOMAIN e |-> [key |-> e[i][1], sock |-> e[i][2], refcount |-> 1]]

(* FPM_STORE_SOCKET for every entry *)
Inherited(e) == [i \in DOMAIN e |-> [key |-> e[i][1], sock |-> e[i][2], refcount |-> 0]]

(* fpm_sockets_init_main, first loop *)
Import ==
  /\ pc = "import"
  /\ sockets_list' = Inherited(env)
  /\ pc' = "listen" /\ at' = 1
  /\ UNCHANGED <<conf, listening, env, who, system, admin, past>>

-----------------------------------------------------------------------------
(* fpm_sockets_init_main, second loop: a socket for each pool *)
Wanted == conf[at]

NextPool == at' = at + 1

AtPool == pc = "listen" /\ at \in Pool

(* a pool without an address is a template *)
SkipTemplate ==
  /\ AtPool /\ Wanted = None
  /\ NextPool
  /\ UNCHANGED <<pc, conf, sockets_list, listening, env, who, system, admin, past>>

(* Mutant: the user of a socket that is already there is not counted. *)
UsedUncounted(i) == sockets_list

(* FPM_GET_USE_SOCKET *)
Used(i) == [sockets_list EXCEPT ![i].refcount = @ + 1]

UseSocket(i) ==
  /\ AtPool /\ i \in DOMAIN sockets_list /\ sockets_list[i].key = Wanted
  /\ sockets_list' = Used(i)
  /\ listening' = [listening EXCEPT ![at] = sockets_list[i].sock]
  /\ NextPool
  /\ UNCHANGED <<pc, conf, env, who, system, admin, past>>

Known(a) == \E i \in DOMAIN sockets_list : sockets_list[i].key = a

(* bind in fpm_sockets_new_listening_socket: a path is removed first, an address
   that is in use, also by an inherited socket not yet closed, is refused *)
CanBind(a) == a \in Unix \/ ~ Excluded(a, busy \cup Keys)

NewSocket(fd) ==
  /\ AtPool /\ Wanted # None /\ ~ Known(Wanted) /\ CanBind(Wanted)
  /\ fds[fd] = None
  /\ LET s == [key |-> Wanted, by |-> images]
     IN  /\ fds' = [fds EXCEPT ![fd] = s]
         /\ path' = [u \in Unix |-> IF u = Wanted THEN s ELSE path[u]]
  /\ sockets_list' = Append(sockets_list, [key |-> Wanted, sock |-> fd, refcount |-> 1])
  /\ listening' = [listening EXCEPT ![at] = fd]
  /\ NextPool
  /\ UNCHANGED <<pc, conf, env, who, pidfile, busy, admin, past>>

(* socket, bind, chown or listen fails: the pool has no socket *)
NoSocket == AtPool /\ Wanted # None /\ ~ Known(Wanted) /\ Fails

AllHaveSockets ==
  /\ pc = "listen" /\ at = NPools + 1
  /\ pc' = "unused" /\ at' = 1
  /\ UNCHANGED <<conf, sockets_list, listening, env, who, system, admin, past>>

-----------------------------------------------------------------------------
(* fpm_array_item_remove: the last entry takes the place of entry n *)
ItemRemove(s, n) ==
  [i \in 1..Len(s) - 1 |-> IF i = n THEN s[Len(s)] ELSE s[i]]

(* Mutant: the loop goes on behind the entry that took the place. *)
AfterRemovalSkips(i) == i + 1

(* where the loop goes on after entry i is removed *)
AfterRemoval(i) == i

(* fpm_sockets_init_main, third loop: inherited sockets that nobody wants *)
CloseUnused ==
  /\ pc = "unused" /\ at \in DOMAIN sockets_list
  /\ sockets_list[at].refcount = 0
  /\ fds' = [fds EXCEPT ![sockets_list[at].sock] = None]
  /\ path' = [u \in Unix |-> IF u = sockets_list[at].key THEN None ELSE path[u]]
  /\ sockets_list' = ItemRemove(sockets_list, at)
  /\ at' = AfterRemoval(at)
  /\ UNCHANGED <<pc, conf, listening, env, who, pidfile, busy, admin, past>>

KeepUsed ==
  /\ pc = "unused" /\ at \in DOMAIN sockets_list
  /\ sockets_list[at].refcount > 0
  /\ at' = at + 1
  /\ UNCHANGED <<pc, conf, sockets_list, listening, env, who, system, admin, past>>

UnusedClosed ==
  /\ pc = "unused" /\ at = Len(sockets_list) + 1
  /\ pc' = "creat" /\ at' = 0
  /\ UNCHANGED <<conf, sockets_list, listening, env, who, system, admin, past>>

(* fpm_conf_write_pid: an old file is removed and a new one made, then written *)
CreatPid ==
  /\ pc = "creat"
  /\ pidfile' = 0 /\ pc' = "write"
  /\ UNCHANGED <<conf, sockets_list, at, listening, env, who, fds, path, busy, admin, past>>

WritePid ==
  /\ pc = "write"
  /\ pidfile' = parent_pid /\ pc' = "run"
  /\ UNCHANGED <<conf, sockets_list, at, listening, env, who, fds, path, busy, admin, past>>

(* the configuration is invalid, fork or an allocation fails, or the pid file
   cannot be written; when creat fails, the old file has been removed *)
InitFails == pc \in {"conf", "daemonize", "import", "creat", "write"} /\ Fails

CreatFails ==
  /\ pc = "creat"
  /\ pidfile' = NoFile
  /\ Ends /\ failed' = TRUE
  /\ UNCHANGED <<path, busy>>

-----------------------------------------------------------------------------
(* Mutant: the sockets are closed before execvp as before an exit. *)
FdsAfterExecClosed == [fd \in Fd |-> None]

FdsAfterExec == fds

(* fpm_pctl_exec: fpm_sockets_cleanup writes FPM_SOCKETS, and execvp keeps the
   process and its descriptors *)
Exec ==
  /\ pc = "run" /\ images < MaxImages
  /\ env' = [i \in DOMAIN sockets_list |-> <<sockets_list[i].key, sockets_list[i].sock>>]
  /\ pc' = "conf" /\ conf' = NoConf /\ sockets_list' = <<>> /\ listening' = NoConf
  /\ images' = images + 1 /\ parent_pid' = 0
  /\ fds' = FdsAfterExec
  /\ served' = {fds[fd] : fd \in Open}
  /\ UNCHANGED <<at, pid, pidfile, path, busy, admin, failed>>

(* execvp fails: the process exits *)
ExecFails == pc = "run" /\ Fails

(* Mutant: only FPM_CLEANUP_PARENT_EXIT, on which no path is removed. *)
PathsAfterExitKept == path

PathsAfterExit ==
  [u \in Unix |-> IF Known(u) THEN None ELSE path[u]]

(* fpm_pctl_exit: fpm_conf_unlink_pid, then fpm_sockets_cleanup closes the
   sockets and removes their paths *)
Exit ==
  /\ pc = "run"
  /\ pidfile' = NoFile
  /\ path' = PathsAfterExit
  /\ Ends
  /\ UNCHANGED <<busy, failed>>

(* The master is killed while it runs; its workers stay and keep the sockets
   until they end (OthersLeave). *)
Crash ==
  /\ pc = "run"
  /\ busy' = busy \cup (Keys \cap Inet)
  /\ Ends /\ failed' = TRUE
  /\ UNCHANGED <<path, pidfile>>

Next ==
  \/ EditConfig \/ \E a \in Inet : OthersBind(a) \/ OthersLeave(a)
  \/ Start \/ LoadConf \/ Daemonize \/ Import
  \/ SkipTemplate \/ \E i \in DOMAIN sockets_list : UseSocket(i)
  \/ \E fd \in Fd : NewSocket(fd)
  \/ NoSocket \/ AllHaveSockets
  \/ CloseUnused \/ KeepUsed \/ UnusedClosed
  \/ CreatPid \/ WritePid \/ CreatFails \/ InitFails
  \/ Exec \/ ExecFails \/ Exit \/ Crash

Spec == Init /\ [][Next]_vars

-----------------------------------------------------------------------------
Users(a) == {p \in Pool : conf[p] = a}

(* Whatever the sequence of configurations, each pool of a running master has a
   socket bound to the address its configuration names, which clients of that
   address reach, and pools with the same address share it. *)
ListensWhereTold ==
  pc = "run" => \A p \in Pool : conf[p] # None =>
    /\ listening[p] \in Open
    /\ fds[listening[p]].key = conf[p]
    /\ conf[p] \in Unix => path[conf[p]] = fds[listening[p]]

(* A running master has no socket open that no pool uses, its list has each open
   socket once, and its reference count is the number of the pools. *)
NothingLeaks ==
  pc = "run" =>
    /\ {sockets_list[i].sock : i \in DOMAIN sockets_list} = Open
    /\ Cardinality(Open) = Len(sockets_list)
    /\ \A i \in DOMAIN sockets_list :
         LET e == sockets_list[i]
         IN  /\ fds[e.sock].key = e.key
             /\ e.refcount > 0 /\ e.refcount = Cardinality(Users(e.key))

(* A reload loses no client that waits in a socket: an address in the old and the
   new configuration keeps its socket; the path of one that is gone is removed. *)
KeptOverReload ==
  pc = "run" => \A s \in served :
    IF Users(s.key) # {} THEN \E fd \in Open : fds[fd] = s
    ELSE s.key \in Unix => path[s.key] = None

(* Over any sequence of reloads the sockets are those in use: none too many, and
   none exchanged for a new one while its address stays. *)
SocketsAreKept == NothingLeaks /\ KeptOverReload

(* The service script finds the process by the pid file, also when the process id
   changed in a reload, and no old one as long as no image has failed. *)
PidFileTells ==
  /\ pc = "run" => pidfile = pid
  /\ pc = "off" /\ ~ failed => pidfile = NoFile

(* After an exit no path is left to which clients connect in vain. *)
NoPathIsLeft == pc = "off" /\ ~ failed => \A u \in Unix : path[u] = None

(* What a master leaves in the file system for others tells the truth of it, over any
   sequence of reloads and exits. *)
FilesAreTrue == PidFileTells /\ NoPathIsLeft
=============================================================================
