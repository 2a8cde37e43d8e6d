-------------------------------- MODULE FpmConf --------------------------------
(***************************************************************************)
(* The configuration: xml_config.c goes through the elements of the file   *)
(* in their order and gives the values of registered sections to the       *)
(* parsers fpm_conf.c lists for them; then fpm_conf.c completes the pools. *)
(*                                                                         *)
(* An element is a record of its tag, its attribute name and its children; *)
(* a text is one of the tag "text" of which is said what the code looks    *)
(* at: all of it (is), the number it begins with (number), its last letter *)
(* (last), whether it names a path.  The parsers never look at more.       *)
(***************************************************************************)
EXTENDS Integers, SequencesExt

CONSTANTS Null,      \* no attribute name, a NULL pointer, an option not set
          Invalid,   \* what no parser accepts
          Elements   \* the elements an administrator may write, and those in them

ASSUME ConfAssumption ==
  /\ Invalid # Null /\ Null \notin {"unix", "inet"}
  /\ \A e \in Elements : e.kids \in Seq(Elements)

-----------------------------------------------------------------------------
(* The parsers of single values. *)
Boolean(t) ==
  IF t.is \in {"yes", "1", "on"} THEN TRUE
  ELSE IF t.is \in {"no", "0", "off"} THEN FALSE
  ELSE Invalid

Unit == [s |-> 1, m |-> 60, h |-> 60 * 60, d |-> 24 * 60 * 60]

Time(t) == IF t.last \in DOMAIN Unit THEN Unit[t.last] * t.number ELSE Invalid

RlimitCore(t) ==
  IF t.is = "unlimited" THEN -1 ELSE IF t.number < 0 THEN Invalid ELSE t.number

Style(t) == IF t.is \in {"static", "apache-like"} THEN t.is ELSE Invalid

Levels == {"debug", "notice", "warn", "error", "alert"}

LogLevel(t) == IF t.is \in Levels THEN t.is ELSE Invalid

Value(kind, t) ==
  CASE kind = "boolean" -> Boolean(t)
    [] kind = "time"    -> Time(t)
    [] kind = "integer" -> t.number
    [] kind = "string"  -> t
    [] kind = "core"    -> RlimitCore(t)
    [] kind = "style"   -> Style(t)
    [] kind = "level"   -> LogLevel(t)

-----------------------------------------------------------------------------
(* What each section may set. *)
GlobalOptions ==
  [emergency_restart_threshold |-> "integer", emergency_restart_interval |-> "time",
   process_control_timeout |-> "time", daemonize |-> "boolean",
   pid_file |-> "string", error_log |-> "string", log_level |-> "level"]

PoolOptions ==
  [name |-> "string", listen_address |-> "string", user |-> "string",
   group |-> "string", chroot |-> "string", chdir |-> "string",
   allowed_clients |-> "string", request_terminate_timeout |-> "time",
   request_slowlog_timeout |-> "time", slowlog |-> "string",
   rlimit_files |-> "integer", rlimit_core |-> "core", max_requests |-> "integer",
   catch_workers_output |-> "boolean"]

ListenOptions ==
  [backlog |-> "integer", owner |-> "string", group |-> "string", mode |-> "string"]

PmOptions == [style |-> "style", max_children |-> "integer"]

ApacheOptions ==
  [StartServers |-> "integer", MinSpareServers |-> "integer",
   MaxSpareServers |-> "integer"]

PairLists == {"php_defines", "environment"}

(* Memory that was cleared. *)
Zero(kind) ==
  CASE kind \in {"integer", "time", "core"} -> 0
    [] kind = "boolean" -> FALSE
    [] OTHER -> Null

Unset(options) == [o \in DOMAIN options |-> Zero(options[o])]

(* Options of two parts. *)
Both(f, g) ==
  [o \in DOMAIN f \cup DOMAIN g |-> IF o \in DOMAIN f THEN f[o] ELSE g[o]]

NewListenOptions == [Unset(ListenOptions) EXCEPT !.backlog = -1]
NewPm   == Both(Unset(PmOptions), Unset(ApacheOptions))
NewPool == Both(Unset(PoolOptions),
                Both([listen_options |-> Null, pm |-> Null], [l \in PairLists |-> <<>>]))

-----------------------------------------------------------------------------
(* xml_conf_parse_section: the elements it looks at; each is given to a parser,
   which changes the options or fails; the first failure ends it. *)
IsSetting(el) == el.tag = "value" /\ el.kids # <<>> /\ el.name # Null

Fine(conf)   == [conf |-> conf, err |-> FALSE]
Failed(conf) == [conf |-> conf, err |-> TRUE]

Unless(r, el, next) == IF r.err \/ ~IsSetting(el) THEN r ELSE next

(* XML_CONF_SCALAR: the first child is the value.  An unknown setting is only
   warned of. *)
Scalar(options, conf, el) ==
  IF el.name \notin DOMAIN options THEN Fine(conf)
  ELSE IF el.kids[1].tag # "text" THEN Failed(conf)
  ELSE LET v == Value(options[el.name], el.kids[1])
       IN  IF v = Invalid THEN Failed(conf) ELSE Fine([conf EXCEPT ![el.name] = v])

(* A section whose settings are all scalars. *)
Scalars(options, conf, kids) ==
  FoldLeft(LAMBDA r, el : Unless(r, el, Scalar(options, r.conf, el)), Fine(conf), kids)

SetPm(conf, el) ==
  IF el.name = "apache_like" THEN Scalars(ApacheOptions, conf, el.kids)
  ELSE Scalar(PmOptions, conf, el)

Pm(conf, kids) ==
  FoldLeft(LAMBDA r, el : Unless(r, el, SetPm(r.conf, el)), Fine(conf), kids)

(* The first pair of a list takes the place of all that was there. *)
SetPair(list, el) ==
  IF el.kids[1].tag # "text" THEN Failed(list)
  ELSE LET pair == <<el.name, el.kids[1]>>
       IN  Fine([begun |-> TRUE,
                 pairs |-> IF list.begun THEN Append(list.pairs, pair) ELSE <<pair>>])

Pairs(old, kids) ==
  LET r == FoldLeft(LAMBDA q, el : Unless(q, el, SetPair(q.conf, el)),
                    Fine([begun |-> FALSE, pairs |-> old]), kids)
  IN  [conf |-> r.conf.pairs, err |-> r.err]

(* Mutant: a second pm section goes on where the first one ended. *)
SetPoolOn(conf, el) ==
  LET Into(r) == [conf |-> [conf EXCEPT ![el.name] = r.conf], err |-> r.err]
      before  == IF conf.pm = Null THEN NewPm ELSE conf.pm
  IN  CASE el.name = "listen_options" -> Into(Scalars(ListenOptions, NewListenOptions, el.kids))
        [] el.name = "pm"             -> Into(Pm(before, el.kids))
        [] el.name \in PairLists      -> Into(Pairs(conf[el.name], el.kids))
        [] OTHER                      -> Scalar(PoolOptions, conf, el)

SetPool(conf, el) ==
  LET Into(r) == [conf |-> [conf EXCEPT ![el.name] = r.conf], err |-> r.err]
  IN  CASE el.name = "listen_options" -> Into(Scalars(ListenOptions, NewListenOptions, el.kids))
        [] el.name = "pm"             -> Into(Pm(NewPm, el.kids))
        [] el.name \in PairLists      -> Into(Pairs(conf[el.name], el.kids))
        [] OTHER                      -> Scalar(PoolOptions, conf, el)

PoolSection(kids) ==
  FoldLeft(LAMBDA r, el : Unless(r, el, SetPool(r.conf, el)), Fine(NewPool), kids)

-----------------------------------------------------------------------------
VARIABLES
  file,     \* the elements at the top of the file
  todo,     \* elements to go through: each with the paths of its parent and its own
  options,  \* fpm_global_options and log_level
  pools,    \* the list from fpm_worker_all_pools: config, domain and is_template
  stage, nth   \* the step of fpm_conf_init_main, and the pool whose turn it is

confVars == <<file, todo, options, pools, stage, nth>>

(* xmlGetNodePath counts elements of the same tag when there are several. *)
Step(kids, i) ==
  LET same == {k \in DOMAIN kids : kids[k].tag = kids[i].tag}
  IN  <<kids[i].tag, IF Cardinality(same) = 1 THEN 0 ELSE Cardinality(same \cap 1..i)>>

Visits(kids, path) ==
  [i \in DOMAIN kids |-> [el |-> kids[i], parent |-> path,
                          own |-> Append(path, Step(kids, i))]]

(* The paths of the registered sections. *)
GlobalPath == <<<<"configuration", 0>>>>
PoolPath   == <<<<"configuration", 0>>, <<"workers", 0>>>>

IsGlobal(v) == v.el.tag = "section" /\ v.el.name = "global_options" /\ v.parent = GlobalPath
IsPool(v)   == v.el.tag = "section" /\ v.el.name = "pool" /\ v.parent = PoolPath

ConfInit ==
  /\ \E e \in Elements : e.tag = "configuration" /\ file = <<e>>
  /\ todo = Visits(file, <<>>)
  /\ options = Unset(GlobalOptions)
  /\ pools = <<>>
  /\ stage = "load" /\ nth = 1

(* xml_conf_parse_file: an element, then its children, then what follows it. *)
Behind == Visits(Head(todo).el.kids, Head(todo).own) \o Tail(todo)

Loading == stage = "load" /\ todo # <<>>

Onward(err) ==
  /\ stage' = IF err THEN "failed" ELSE stage
  /\ todo' = IF err THEN <<>> ELSE Behind
  /\ UNCHANGED <<file, nth>>

LoadGlobal ==
  /\ Loading /\ IsGlobal(Head(todo))
  /\ LET r == Scalars(GlobalOptions, options, Head(todo).el.kids)
     IN  options' = r.conf /\ Onward(r.err)
  /\ UNCHANGED pools

(* fpm_worker_pool_config_alloc appends a pool before anything of it is read. *)
LoadPool ==
  /\ Loading /\ IsPool(Head(todo))
  /\ LET r == PoolSection(Head(todo).el.kids)
     IN  /\ pools' = Append(pools, [config |-> r.conf, domain |-> Null, is_template |-> FALSE])
         /\ Onward(r.err)
  /\ UNCHANGED options

PassOver ==
  /\ Loading /\ ~IsGlobal(Head(todo)) /\ ~IsPool(Head(todo))
  /\ Onward(FALSE)
  /\ UNCHANGED <<options, pools>>

(* fpm_conf_post_process: the error log must open, and there must be a pool. *)
DefaultLog == [tag |-> "text", is |-> "FPM_LOG_PATH", number |-> 0, last |-> "g",
               path |-> TRUE, kids |-> <<>>]

ASSUME DefaultLogAssumption == DefaultLog # Null

Loaded(opens) ==
  /\ stage = "load" /\ todo = <<>>
  /\ options' = [options EXCEPT !.error_log = IF @ = Null THEN DefaultLog ELSE @]
  /\ stage' = IF opens /\ pools # <<>> THEN "pools" ELSE "failed"
  /\ UNCHANGED <<file, todo, pools, nth>>

(* fpm_conf_process_all_pools, for one pool, with HAVE_FPM_TRACE as fpm_config.h
   has it; the slow log may not open. *)
Domain(address) == IF address = Null THEN Null ELSE IF address.path THEN "unix" ELSE "inet"

(* Mutant: the pool is not marked. *)
CompletedUnmarked(pool) ==
  [pool EXCEPT !.domain = Domain(pool.config.listen_address)]

Completed(pool) ==
  [pool EXCEPT
    !.domain = Domain(pool.config.listen_address),
    !.is_template = pool.config.listen_address = Null]

(* Mutant: the slow log is looked at only where there is one. *)
NeedsSlowlogGiven(pool) ==
  pool.config.request_slowlog_timeout # 0 /\ pool.config.slowlog # Null

NeedsSlowlog(pool) == pool.config.request_slowlog_timeout # 0

Complete(opens) ==
  /\ stage = "pools" /\ nth <= Len(pools)
  /\ LET done == Completed(pools[nth])
         bad  == NeedsSlowlog(done) /\ (done.config.slowlog = Null \/ ~opens)
     IN  /\ pools' = [pools EXCEPT ![nth] = done]
         /\ stage' = IF bad THEN "failed" ELSE stage
  /\ nth' = nth + 1
  /\ UNCHANGED <<file, todo, options>>

AllComplete ==
  /\ stage = "pools" /\ nth > Len(pools)
  /\ stage' = "ready"
  /\ UNCHANGED <<file, todo, options, pools, nth>>

ConfNext ==
  \/ LoadGlobal \/ LoadPool \/ PassOver \/ AllComplete
  \/ \E opens \in BOOLEAN : Loaded(opens) \/ Complete(opens)

ConfSpec == ConfInit /\ [][ConfNext]_confVars

-----------------------------------------------------------------------------
(* What a file says, without going through it in order.  Elements are named by
   their places among the children of one. *)
Configuration == file[1].kids

Given(kids, n)    == {i \in DOMAIN kids : IsSetting(kids[i]) /\ kids[i].name = n}
Sections(kids, n) == {i \in DOMAIN kids : kids[i].tag = "section" /\ kids[i].name = n}

LastGiven(kids, n) == kids[Max(Given(kids, n))]

Chosen(kids, places) ==
  FoldLeft(LAMBDA s, i : IF i \in places THEN Append(s, kids[i]) ELSE s,
           <<>>, [i \in DOMAIN kids |-> i])

GlobalSections == Sections(Configuration, "global_options")

WorkersAt == {i \in DOMAIN Configuration : Configuration[i].tag = "workers"}
InWorkers == Configuration[Max(WorkersAt)].kids

PoolSections ==
  IF Cardinality(WorkersAt) = 1 THEN Chosen(InWorkers, Sections(InWorkers, "pool")) ELSE <<>>

(* The last value given for an option counts, and that of the last section if
   there are several. *)
Says(opts, kids, unset) ==
  [o \in DOMAIN opts |->
     IF Given(kids, o) = {} THEN unset[o] ELSE Value(opts[o], LastGiven(kids, o).kids[1])]

AllSay(opts, kids, places, unset) ==
  [o \in DOMAIN opts |->
     LET giving == {i \in places : Given(kids[i].kids, o) # {}}
     IN  IF giving = {} THEN unset[o] ELSE Says(opts, kids[Max(giving)].kids, unset)[o]]

SaysPm(kids) ==
  Both(Says(PmOptions, kids, NewPm),
       AllSay(ApacheOptions, kids, Given(kids, "apache_like"), NewPm))

PairsOf(list) ==
  LET said == Chosen(list, {i \in DOMAIN list : IsSetting(list[i])})
  IN  [i \in DOMAIN said |-> <<said[i].name, said[i].kids[1]>>]

(* The last list that has a pair counts. *)
SaysPairs(kids, l) ==
  LET lists == {i \in Given(kids, l) : \E k \in ToSet(kids[i].kids) : IsSetting(k)}
  IN  IF lists = {} THEN <<>> ELSE PairsOf(kids[Max(lists)].kids)

SaysPool(kids) ==
  LET listens == Given(kids, "listen_options")
      pms     == Given(kids, "pm")
  IN  Both(Says(PoolOptions, kids, NewPool),
           Both([listen_options |->
                   IF listens = {} THEN Null
                   ELSE Says(ListenOptions, kids[Max(listens)].kids, NewListenOptions),
                 pm |-> IF pms = {} THEN Null ELSE SaysPm(kids[Max(pms)].kids)],
                [l \in PairLists |-> SaysPairs(kids, l)]))

(* What the parsers accept. *)
IsGood(opts, kids) ==
  \A k \in ToSet(kids) :
    IsSetting(k) /\ k.name \in DOMAIN opts =>
      k.kids[1].tag = "text" /\ Value(opts[k.name], k.kids[1]) # Invalid

IsGoodPm(kids) ==
  /\ IsGood(PmOptions, kids)
  /\ \A i \in Given(kids, "apache_like") : IsGood(ApacheOptions, kids[i].kids)

ArePairs(kids) == \A k \in ToSet(kids) : IsSetting(k) => k.kids[1].tag = "text"

IsGoodPool(kids) ==
  /\ IsGood(PoolOptions, kids)
  /\ \A i \in Given(kids, "listen_options") : IsGood(ListenOptions, kids[i].kids)
  /\ \A i \in Given(kids, "pm") : IsGoodPm(kids[i].kids)
  /\ \A l \in PairLists : \A i \in Given(kids, l) : ArePairs(kids[i].kids)

IsGoodFile ==
  /\ \A i \in GlobalSections : IsGood(GlobalOptions, Configuration[i].kids)
  /\ \A p \in ToSet(PoolSections) : IsGoodPool(p.kids)

-----------------------------------------------------------------------------
ConfTypeOK ==
  /\ stage \in {"load", "pools", "ready", "failed"}
  /\ nth \in 1..(Len(pools) + 1)
  /\ DOMAIN options = DOMAIN GlobalOptions
  /\ \A p \in ToSet(pools) :
       /\ DOMAIN p.config = DOMAIN NewPool
       /\ p.domain \in {Null, "unix", "inet"} /\ p.is_template \in BOOLEAN
       /\ \A o \in DOMAIN PoolOptions :
            LET v == p.config[o]
            IN  CASE PoolOptions[o] \in {"integer", "time", "core"} -> v \in Int
                  [] PoolOptions[o] = "boolean" -> v \in BOOLEAN
                  [] OTHER -> v = Null \/ v.tag = "text"

(* The configuration is what the file says, for every pool in the order of the
   file and with nothing of one in another: the last value of an option counts, a
   later pm or listen_options replaces an earlier one, a later list of pairs the
   pairs.  A file with a value no parser accepts is never used, and a file
   without one is never refused while it is read. *)
LoadedAsWritten ==
  /\ stage \in {"pools", "ready"} =>
       /\ IsGoodFile
       /\ options = [AllSay(GlobalOptions, Configuration, GlobalSections, Unset(GlobalOptions))
                       EXCEPT !.error_log = IF @ = Null THEN DefaultLog ELSE @]
       /\ Len(pools) = Len(PoolSections)
       /\ \A i \in DOMAIN pools : pools[i].config = SaysPool(PoolSections[i].kids)
  /\ stage = "failed" /\ IsGoodFile => options.error_log # Null

(* When the master goes on, there is a pool, each pool either has a kind of address
   to listen on or is a template, and where slow requests are to be logged there is
   a file for it. *)
PoolsAreUsable ==
  stage = "ready" =>
    /\ pools # <<>>
    /\ \A p \in ToSet(pools) :
         /\ p.is_template <=> p.config.listen_address = Null
         /\ p.is_template <=> p.domain = Null
         /\ p.config.request_slowlog_timeout # 0 => p.config.slowlog # Null
================================================================================
