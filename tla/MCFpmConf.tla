------------------------------- MODULE MCFpmConf -------------------------------
EXTENDS FpmConf

Text(is, number, last, path) ==
  [tag |-> "text", is |-> is, number |-> number, last |-> last, path |-> path, kids |-> <<>>]

El(tag, name, kids) == [tag |-> tag, name |-> name, kids |-> kids]
Val(name, text) == El("value", name, <<text>>)

yes == Text("yes", 0, "s", FALSE)
n5  == Text("5", 5, "5", FALSE)
s30 == Text("30s", 30, "s", FALSE)
m2  == Text("2m", 2, "m", FALSE)
usr == Text("/x", 0, "x", TRUE)
sty == Text("static", 0, "c", FALSE)
neg == Text("-1", -1, "1", FALSE)
gap == Text("", 0, "", FALSE)

Texts == {yes, n5, s30, m2, usr, sty, neg, gap}

Globals ==
  {Val("daemonize", yes), Val("daemonize", n5), Val("error_log", usr),
   Val("process_control_timeout", m2), Val("no_such", n5)}

InLists ==
  {Val("StartServers", n5), Val("StartServers", m2), Val("a", n5), Val("a", usr),
   Val("b", usr), Val("backlog", s30), Val("owner", n5)}

InPm == {Val("style", sty), Val("max_children", n5), Val("max_children", s30),
         El("value", "apache_like", <<gap, Val("StartServers", n5)>>),
         El("value", "apache_like", <<Val("StartServers", m2)>>)}

InPool ==
  {Val("listen_address", usr), Val("listen_address", n5),
   Val("request_slowlog_timeout", s30), Val("request_slowlog_timeout", n5),
   Val("slowlog", usr), Val("catch_workers_output", yes), Val("rlimit_core", neg),
   El("value", "slowlog", <<Val("a", n5)>>), El("value", "name", <<>>), gap,
   El("value", "environment", <<Val("a", n5), gap, Val("b", usr)>>),
   El("value", "environment", <<Val("a", usr)>>),
   El("value", "environment", <<gap>>),
   El("value", "listen_options", <<Val("backlog", s30)>>),
   El("value", "listen_options", <<Val("owner", n5)>>)}
  \cup {El("value", "pm", <<a>>) : a \in InPm}

Lists(S, n) == UNION {[1..k -> S] : k \in 0..n}

PmEl(l)       == El("value", "pm", l)
Pool(l)       == El("section", "pool", l)
PoolsWith(L)  == {Pool(l) : l \in L}
Short         == PoolsWith(Lists(InPool, 1))
AllPools      == PoolsWith(Lists(InPool, 3))
Workers(kids) == El("workers", Null, kids)

GlobalOnes    == {El("section", "global_options", g) : g \in Lists(Globals, 3)}
Pms           == {PmEl(l) : l \in Lists(InPm, 4)}
PmPools       == {Pool(<<m>>) : m \in Pms}

\* sections where none is looked for
OddPms        == {PmEl(<<p>>) : p \in Short}
OddPools      == {Pool(<<m>>) : m \in OddPms}
OddSections   == {El("section", Null, <<p>>) : p \in Short}
NoGlobals     == El("section", "global_options", <<>>)

AllWorkers ==
  {Workers(<<p>>) : p \in AllPools \cup PmPools}
  \cup {Workers(<<p, gap, q>>) : p, q \in Short}
  \cup {Workers(<<o, q>>) : o \in OddPools, q \in Short}
  \cup {Workers(<<NoGlobals, o>>) : o \in OddSections}

Files ==
  {<<w>> : w \in AllWorkers}
  \cup {<<g, Workers(<<p>>)>> : g \in GlobalOnes, p \in Short}
  \cup {<<Workers(<<p>>), Workers(<<q>>)>> : p, q \in Short}
  \cup {<<p, Workers(<<q>>)>> : p, q \in Short}

(* All of them with what is in them, at whatever depth; TLC evaluates a name of it once. *)
AllWritten ==
  UNION {{El("configuration", Null, f) : f \in Files}, AllWorkers, GlobalOnes, {NoGlobals},
         AllPools, PmPools, OddPools, OddSections, Pms, OddPms, InPool, InPm, Globals, InLists, Texts}

Written == AllWritten
================================================================================
