------------------------------ MODULE FpmWorkers ------------------------------
(***************************************************************************)
(* The workers of one pool serving FastCGI requests: the loop of main.cpp  *)
(* over fcgi_accept_request and the request functions of fastcgi.cpp, the  *)
(* stages they report in their slot (fpm_request.c), the signals that end  *)
(* them (fpm_signals.c) and the connections of the web server.             *)
(*                                                                         *)
(* The workers share one listening socket, whose queue outlives them.  A   *)
(* worker's pc is the place in the loop it has reached:                    *)
(*   top      calls fcgi_accept_request                                    *)
(*   idle     before the accept loop: it has no connection                 *)
(*   accept   in accept()                                                  *)
(*   accepted has a connection, its stage not yet set                      *)
(*   wait     waits for the first byte, at most five seconds               *)
(*   read     in fcgi_read_request                                         *)
(*   info, exec, work   the three steps of the body of the loop            *)
(*   dead     the process has ended                                        *)
(* One connection is one client; what it received is kept in got.          *)
(***************************************************************************)
EXTENDS Naturals, Sequences, FiniteSets

CONSTANTS Worker,       \* the worker processes of the pool
          Conn,         \* the connections the web server opens
          NoConn,       \* fd = -1
          KeepConn,     \* those with FCGI_KEEP_CONN
          StallConn,    \* those that may send half a request and no more
          MaxRequests,  \* main.cpp's max_requests
          MaxSent,      \* bound: requests sent over one connection
          MaxDeaths     \* bound: workers that die in a behaviour

ASSUME WorkersAssumption ==
  /\ NoConn \notin Conn
  /\ KeepConn \subseteq Conn /\ StallConn \subseteq Conn
  /\ MaxRequests \in Nat /\ MaxSent \in Nat /\ MaxDeaths \in Nat

VARIABLES
  worker,     \* of each worker its pc, conn, keep, requests, stage, env and out
  client,     \* of each connection its phase, sent, taken and got
  backlog,    \* the queue of the listening socket
  deaths      \* workers that have died

vars == <<worker, client, backlog, deaths>>

Stage == {"NEW", "ACCEPTING", "READING_HEADERS", "INFO", "EXECUTING", "FINISHED"}

(* The stages in which the master takes a worker for busy. *)
Busy == {"READING_HEADERS", "INFO", "EXECUTING"}

TypeOK ==
  /\ worker \in [Worker -> [
       pc : {"top", "idle", "accept", "accepted", "wait", "read", "info", "exec", "work", "dead"},
       conn : Conn \cup {NoConn},
       keep : BOOLEAN,
       requests : Nat,
       stage : Stage,
       env : {"none", "live", "freed", "leaked", "freed twice"},  \* req->envp
       out : Seq(Conn)]]                             \* whose replies out_buf holds
  /\ client \in [Conn -> [
       phase : {"away", "queued", "open", "left", "closed", "reset"},
       tail : {"none", "half", "bad"},               \* what it sent last
       sent : 0..MaxSent,
       taken : 0..MaxSent,
       got : Seq({"body", "end"} \X Conn)]]
  /\ \A c \in Conn : client[c].taken <= client[c].sent
  /\ backlog \in Seq(Conn)
  /\ deaths \in 0..MaxDeaths

NewWorker == [pc |-> "top", conn |-> NoConn, keep |-> FALSE, requests |-> 0,
              stage |-> "NEW", env |-> "none", out |-> <<>>]

NewClient == [phase |-> "away", tail |-> "none", sent |-> 0, taken |-> 0, got |-> <<>>]

(* fcgi_init_request, and a slot cleared by fpm_shm_slots_prepare_slot. *)
Init ==
  /\ worker = [w \in Worker |-> NewWorker]
  /\ client = [c \in Conn |-> NewClient]
  /\ backlog = <<>>
  /\ deaths = 0

-----------------------------------------------------------------------------
(* The web server *)

Connect(c) ==
  /\ client[c].phase = "away"
  /\ client' = [client EXCEPT ![c].phase = "queued"]
  /\ backlog' = Append(backlog, c)
  /\ UNCHANGED <<worker, deaths>>

Ends(c) == Cardinality({i \in DOMAIN client[c].got : client[c].got[i] = <<"end", c>>})

(* A next request follows the end of the last one, on a kept connection. *)
Send(c) ==
  /\ client[c].phase \in {"queued", "open"} /\ client[c].tail = "none"
  /\ client[c].sent < MaxSent
  /\ client[c].sent = 0 \/ (c \in KeepConn /\ Ends(c) >= client[c].sent)
  /\ client' = [client EXCEPT ![c].sent = @ + 1]
  /\ UNCHANGED <<worker, backlog, deaths>>

(* Half a request and no more, or one that fcgi_read_request refuses. *)
Stall(c) ==
  /\ c \in StallConn /\ client[c].phase \in {"queued", "open"}
  /\ client[c].sent = client[c].taken /\ client[c].tail = "none"
  /\ \E t \in {"half", "bad"} : client' = [client EXCEPT ![c].tail = t]
  /\ UNCHANGED <<worker, backlog, deaths>>

(* The web server closes the connection: the worker reads an end of file. *)
Leave(c) ==
  /\ client[c].phase \in {"queued", "open"}
  /\ client' = [client EXCEPT ![c].phase = "left"]
  /\ UNCHANGED <<worker, backlog, deaths>>

-----------------------------------------------------------------------------
(* fastcgi.cpp: each operator gives what it makes of a worker v *)

(* Mutant: fpm_request_finished is called only by a graceful close. *)
CloseQuietly(v, force) ==
  IF (force \/ ~v.keep) /\ v.conn # NoConn
  THEN [v EXCEPT !.conn = NoConn, !.stage = IF force THEN @ ELSE "FINISHED"]
  ELSE v

(* fcgi_close: the connection, with fpm_request_finished *)
Close(v, force) ==
  IF (force \/ ~v.keep) /\ v.conn # NoConn
  THEN [v EXCEPT !.conn = NoConn, !.stage = "FINISHED"]
  ELSE v

(* fcgi_close: free(req->envp) when destroy is set *)
Destroy(v) == [v EXCEPT !.env = IF @ = "freed" THEN "freed twice" ELSE "freed"]

(* fcgi_flush(req, 1): the worker and what the client gets of it, which is *)
(* what is in the buffer and FCGI_END_REQUEST.  If the peer has left the   *)
(* write may fail: keep is cleared and the buffer is left as it is.        *)
FlushEnd(v) ==
  {[v |-> [v EXCEPT !.out = <<>>],
    got |-> [i \in DOMAIN v.out |-> <<"body", v.out[i]>>] \o <<<<"end", v.conn>>>>]}
  \cup {u \in {[v |-> [v EXCEPT !.keep = FALSE], got |-> <<>>]} : client[v.conn].phase = "left"}

(* The peer has the connection closed once the server closes it. *)
Closed(c) == IF client[c].phase = "open" THEN "closed" ELSE client[c].phase

(* A worker that has become v after it had the connection c, which has     *)
(* received what more says.                                                *)
Becomes(w, v, c, more) ==
  /\ worker' = [worker EXCEPT ![w] = v]
  /\ client' = IF c = NoConn THEN client
               ELSE [client EXCEPT ![c].got = @ \o more,
                                   ![c].phase = IF v.conn = NoConn THEN Closed(c) ELSE @]
  /\ UNCHANGED <<backlog, deaths>>

(* A worker goes on in pc p. *)
Goes(v, p) == [v EXCEPT !.pc = p]

(* Where fcgi_accept_request goes on after fcgi_finish_request. *)
AfterFinish(v) == IF v.conn = NoConn THEN Goes(v, "idle") ELSE Goes(v, "read")

(* Mutant: the connection that is kept is not finished. *)
FinishNotKept(w) ==
  LET v == worker[w] IN
  /\ v.pc = "top"
  /\ \/ /\ v.conn = NoConn \/ v.keep
        /\ Becomes(w, AfterFinish(v), NoConn, <<>>)
     \/ /\ v.conn # NoConn /\ ~v.keep
        /\ \E f \in FlushEnd(v) : Becomes(w, AfterFinish(Destroy(Close(f.v, FALSE))), v.conn, f.got)

(* fcgi_finish_request, with which fcgi_accept_request begins. *)
Finish(w) ==
  LET v == worker[w] IN
  /\ v.pc = "top"
  /\ \/ /\ v.conn = NoConn
        /\ Becomes(w, AfterFinish(v), NoConn, <<>>)
     \/ /\ v.conn # NoConn
        /\ \E f \in FlushEnd(v) : Becomes(w, AfterFinish(Destroy(Close(f.v, FALSE))), v.conn, f.got)

(* fpm_request_accepting *)
Accepting(w) ==
  /\ worker[w].pc = "idle"
  /\ worker' = [worker EXCEPT ![w].pc = "accept", ![w].stage = "ACCEPTING"]
  /\ UNCHANGED <<client, backlog, deaths>>

Accept(w) ==
  /\ worker[w].pc = "accept" /\ backlog # <<>>
  /\ LET c == Head(backlog) IN
       /\ worker' = [worker EXCEPT ![w].pc = "accepted", ![w].conn = c]
       /\ client' = [client EXCEPT ![c].phase = IF @ = "queued" THEN "open" ELSE @]
  /\ backlog' = Tail(backlog)
  /\ UNCHANGED deaths

(* fpm_request_reading_headers *)
ReadingHeaders(w) ==
  /\ worker[w].pc = "accepted"
  /\ worker' = [worker EXCEPT ![w].pc = "wait", ![w].stage = "READING_HEADERS"]
  /\ UNCHANGED <<client, backlog, deaths>>

(* What the worker would find in a read of the connection c. *)
HasRequest(c) == client[c].sent > client[c].taken
AtEnd(c)      == ~HasRequest(c) /\ (client[c].phase = "left" \/ client[c].tail = "bad")
Readable(c)   == HasRequest(c) \/ AtEnd(c) \/ client[c].tail = "half"

(* Mutant: the wait has no limit. *)
SilentNever(w) == FALSE

(* select() *)
FirstByte(w) ==
  /\ worker[w].pc = "wait" /\ Readable(worker[w].conn)
  /\ worker' = [worker EXCEPT ![w].pc = "read"]
  /\ UNCHANGED <<client, backlog, deaths>>

(* Mutant: the close after the five seconds frees the environment. *)
SilentDestroyed(w) ==
  LET v == worker[w] IN
  /\ v.pc = "wait" /\ ~Readable(v.conn)
  /\ Becomes(w, Goes(Destroy(Close(v, TRUE)), "idle"), v.conn, <<>>)

(* Five seconds without a byte: fcgi_close(req, 1, 0). *)
Silent(w) ==
  LET v == worker[w] IN
  /\ v.pc = "wait" /\ ~Readable(v.conn)
  /\ Becomes(w, Goes(Close(v, TRUE), "idle"), v.conn, <<>>)

(* Mutant: out_pos is not reset. *)
FreshKeepsBuffer(v) ==
  [v EXCEPT !.keep = FALSE, !.env = IF @ = "live" THEN "leaked" ELSE "live"]

(* The assignments fcgi_read_request begins with. *)
Fresh(v) ==
  [v EXCEPT !.keep = FALSE, !.out = <<>>, !.env = IF @ = "live" THEN "leaked" ELSE "live"]

(* Mutant: a short read is taken for a request. *)
ReadRequestShort(w) ==
  LET v == worker[w] IN
  /\ v.pc = "read" /\ (HasRequest(v.conn) \/ AtEnd(v.conn))
  /\ worker' = [worker EXCEPT ![w] = Goes([Fresh(v) EXCEPT !.keep = v.conn \in KeepConn], "info")]
  /\ client' = [client EXCEPT ![v.conn].taken = @ + 1]
  /\ UNCHANGED <<backlog, deaths>>

ReadRequest(w) ==
  LET v == worker[w] IN
  /\ v.pc = "read" /\ HasRequest(v.conn)
  /\ worker' = [worker EXCEPT ![w] = Goes([Fresh(v) EXCEPT !.keep = v.conn \in KeepConn], "info")]
  /\ client' = [client EXCEPT ![v.conn].taken = @ + 1]
  /\ UNCHANGED <<backlog, deaths>>

(* An end of file or a request that is refused: fcgi_close(req, 1, 1). *)
ReadFails(w) ==
  LET v == worker[w] IN
  /\ v.pc = "read" /\ AtEnd(v.conn)
  /\ Becomes(w, Goes(Destroy(Close(Fresh(v), TRUE)), "idle"), v.conn, <<>>)

-----------------------------------------------------------------------------
(* main.cpp *)

RequestInfo(w) ==
  /\ worker[w].pc = "info"
  /\ worker' = [worker EXCEPT ![w].pc = "exec", ![w].stage = "INFO"]
  /\ UNCHANGED <<client, backlog, deaths>>

Executing(w) ==
  /\ worker[w].pc = "exec"
  /\ worker' = [worker EXCEPT ![w].pc = "work", ![w].stage = "EXECUTING"]
  /\ UNCHANGED <<client, backlog, deaths>>

(* The reply goes to the buffer; the next fcgi_accept_request sends it. *)
Reply(w) ==
  LET v == [worker[w] EXCEPT !.requests = @ + 1] IN
  /\ v.pc = "work" /\ v.requests # MaxRequests
  /\ worker' = [worker EXCEPT ![w] = Goes([v EXCEPT !.out = Append(@, v.conn)], "top")]
  /\ UNCHANGED <<client, backlog, deaths>>

(* The request that reaches max_requests has no reply: it is finished, and *)
(* flushed and closed again, without effect if the connection is gone, and *)
(* the loop goes on.                                                       *)
LastRequest(w) ==
  LET v == [worker[w] EXCEPT !.requests = @ + 1] IN
  /\ v.pc = "work" /\ v.requests = MaxRequests
  /\ \E f \in FlushEnd(v) :
       LET u == Destroy(Close(f.v, FALSE)) IN
       \/ /\ u.conn = NoConn
          /\ Becomes(w, Goes([u EXCEPT !.keep = FALSE], "top"), v.conn, f.got)
       \/ /\ u.conn # NoConn
          /\ \E g \in FlushEnd(u) :
               Becomes(w, Goes(Close(g.v, FALSE), "top"), v.conn, f.got \o g.got)

-----------------------------------------------------------------------------
(* fpm_signals_init_child gives SIGQUIT its default action, and the others *)

Unanswered(c) == client[c].phase = "open" /\ Ends(c) < client[c].sent

Dies(w) ==
  LET c == worker[w].conn IN
  /\ worker[w].pc # "dead" /\ deaths < MaxDeaths
  /\ deaths' = deaths + 1
  /\ worker' = [worker EXCEPT ![w] = Goes([NewWorker EXCEPT !.stage = worker[w].stage], "dead")]
  /\ client' = IF c = NoConn THEN client
               ELSE [client EXCEPT ![c].phase = IF Unanswered(c) THEN "reset" ELSE Closed(c)]
  /\ UNCHANGED backlog

(* SIGQUIT from fpm_pctl_kill_all, which finishing and reloading send. *)
Quit(w) == Dies(w)

(* SIGTERM, SIGKILL, or a crash. *)
Die(w) == Dies(w)

(* fpm_children_make *)
Respawn(w) ==
  /\ worker[w].pc = "dead"
  /\ worker' = [worker EXCEPT ![w] = NewWorker]
  /\ UNCHANGED <<client, backlog, deaths>>

-----------------------------------------------------------------------------
Serve(w) ==
  \/ Finish(w) \/ Accepting(w) \/ Accept(w) \/ ReadingHeaders(w) \/ FirstByte(w) \/ Silent(w)
  \/ ReadRequest(w) \/ ReadFails(w) \/ RequestInfo(w) \/ Executing(w) \/ Reply(w) \/ LastRequest(w)

Peers == \E c \in Conn : Connect(c) \/ Send(c) \/ Stall(c) \/ Leave(c)

Master == \E w \in Worker : Quit(w) \/ Die(w) \/ Respawn(w)

Next == (\E w \in Worker : Serve(w)) \/ Peers \/ Master

Spec == Init /\ [][Next]_vars

(* The kernel runs every worker, the master replaces the dead, and the web *)
(* server is free to do nothing.                                           *)
FairSpec == Spec /\ \A w \in Worker : WF_vars(Serve(w)) /\ WF_vars(Respawn(w))

-----------------------------------------------------------------------------
(* What a web server receives over a connection is its own: no reply of    *)
(* another client, none twice, each followed at once by its end.  There is *)
(* one FCGI_END_REQUEST for each request taken; the request that reaches   *)
(* max_requests on a connection that is kept ends three times.             *)
RepliesInOrder ==
  \A c \in Conn : LET got == client[c].got IN
    /\ \A i \in DOMAIN got :
         /\ got[i][2] = c
         /\ got[i][1] = "body" => i < Len(got) /\ got[i + 1] = <<"end", c>>
    /\ Len(got) - Ends(c) <= client[c].taken
    /\ Ends(c) <= client[c].taken + (IF c \in KeepConn THEN 2 ELSE 0)

(* When a worker waits for its next connection or request, every request   *)
(* it took was answered: none is forgotten in the buffer.                  *)
NothingOwed ==
  \A c \in Conn :
    client[c].phase \in {"open", "closed"} /\ Ends(c) < client[c].taken
      => \E w \in Worker : worker[w].conn = c /\ worker[w].pc \in {"info", "exec", "work", "top"}

(* Every request that is taken is answered once, to its own client, and    *)
(* none is forgotten: both of the above.                                   *)
AnswersAreExact == RepliesInOrder /\ NothingOwed

(* The array of variables is allocated once and freed once per request,   *)
(* but for the one that reaches max_requests.                              *)
EnvIsFreedOnce ==
  \A w \in Worker : worker[w].env \in {"leaked", "freed twice"}
    => worker[w].requests = MaxRequests /\ worker[w].env = "freed twice"

(* The stage a living worker reports is a busy one exactly while it has a  *)
(* connection, from the step after accept() on: the master can rely on it. *)
StageIsTrue ==
  \A w \in Worker : worker[w].pc \notin {"dead", "accepted"}
    => (worker[w].stage \in Busy <=> worker[w].conn # NoConn)

(* Every connection in the queue is accepted, though others say nothing:    *)
(* they are dropped after five seconds.  A connection is queued once, so   *)
(* that all were accepted when the queue is empty again and again.         *)
QueuedIsAccepted == []<>(backlog = <<>>)
=============================================================================
