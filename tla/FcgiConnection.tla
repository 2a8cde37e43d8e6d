--------------------------- MODULE FcgiConnection ---------------------------
(***************************************************************************)
(* Both sides of a worker's connection: requests are read (FcgiInput) and  *)
(* replies written (FcgiStream) by one process over one socket.  The two   *)
(* meet in three places: fcgi_read_request empties the buffer, a write()   *)
(* that fails forgets the wish to keep the connection, and the end of a    *)
(* request flushes before it closes.                                       *)
(***************************************************************************)
EXTENDS FcgiStream, FcgiInput

CONSTANT FewLens  \* bound: what is written in any but the plainest of requests

ASSUME ConnectionAssumption == FewLens \subseteq Lens

connectionVars == <<vars, inputVars>>

ConnectionInit == Init /\ InputInit

Emptied == IF End \in Range(wire) \/ ~sound THEN NextRequest ELSE UNCHANGED vars

Beginning == ReadRequest /\ Emptied

Accepting == Accept /\ Emptied

Reading == (ReadsRequest \/ ReadsBody) /\ UNCHANGED vars

(* The first of all, without parameters and body, over a connection that   *)
(* is not kept.                                                            *)
Plain ==
  /\ left = MaxSent - 1 /\ reader.req = 1
  /\ sent[1].params = <<>> /\ sent[1].body = <<>> /\ ~reader.keep
  /\ ~eof /\ ~reader.asked

(* Bound: other requests are answered by one call. *)
Modest == calls = MaxCalls

(* Mutant: a reply that failed leaves the connection in use. *)
KeptAnyway == reader.keep

KeptAfter == reader.keep /\ sound'

Writing ==
  /\ reader.phase = "work"
  /\ \/ Plain /\ ((\E t \in Stream, n \in Lens : Write(t, n)) \/ Flush)
     \/ Modest /\ ((\E t \in Stream, n \in FewLens : Write(t, n)) \/ Flush)
     \/ LongRecord \/ LongEnds
  /\ reader' = [reader EXCEPT !.keep = KeptAfter]
  /\ UNCHANGED <<input, eof, sent, given, left>>

Finishing ==
  /\ Finish
  /\ FinishRequest(KeptAfter)

Peer == Server /\ UNCHANGED vars

ConnectionNext == Beginning \/ Reading \/ Writing \/ Finishing \/ Accepting \/ Peer

ConnectionSpec == ConnectionInit /\ [][ConnectionNext]_connectionVars

-----------------------------------------------------------------------------
(* A connection is kept for the next request only when the whole of the    *)
(* reply before was sent, with its end, and nothing of it waits.           *)
KeptIsAnswered ==
  reader.phase = "idle" /\ reader.req > 0 =>
    sound /\ out = Empty /\ wire # <<>> /\ Last(wire) = End

(* Requests are read whole, and a connection kept for the next one has had *)
(* the whole of the reply before: what the next reply begins with is never *)
(* taken for the rest of this one.                                         *)
ConnectionIsInStep == InputTypeOK /\ RequestsAreWhole /\ KeptIsAnswered
=============================================================================
