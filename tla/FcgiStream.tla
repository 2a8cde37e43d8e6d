----------------------------- MODULE FcgiStream -----------------------------
(***************************************************************************)
(* How a worker's output becomes FastCGI records: fcgi_write and           *)
(* fcgi_flush with the buffer of a request, in bytes.  A byte the program  *)
(* writes is known by its stream and its place in the stream.  What is     *)
(* sent, and what waits in the buffer, is a sequence of chunks: the header *)
(* of a record, a part of a stream, padding, the end of the request.       *)
(*                                                                         *)
(* fcgi_write sends much text past the buffer, one record after the other; *)
(* call is what such a call has not sent yet.                              *)
(***************************************************************************)
EXTENDS Integers, SequencesExt

CONSTANTS BufSize,  \* sizeof(out_buf)
          Stream,   \* types of records: FCGI_STDOUT, FCGI_STDERR
          Lens,     \* what the program may write at once
          MaxCalls  \* bound: calls of fcgi_write and fcgi_flush in a request

HeaderSize == 8
EndSize    == 16
FullRecord == 65528  \* 0xfff8
MaxRecord  == 65535  \* 0xffff

NULL    == -1
NoType  == "none"
NoCall  == [type |-> NoType, from |-> 0, len |-> 0]
Empty   == [pos |-> 0, hdr |-> NULL, type |-> NoType, text |-> <<>>, done |-> <<>>]
Nothing == [s \in Stream |-> 0]

ASSUME StreamAssumption ==
  /\ BufSize \in Nat /\ BufSize % 8 = 0 /\ BufSize >= 16
  /\ NoType \notin Stream
  /\ Lens \subseteq Nat \ {0}
  /\ MaxCalls \in Nat

(* What fits the buffer is no longer than a record. *)
ASSUME RecordAssumption == BufSize <= FullRecord + HeaderSize

VARIABLES
  out,    \* out_pos and out_hdr as offsets in out_buf, the type in that header,
          \* the text behind it, and the chunks in front of it
  call,   \* the rest of a long fcgi_write
  wire,   \* the chunks sent in this reply
  sound,  \* no write() failed
  said,   \* ghost: how much was written to each stream
  peak,   \* ghost: the end of what the last step wrote into out_buf
  calls

vars == <<out, call, wire, sound, said, peak, calls>>

Chunk == [kind : {"header", "text", "padding", "end"}, stream : Stream \cup {NoType},
          from : Nat, len : Nat, pad : Nat]

Buffer == [pos : Nat, hdr : Nat \cup {NULL}, type : Stream \cup {NoType},
           text : Seq(Chunk), done : Seq(Chunk)]

TypeOK ==
  /\ out \in Buffer
  /\ call \in [type : Stream \cup {NoType}, from : Nat, len : Nat]
  /\ wire \in Seq(Chunk)
  /\ sound \in BOOLEAN
  /\ said \in [Stream -> Nat]
  /\ peak \in Nat
  /\ calls \in 0..MaxCalls

Init ==
  /\ out = Empty /\ call = NoCall /\ wire = <<>> /\ sound = TRUE
  /\ said = Nothing /\ peak = 0 /\ calls = MaxCalls

-----------------------------------------------------------------------------
(* Chunks and the buffer. *)

Pad(n) == (8 - (n % 8)) % 8

Piece(kind, s, from, len, pad) ==
  [kind |-> kind, stream |-> s, from |-> from, len |-> len, pad |-> pad]

(* The content length has two bytes. *)
Header(t, n) == Piece("header", t, 0, n % 65536, Pad(n))

Text(t, from, n) == Piece("text", t, from, n, 0)

Padding(n) == IF n = 0 THEN <<>> ELSE <<Piece("padding", NoType, 0, n, 0)>>

End == Piece("end", NoType, 0, 0, 0)

Open(o, t) ==
  [pos |-> o.pos + HeaderSize, hdr |-> o.pos, type |-> t, text |-> <<>>, done |-> o.done]

Put(o, from, n) ==
  [pos |-> o.pos + n, hdr |-> o.hdr, type |-> o.type,
   text |-> Append(o.text, Text(o.type, from, n)), done |-> o.done]

(* close_packet *)
Closed(o) ==
  IF o.hdr = NULL THEN o ELSE
  LET n == o.pos - (o.hdr + HeaderSize)
  IN  [pos |-> o.pos + Pad(n), hdr |-> NULL, type |-> NoType, text |-> <<>>,
       done |-> o.done \o <<Header(o.type, n)>> \o o.text \o Padding(Pad(n))]

(* A header whose record follows past the buffer. *)
Direct(o, t, n) ==
  [pos |-> o.pos + HeaderSize, hdr |-> NULL, type |-> NoType, text |-> <<>>,
   done |-> Append(o.done, Header(t, n))]

(* The write() of fcgi_flush, with what is put behind the buffer and what  *)
(* is in the buffer afterwards; if it fails the buffer is left as it is,   *)
(* and so do all that follow.                                              *)
Sends(o, more, after) ==
  \/ sound /\ wire' = wire \o o.done \o more /\ out' = after /\ UNCHANGED sound
  \/ sound' = FALSE /\ out' = o /\ UNCHANGED wire

-----------------------------------------------------------------------------
(* fcgi_write *)

(* Mutant: the record of the other stream goes on. *)
SameRecord(t) == out

(* A record in progress of another type is closed. *)
ForType(t) == IF out.hdr # NULL /\ out.type # t THEN Closed(out) ELSE out

(* Mutant: no room is kept for the header. *)
LimitNoHeader(o) == BufSize - o.pos

Limit(o) ==
  IF o.hdr # NULL THEN BufSize - o.pos
  ELSE IF BufSize - o.pos < HeaderSize THEN 0
  ELSE BufSize - o.pos - HeaderSize

Opened(o, t) == IF o.hdr = NULL THEN Open(o, t) ELSE o

(* The program is in a request, and calls. *)
Calls ==
  /\ call = NoCall /\ End \notin Range(wire)
  /\ calls > 0 /\ calls' = calls - 1

Says(t, n) == said' = [said EXCEPT ![t] = @ + n]

WriteFits(t, n) ==
  LET o == ForType(t) IN
  /\ Calls /\ n < Limit(o)
  /\ Says(t, n)
  /\ out' = Put(Opened(o, t), said[t], n)
  /\ peak' = out'.pos
  /\ UNCHANGED <<call, wire, sound>>

(* The buffer is filled and sent, and the rest begins the next record. *)
WriteFills(t, n) ==
  LET o     == ForType(t)
      fill  == Limit(o)
      full  == IF fill > 0 THEN Put(Opened(o, t), said[t], fill) ELSE Opened(o, t)
      after == IF n > fill THEN Put(Open(Empty, t), said[t] + fill, n - fill) ELSE Empty
  IN  /\ Calls /\ n >= fill /\ n - fill < BufSize - HeaderSize
      /\ Says(t, n)
      /\ Sends(Closed(full), <<>>, after)
      /\ peak' = Closed(full).pos
      /\ UNCHANGED call

(* What is in the buffer is closed; the text will be sent past it. *)
WriteLong(t, n) ==
  LET o == ForType(t) IN
  /\ Calls /\ n - Limit(o) >= BufSize - HeaderSize
  /\ Says(t, n)
  /\ out' = Closed(o) /\ peak' = out'.pos
  /\ call' = [type |-> t, from |-> said[t], len |-> n]
  /\ UNCHANGED <<wire, sound>>

(* Mutant: full records as long as there is text. *)
AnyLeft == call.len > 0

ManyLeft == call.len > MaxRecord

(* The buffer and a header are flushed, and then n bytes of text written;  *)
(* each of the two may fail.                                               *)
SendRecord(n, after) ==
  LET o == Direct(out, call.type, n) IN
  /\ peak' = o.pos
  /\ \/ Sends(o, <<Text(call.type, call.from, n)>>, after)
     \/ sound /\ sound' = FALSE /\ out' = Empty /\ wire' = wire \o o.done
  /\ UNCHANGED <<said, calls>>

LongRecord ==
  /\ call # NoCall /\ ManyLeft
  /\ SendRecord(FullRecord, Empty)
  /\ call' = IF sound' THEN [type |-> call.type, from |-> call.from + FullRecord,
                             len |-> call.len - FullRecord]
             ELSE NoCall

(* The last record is cut to a multiple of eight and the rest buffered. *)
LongEnds ==
  LET pad  == Pad(call.len)
      rest == IF pad # 0 THEN 8 - pad ELSE 0
      n    == call.len - rest
  IN  /\ call # NoCall /\ ~ManyLeft
      /\ SendRecord(n, IF pad # 0 THEN Put(Open(Empty, call.type), call.from + n, rest)
                       ELSE Empty)
      /\ call' = NoCall

-----------------------------------------------------------------------------
(* fcgi_flush *)

Flush ==
  /\ Calls
  /\ Sends(Closed(out), <<>>, Empty)
  /\ peak' = Closed(out).pos
  /\ UNCHANGED <<call, said>>

Finish ==
  /\ call = NoCall /\ End \notin Range(wire)
  /\ Sends(Closed(out), <<End>>, Empty)
  /\ peak' = Closed(out).pos + EndSize
  /\ UNCHANGED <<call, said, calls>>

(* fcgi_read_request for the next request, on a new connection if a        *)
(* write() failed.                                                         *)
NextRequest ==
  /\ call = NoCall
  /\ End \in Range(wire) \/ ~sound
  /\ out' = Empty /\ wire' = <<>> /\ sound' = TRUE
  /\ said' = Nothing /\ peak' = 0 /\ calls' = MaxCalls
  /\ UNCHANGED call

Write(t, n) == WriteFits(t, n) \/ WriteFills(t, n) \/ WriteLong(t, n)

Next ==
  \/ \E t \in Stream, n \in Lens : Write(t, n)
  \/ LongRecord \/ LongEnds \/ Flush \/ Finish \/ NextRequest

Spec == Init /\ [][Next]_vars

-----------------------------------------------------------------------------
(* As long as no write() has failed, records, padding and the header that  *)
(* may follow a full buffer stay in out_buf and the bytes reserved behind  *)
(* it for the end of the request, and between two calls in out_buf.        *)
WithinBuffer ==
  sound => out.pos <= BufSize /\ peak <= BufSize + EndSize

(* The web server: it expects the header of a record, its content, its     *)
(* padding, and the content of each stream in order.                       *)
Receive(d, c) ==
  CASE c.kind = "header"  -> [d EXCEPT !.ok = @ /\ d.left = 0 /\ d.pad = 0,
                                       !.type = c.stream, !.left = c.len, !.pad = c.pad,
                                       !.hollow = @ \/ c.len = 0]
    [] c.kind = "text"    -> [d EXCEPT !.ok = @ /\ c.stream = d.type /\ c.len <= d.left
                                              /\ c.from = d.got[c.stream],
                                       !.left = @ - c.len, !.got[c.stream] = @ + c.len]
    [] c.kind = "padding" -> [d EXCEPT !.ok = @ /\ d.left = 0 /\ c.len = d.pad, !.pad = 0]
    [] c.kind = "end"     -> [d EXCEPT !.ok = @ /\ d.left = 0 /\ d.pad = 0]

Received ==
  FoldLeft(Receive,
           [ok |-> TRUE, left |-> 0, pad |-> 0, type |-> NoType, got |-> Nothing, hollow |-> FALSE],
           wire \o Closed(out).done)

(* All that was written but the rest of a long call. *)
Heard == [s \in Stream |-> said[s] - (IF call.type = s THEN call.len ELSE 0)]

(* The program has written to more than one stream. *)
Mixed == \E s, t \in Stream : s # t /\ said[s] > 0 /\ said[t] > 0

(* Whatever the lengths of the calls, wherever the end of the buffer cuts  *)
(* them and whichever stream they are for: what was sent and what waits in *)
(* the buffer are well-formed records that have every byte written once,   *)
(* in the order of its stream.  A record without content would tell the    *)
(* server that its stream is over; none is sent while the program writes   *)
(* to one stream only.                                                     *)
StreamsAreWhole ==
  sound =>
    /\ Received.ok /\ Received.left = 0 /\ Received.pad = 0
    /\ Received.got = Heard
    /\ Received.hollow => Mixed
=============================================================================
