------------------------------ MODULE FcgiInput ------------------------------
(***************************************************************************)
(* How a worker reads requests from a connection: fcgi_read_request and    *)
(* fcgi_read, record by record.  What the web server sent is a sequence of *)
(* symbols: a header; one for the whole of a BEGIN_REQUEST, for a pair of  *)
(* parameters or for a part of one, for a piece of the body; one for the   *)
(* padding of a record.  Reads wait for what has not come, as safe_read    *)
(* does, unless the server has closed: then they come up short.            *)
(*                                                                         *)
(* The caller asks for the body until it has all of it or fcgi_read says   *)
(* that there is no more, as sapi_cgi_read_post does, or not at all, as    *)
(* main.cpp does.                                                          *)
(***************************************************************************)
EXTENDS Integers, SequencesExt

CONSTANTS Requests,   \* the requests a web server may send
          MaxLength,  \* FCGI_MAX_LENGTH
          Asked,      \* what the program may ask fcgi_read for at once
          MaxSent     \* bound: requests sent in a behaviour

ASSUME InputAssumption ==
  /\ Requests \subseteq
       [kind : {"begin", "values", "other"},
        known : BOOLEAN, keep : BOOLEAN,         \* its role is known, FCGI_KEEP_CONN
        params : Seq(Seq({"pair", "part"}) \ {<<>>}), \* the content of each record
        body : Seq(Nat \ {0}),                   \* the length of each record
        pad : {0, 1}, endPad : {0, 1}]           \* padding of full and of empty records
  /\ MaxLength \in Nat /\ MaxLength >= 2     \* BEGIN_REQUEST and its padding
  /\ Asked \subseteq Nat \ {0} /\ MaxSent \in Nat

VARIABLES
  input,   \* sent and not yet read
  eof,     \* the web server has closed
  sent,    \* ghost: the requests sent over this connection
  reader,  \* the worker: the phase it has reached; req->keep, in_len, in_pad and
           \* envp; the request; in fcgi_read what the call still wants, what it
           \* has and the result of its last read(); whether the program has asked
           \* for the body, was given nothing, or the request was refused, and
           \* whether it left a body unread
  given,   \* ghost: what the program was given of the body
  left     \* requests still to be sent

inputVars == <<input, eof, sent, reader, given, left>>

HeaderKind == {"BEGIN_REQUEST", "PARAMS", "STDIN", "GET_VALUES", "ABORT_REQUEST"}

Symbol == [kind : HeaderKind \cup {"begin", "pair", "part", "byte", "padding"},
           req : Nat, no : Nat, len : Nat, pad : {0, 1}]

Unread == [phase |-> "idle", keep |-> FALSE, len |-> 0, pad |-> 0, env |-> <<>>,
           req |-> 0, want |-> 0, ret |-> 0, piece |-> <<>>, over |-> FALSE,
           asked |-> FALSE, refused |-> FALSE, ignored |-> FALSE]

Reader ==
  [phase : {"idle", "header", "begin", "params", "pairs", "values", "work", "reading",
            "padding", "closed"},
   keep : BOOLEAN, len : Nat, pad : {0, 1}, env : Seq(Symbol), req : Nat, want : Nat,
   ret : Nat, piece : Seq(Symbol), over : BOOLEAN, asked : BOOLEAN, refused : BOOLEAN,
   ignored : BOOLEAN]

InputTypeOK ==
  /\ input \in Seq(Symbol) /\ given \in Seq(Symbol)
  /\ eof \in BOOLEAN
  /\ sent \in Seq(Requests)
  /\ reader \in Reader
  /\ left \in 0..MaxSent

InputInit ==
  /\ input = <<>> /\ eof = FALSE /\ sent = <<>>
  /\ reader = Unread /\ given = <<>> /\ left = MaxSent

-----------------------------------------------------------------------------
(* What the web server sends. *)

Sym(kind, i, no, len, pad) ==
  [kind |-> kind, req |-> i, no |-> no, len |-> len, pad |-> pad]

Symbols(kinds, i, from) == [n \in 1..Len(kinds) |-> Sym(kinds[n], i, from + n, 0, 0)]

Record(kind, i, kinds, from, pad) ==
  <<Sym(kind, i, 0, Len(kinds), pad)>> \o Symbols(kinds, i, from)
    \o (IF pad = 1 THEN <<Sym("padding", i, 0, 0, 0)>> ELSE <<>>)

(* How much there is in front of the content of record n, and in all.      *)
Before(contents, n) == Len(FlattenSeq(SubSeq(contents, 1, n - 1)))
Total(contents) == Len(FlattenSeq(contents))

(* A stream of records and the empty one that ends it. *)
Records(kind, i, contents, pad, endPad) ==
  FlattenSeq([n \in DOMAIN contents |->
                Record(kind, i, contents[n], Before(contents, n), pad)])
    \o Record(kind, i, <<>>, 0, endPad)

BodyOf(r) == [n \in DOMAIN r.body |-> [k \in 1..r.body[n] |-> "byte"]]

AsSent(i, r) ==
  CASE r.kind = "begin"  -> Record("BEGIN_REQUEST", i, <<"begin">>, 0, r.pad)
                              \o Records("PARAMS", i, r.params, r.pad, r.endPad)
                              \o Records("STDIN", i, BodyOf(r), r.pad, r.endPad)
    [] r.kind = "values" -> Record("GET_VALUES", i, <<"pair">>, 0, r.pad)
    [] r.kind = "other"  -> Record("ABORT_REQUEST", i, <<>>, 0, r.pad)

Send(r) ==
  /\ reader.phase = "idle" /\ ~eof /\ left > 0
  /\ sent' = Append(sent, r) /\ left' = left - 1
  /\ input' = input \o AsSent(Len(sent) + 1, r)
  /\ UNCHANGED <<eof, reader, given>>

(* The web server closes, or dies, and what it had not sent by then is     *)
(* never sent.                                                             *)
Leave(n) ==
  /\ reader.phase # "closed" /\ ~eof
  /\ eof' = TRUE
  /\ input' = SubSeq(input, 1, n)
  /\ UNCHANGED <<sent, reader, given, left>>

-----------------------------------------------------------------------------
(* safe_read *)

(* A header is there. *)
HasHeader == input # <<>> /\ Head(input).kind \in HeaderKind

(* There is none: the connection ends, or padding stands where the header  *)
(* should, and its zeros are no version.                                   *)
HasNoHeader == (input = <<>> /\ eof) \/ (input # <<>> /\ Head(input).kind = "padding")

(* All of a record that begins with n symbols of content, or too little.   *)
Whole(n) == Len(input) >= n
Short(n) == Len(input) < n /\ eof

Took(n) == SubSeq(input, 1, n)
Rest(n) == SubSeq(input, n + 1, Len(input))

-----------------------------------------------------------------------------
(* fcgi_read_request *)

ReadRequest ==
  /\ reader.phase = "idle"
  /\ input # <<>> \/ eof
  /\ reader' = [Unread EXCEPT !.phase = "header", !.pad = reader.pad, !.ignored = reader.ignored]
  /\ given' = <<>>
  /\ UNCHANGED <<input, eof, sent, left>>

(* fcgi_accept_request closes the connection by force. *)
Refused == reader' = [reader EXCEPT !.phase = "closed", !.refused = TRUE]

NoRequest ==
  /\ reader.phase \in {"header", "params"} /\ HasNoHeader
  /\ Refused
  /\ UNCHANGED <<input, eof, sent, given, left>>

(* Mutant: the empty record that ends the body before is not expected. *)
SkipsNone(h) == FALSE

SkipsEmpty(h) == h.kind = "STDIN" /\ h.len = 0

TooLong(h) == h.len + h.pad > MaxLength

TakesHeader ==
  LET h == Head(input) IN
  /\ reader.phase = "header" /\ HasHeader
  /\ input' = Tail(input)
  /\ reader' = IF SkipsEmpty(h) THEN reader
               ELSE IF TooLong(h) \/ h.kind \notin {"BEGIN_REQUEST", "GET_VALUES"}
               THEN [reader EXCEPT !.phase = "closed", !.refused = TRUE]
               ELSE [reader EXCEPT !.phase = IF h.kind = "BEGIN_REQUEST" THEN "begin" ELSE "values",
                                   !.want = h.len + h.pad]
  /\ UNCHANGED <<eof, sent, given, left>>

(* The record whose header was read, and what is behind it is closed off   *)
(* when it does not come.                                                  *)
TakesBegin ==
  LET r == sent[Head(input).req] IN
  /\ reader.phase = "begin" /\ Whole(reader.want)
  /\ input' = Rest(reader.want)
  /\ reader' = IF r.known
               THEN [reader EXCEPT !.phase = "params", !.want = 0, !.keep = r.keep,
                                   !.req = Head(input).req]
               ELSE [reader EXCEPT !.phase = "closed", !.refused = TRUE]
  /\ UNCHANGED <<eof, sent, given, left>>

(* The answer to GET_VALUES is the end of the connection. *)
TakesValues ==
  /\ reader.phase = "values" /\ Whole(reader.want)
  /\ input' = Rest(reader.want)
  /\ Refused
  /\ UNCHANGED <<eof, sent, given, left>>

TakesParams ==
  LET h == Head(input) IN
  /\ reader.phase = "params" /\ HasHeader
  /\ input' = Tail(input)
  /\ reader' = IF h.kind # "PARAMS" \/ h.len = 0 THEN [reader EXCEPT !.phase = "work"]
               ELSE IF TooLong(h) THEN [reader EXCEPT !.phase = "closed", !.refused = TRUE]
               ELSE [reader EXCEPT !.phase = "pairs", !.want = h.len + h.pad]
  /\ UNCHANGED <<eof, sent, given, left>>

(* fcgi_get_params: every record is taken for a sequence of whole pairs,   *)
(* up to its padding.                                                      *)
Unpadded(s) == IF Last(s).kind = "padding" THEN Front(s) ELSE s

TakesPairs ==
  LET s == Took(reader.want) IN
  /\ reader.phase = "pairs" /\ Whole(reader.want)
  /\ input' = Rest(reader.want)
  /\ reader' = IF \E n \in DOMAIN s : s[n].kind = "part"
               THEN [reader EXCEPT !.phase = "closed", !.refused = TRUE, !.keep = FALSE]
               ELSE [reader EXCEPT !.phase = "params", !.want = 0, !.env = @ \o Unpadded(s)]
  /\ UNCHANGED <<eof, sent, given, left>>

CutOff ==
  /\ reader.phase \in {"begin", "values", "pairs"} /\ Short(reader.want)
  /\ Refused
  /\ UNCHANGED <<input, eof, sent, given, left>>

-----------------------------------------------------------------------------
(* fcgi_read *)

Length(r) == Total(BodyOf(r))

(* The program asks until it has the body or is given nothing. *)
HasBody == Len(given) = Length(sent[reader.req])

Asks(n) ==
  /\ reader.phase = "work" /\ ~reader.over
  /\ reader.asked => ~HasBody
  /\ reader' = [reader EXCEPT !.phase = "reading", !.want = n, !.asked = TRUE]
  /\ UNCHANGED <<input, eof, sent, given, left>>

(* The call returns and has given s. *)
Returns(rd, s) ==
  /\ reader' = [rd EXCEPT !.phase = "work", !.want = 0, !.ret = 0, !.piece = <<>>,
                          !.over = (s = <<>>)]
  /\ given' = given \o s

(* The loop goes on while anything is wanted. *)
GoesOn(rd) ==
  IF rd.want = 0 THEN Returns(rd, rd.piece)
  ELSE reader' = [rd EXCEPT !.phase = "reading"] /\ UNCHANGED given

NoRecord ==
  /\ reader.phase = "reading" /\ reader.len = 0
  /\ \/ HasNoHeader /\ UNCHANGED input
     \/ HasHeader /\ Head(input).kind # "STDIN" /\ input' = Tail(input)
  /\ Returns([reader EXCEPT !.keep = FALSE], <<>>)
  /\ UNCHANGED <<eof, sent, left>>

NextRecord ==
  LET h  == Head(input)
      rd == [reader EXCEPT !.len = h.len, !.pad = h.pad]
  IN  /\ reader.phase = "reading" /\ reader.len = 0
      /\ HasHeader /\ h.kind = "STDIN"
      /\ input' = Tail(input)
      /\ IF h.len = 0 THEN Returns(rd, rd.piece) ELSE GoesOn(rd)
      /\ UNCHANGED <<eof, sent, left>>

(* Mutant: padding is left to the next read. *)
PaddingLeft(rd) == FALSE

PaddingNext(rd) == rd.len = 0 /\ rd.pad = 1

Least(x, y) == IF x <= y THEN x ELSE y

(* read() gives what the record has and the call wants, or less when the   *)
(* connection ends.                                                        *)
Content ==
  LET n  == Least(reader.len, reader.want)
      k  == Least(n, Len(input))
      rd == [reader EXCEPT !.len = @ - k, !.want = @ - k, !.ret = k, !.piece = @ \o Took(k)]
  IN  /\ reader.phase = "reading" /\ reader.len > 0
      /\ Whole(n) \/ Short(n)
      /\ input' = Rest(k)
      /\ IF k = 0 \/ rd.len > 0 THEN Returns(rd, rd.piece)
         ELSE IF PaddingNext(rd) THEN reader' = [rd EXCEPT !.phase = "padding"] /\ UNCHANGED given
         ELSE GoesOn(rd)
      /\ UNCHANGED <<eof, sent, left>>

(* read() fails once the web server has reset the connection. *)
ContentFails ==
  /\ reader.phase = "reading" /\ reader.len > 0 /\ eof
  /\ Returns([reader EXCEPT !.keep = FALSE], <<>>)
  /\ UNCHANGED <<input, eof, sent, left>>

(* When the padding does not come the call tells of its last read() only.  *)
RecordPadding ==
  /\ reader.phase = "padding"
  /\ \/ Whole(1) /\ input' = Tail(input) /\ GoesOn(reader)
     \/ /\ Short(1) /\ UNCHANGED input
        /\ Returns([reader EXCEPT !.keep = FALSE], SubSeq(reader.piece, 1, reader.ret))
  /\ UNCHANGED <<eof, sent, left>>

-----------------------------------------------------------------------------
(* The end of the request and the next connection. *)

(* fcgi_finish_request *)
FinishRequest(kept) ==
  /\ reader.phase = "work"
  /\ reader.asked => reader.over \/ HasBody
  /\ reader' = [reader EXCEPT !.phase = IF kept THEN "idle" ELSE "closed",
                              !.ignored = @ \/ (~reader.asked /\ ~HasBody)]
  /\ UNCHANGED <<input, eof, sent, given, left>>

Accept ==
  /\ reader.phase = "closed"
  /\ input' = <<>> /\ eof' = FALSE /\ sent' = <<>> /\ given' = <<>>
  /\ reader' = [Unread EXCEPT !.pad = reader.pad]
  /\ UNCHANGED left

ReadsRequest ==
  \/ NoRequest \/ TakesHeader \/ TakesBegin \/ TakesValues \/ TakesParams \/ TakesPairs
  \/ CutOff

ReadsBody ==
  \/ \E n \in Asked : Asks(n)
  \/ NoRecord \/ NextRecord \/ Content \/ ContentFails \/ RecordPadding

Server ==
  \/ \E r \in Requests : Send(r)
  \/ \E n \in 0..Len(input) : Leave(n)

-----------------------------------------------------------------------------
(* What may keep the worker from reading a request, or its body, whole: the *)
(* server closed; it sent what is not understood; it put padding behind an  *)
(* empty record, which is not read; or the program left a body unread.      *)
Malformed(r) ==
  \/ r.kind # "begin" \/ ~r.known
  \/ \E n \in DOMAIN r.params :
       Len(r.params[n]) + r.pad > MaxLength \/ "part" \in Range(r.params[n])

Padded(r) == r.endPad = 1

All(kind, i, n) == [k \in 1..n |-> Sym(kind, i, k, 0, 0)]

(* A request taken has all of its own parameters and no other, in order.    *)
(* What the program is given of the body is the body of that request from   *)
(* its first byte on, and all of it when fcgi_read says it is over.  After  *)
(* a request whose body was read the connection is at the beginning of the  *)
(* next one: nothing is refused without a cause.                            *)
RequestsAreWhole ==
  /\ reader.phase \in {"work", "reading", "padding"} =>
       LET r == sent[reader.req] IN
       /\ ~Malformed(r)
       /\ reader.env = All("pair", reader.req, Total(r.params))
       /\ IsPrefix(given \o reader.piece, All("byte", reader.req, Length(r)))
       /\ reader.over => HasBody \/ eof \/ Padded(r)
  /\ reader.refused =>
       \/ eof \/ reader.ignored
       \/ \E n \in DOMAIN sent : Malformed(sent[n]) \/ Padded(sent[n])
=============================================================================
