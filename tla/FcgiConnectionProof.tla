----------------------- MODULE FcgiConnectionProof -----------------------
(* fcgi_write and fcgi_flush stay within the buffer of a request, whatever *)
(* its size, a multiple of eight, and whatever is written, and what they   *)
(* send are whole records of all that was written; and so it is when       *)
(* requests are read over the same connection by the same process: the     *)
(* composition implements FcgiStream, whose Init, Next, vars and Spec the  *)
(* first parts are about. The last part is about what is read: whatever a  *)
(* web server sends, and wherever it stops, fcgi_read_request and          *)
(* fcgi_read take each request for what it is, over a kept connection too. *)
EXTENDS FcgiConnection, TLAPS, SequenceTheorems, NaturalsInduction, WellFoundedInduction

-----------------------------------------------------------------------------
(* Padding leads to the next multiple of eight, and no further. *)
LEMMA PadLemma ==
  ASSUME NEW n \in Nat
  PROVE  /\ Pad(n) \in 0..7
         /\ (n + Pad(n)) % 8 = 0
         /\ n % 8 = 0 => Pad(n) = 0
BY DEF Pad

(* A bound that is a multiple of eight is not passed by padding up to it.  *)
LEMMA PadFits ==
  ASSUME NEW h \in Nat, NEW p \in Nat, NEW b \in Nat,
         h % 8 = 0, b % 8 = 0, h + 8 <= p, p <= b
  PROVE  /\ (p + Pad(p - (h + 8))) % 8 = 0
         /\ p + Pad(p - (h + 8)) <= b
         /\ p + Pad(p - (h + 8)) >= p
<1> DEFINE k == Pad(p - (h + 8))
<1>1. /\ k \in 0..7
      /\ (p - (h + 8) + k) % 8 = 0
  <2>1. p - (h + 8) \in Nat
    OBVIOUS
  <2> QED BY <2>1, PadLemma
<1> HIDE DEF k
<1>2. (p + k) % 8 = 0
  BY <1>1
<1>3. p + k <= b
  BY <1>1, <1>2
<1>4. p + k >= p
  BY <1>1
<1> QED BY <1>2, <1>3, <1>4 DEF k

-----------------------------------------------------------------------------
(* What the operators on the buffer do. *)

(* A record in progress has a header at a multiple of eight, and so has    *)
(* the next one if there is none.                                          *)
Framed(o) ==
  IF o.hdr = NULL THEN o.pos % 8 = 0
  ELSE o.type \in Stream /\ o.hdr % 8 = 0 /\ o.hdr + 8 <= o.pos

LEMMA EmptyLemma == Empty \in Buffer /\ Framed(Empty) /\ Empty.hdr = NULL /\ Empty.pos = 0
BY DEF Empty, Buffer, Framed

LEMMA TextLemma ==
  ASSUME NEW t \in Stream, NEW from \in Nat, NEW n \in Nat
  PROVE  Text(t, from, n) \in Chunk
BY DEF Text, Piece, Chunk

LEMMA HeaderLemma ==
  ASSUME NEW t \in Stream, NEW n \in Nat
  PROVE  Header(t, n) \in Chunk
<1>1. n % 65536 \in Nat
  BY ONLY n \in Nat
<1>2. Pad(n) \in 0..7
  BY PadLemma
<1> DEFINE len == n % 65536
           pad == Pad(n)
<1>3. Header(t, n) = [kind |-> "header", stream |-> t, from |-> 0, len |-> len, pad |-> pad]
  BY DEF Header, Piece
<1>4. len \in Nat /\ pad \in Nat
  BY <1>1, <1>2
<1> HIDE DEF len, pad
<1> QED BY <1>3, <1>4 DEF Chunk

LEMMA OpenLemma ==
  ASSUME NEW o \in Buffer, Framed(o), o.hdr = NULL, NEW t \in Stream
  PROVE  /\ Open(o, t) \in Buffer
         /\ Framed(Open(o, t))
         /\ Open(o, t).hdr # NULL
         /\ Open(o, t).pos = o.pos + 8
<1>1. Open(o, t) = [pos |-> o.pos + 8, hdr |-> o.pos, type |-> t, text |-> <<>>,
                    done |-> o.done]
  BY DEF Open, HeaderSize
<1>2. o.pos \in Nat /\ o.pos % 8 = 0 /\ o.done \in Seq(Chunk)
  BY DEF Buffer, Framed
<1>3. Open(o, t) \in Buffer
  BY <1>1, <1>2 DEF Buffer
<1> QED BY <1>1, <1>2, <1>3 DEF Framed, NULL

LEMMA PutLemma ==
  ASSUME NEW o \in Buffer, Framed(o), o.hdr # NULL, NEW from \in Nat, NEW n \in Nat
  PROVE  /\ Put(o, from, n) \in Buffer
         /\ Framed(Put(o, from, n))
         /\ Put(o, from, n).hdr # NULL
         /\ Put(o, from, n).pos = o.pos + n
<1>1. Text(o.type, from, n) \in Chunk
  BY TextLemma DEF Framed
<1>2. Append(o.text, Text(o.type, from, n)) \in Seq(Chunk)
  BY <1>1 DEF Buffer
<1>3. Put(o, from, n) = [pos |-> o.pos + n, hdr |-> o.hdr, type |-> o.type,
                         text |-> Append(o.text, Text(o.type, from, n)), done |-> o.done]
  BY DEF Put
<1>4. Put(o, from, n) \in Buffer
  BY <1>2, <1>3 DEF Buffer
<1> QED BY <1>3, <1>4 DEF Framed, Buffer

LEMMA ClosedLemma ==
  ASSUME NEW o \in Buffer, Framed(o)
  PROVE  /\ Closed(o) \in Buffer
         /\ Framed(Closed(o))
         /\ Closed(o).hdr = NULL
         /\ \A b \in Nat : b % 8 = 0 /\ o.pos <= b => Closed(o).pos <= b
<1>1. CASE o.hdr = NULL
  BY <1>1 DEF Closed
<1>2. CASE o.hdr # NULL
  <2> DEFINE n == o.pos - (o.hdr + 8)
             k == Pad(n)
             c == [pos |-> o.pos + k, hdr |-> NULL, type |-> NoType, text |-> <<>>,
                   done |-> o.done \o <<Header(o.type, n)>> \o o.text \o Padding(k)]
  <2>1. Closed(o) = c
    BY <1>2 DEF Closed, HeaderSize
  <2>2. /\ o.pos \in Nat /\ o.hdr \in Nat /\ o.type \in Stream
        /\ o.hdr % 8 = 0 /\ o.hdr + 8 <= o.pos
        /\ o.done \in Seq(Chunk) /\ o.text \in Seq(Chunk)
    BY <1>2 DEF Buffer, Framed
  <2>3. n \in Nat
    BY <2>2
  <2>4. k \in 0..7
    BY <2>3, PadLemma
  <2>5. Header(o.type, n) \in Chunk
    BY <2>2, <2>3, HeaderLemma
  <2>6. Padding(k) \in Seq(Chunk)
    <3>1. Piece("padding", NoType, 0, k, 0) \in Chunk
      BY <2>4 DEF Piece, Chunk
    <3> QED BY <3>1 DEF Padding
  <2>7. \A b \in Nat : b % 8 = 0 /\ o.pos <= b =>
          /\ (o.pos + k) % 8 = 0
          /\ o.pos + k <= b
    BY <2>2, PadFits
  <2>8. (o.pos + k) % 8 = 0
    <3>1. PICK b \in Nat : b % 8 = 0 /\ o.pos <= b
      <4>1. 8 * o.pos \in Nat /\ (8 * o.pos) % 8 = 0 /\ o.pos <= 8 * o.pos
        BY <2>2
      <4> QED BY <4>1
    <3> QED BY <3>1, <2>7
  <2> HIDE DEF n, k
  <2>9. o.done \o <<Header(o.type, n)>> \o o.text \o Padding(k) \in Seq(Chunk)
    BY <2>2, <2>5, <2>6
  <2>10. c \in Buffer /\ c.hdr = NULL /\ c.pos = o.pos + k
    BY <2>2, <2>4, <2>9 DEF Buffer
  <2> QED BY <2>1, <2>7, <2>8, <2>10 DEF Framed
<1> QED BY <1>1, <1>2

LEMMA OpenedLemma ==
  ASSUME NEW o \in Buffer, Framed(o), NEW t \in Stream
  PROVE  /\ Opened(o, t) \in Buffer
         /\ Framed(Opened(o, t))
         /\ Opened(o, t).hdr # NULL
         /\ Opened(o, t).pos = IF o.hdr = NULL THEN o.pos + 8 ELSE o.pos
BY OpenLemma DEF Opened

LEMMA DirectLemma ==
  ASSUME NEW o \in Buffer, Framed(o), o.hdr = NULL, NEW t \in Stream, NEW n \in Nat
  PROVE  /\ Direct(o, t, n) \in Buffer
         /\ Framed(Direct(o, t, n))
         /\ Direct(o, t, n).hdr = NULL
         /\ Direct(o, t, n).pos = o.pos + 8
<1>1. Append(o.done, Header(t, n)) \in Seq(Chunk)
  BY HeaderLemma DEF Buffer
<1>2. o.pos \in Nat /\ o.pos % 8 = 0
  BY DEF Buffer, Framed
<1> QED BY <1>1, <1>2 DEF Direct, Buffer, Framed, HeaderSize

(* A write() that succeeds leaves the buffer as it should be; one that     *)
(* fails leaves no record in progress.                                     *)
LEMMA SendsLemma ==
  ASSUME TypeOK,
         NEW o \in Buffer, Framed(o), o.hdr = NULL,
         NEW after \in Buffer, Framed(after),
         NEW more \in Seq(Chunk),
         Sends(o, more, after)
  PROVE  /\ out' \in Buffer /\ Framed(out')
         /\ wire' \in Seq(Chunk) /\ sound' \in BOOLEAN
         /\ sound' => sound /\ out' = after
         /\ out'.hdr # NULL => out' = after
<1>1. wire \in Seq(Chunk) /\ sound \in BOOLEAN /\ o.done \in Seq(Chunk)
  BY DEF TypeOK, Buffer
<1>2. wire \o o.done \o more \in Seq(Chunk)
  BY <1>1
<1>3. CASE sound /\ wire' = wire \o o.done \o more /\ out' = after /\ sound' = sound
  BY <1>1, <1>2, <1>3
<1>4. CASE sound' = FALSE /\ out' = o /\ wire' = wire
  BY <1>1, <1>4
<1> QED BY <1>3, <1>4 DEF Sends

-----------------------------------------------------------------------------
(* The invariant. *)

(* A record in progress is always within the buffer, even after a failure; *)
(* a long call has closed the record before it.                            *)
IInv ==
  /\ TypeOK
  /\ Framed(out)
  /\ out.hdr # NULL => out.pos <= BufSize
  /\ WithinBuffer
  /\ call # NoCall => call.type \in Stream /\ out.hdr = NULL

LEMMA InitIInv == Init => IInv
BY EmptyLemma, StreamAssumption
   DEF Init, IInv, TypeOK, WithinBuffer, NoCall, Nothing, EndSize

(* The record of another stream is closed, and the buffer is not left.     *)
LEMMA ForTypeLemma ==
  ASSUME IInv, NEW t \in Stream
  PROVE  /\ ForType(t) \in Buffer
         /\ Framed(ForType(t))
         /\ ForType(t).hdr # NULL => ForType(t).pos <= BufSize
         /\ sound => ForType(t).pos <= BufSize
BY ClosedLemma, StreamAssumption DEF ForType, IInv, TypeOK, WithinBuffer

(* What Limit promises. *)
LEMMA LimitLemma ==
  ASSUME NEW o \in Buffer, Framed(o), o.hdr # NULL => o.pos <= BufSize, NEW t \in Stream
  PROVE  /\ Limit(o) \in Nat
         /\ Limit(o) > 0 => Opened(o, t).pos + Limit(o) = BufSize
         /\ o.pos <= BufSize => Opened(o, t).pos <= BufSize + 8
<1>1. o.pos \in Nat /\ BufSize \in Nat
  BY StreamAssumption DEF Buffer
<1> QED BY <1>1, OpenedLemma DEF Limit, HeaderSize

-----------------------------------------------------------------------------
(* The steps. *)

LEMMA WriteFitsLemma ==
  ASSUME IInv, NEW t \in Stream, NEW n \in Nat, WriteFits(t, n)
  PROVE  IInv'
<1> DEFINE o == ForType(t)
           p == Opened(o, t)
           q == Put(p, said[t], n)
<1>1. /\ o \in Buffer /\ Framed(o)
      /\ o.hdr # NULL => o.pos <= BufSize
  BY ForTypeLemma
<1>2. said[t] \in Nat
  BY DEF IInv, TypeOK
<1> HIDE DEF o
<1>3. p \in Buffer /\ Framed(p) /\ p.hdr # NULL
  BY <1>1, OpenedLemma
<1>4. Limit(o) \in Nat /\ (Limit(o) > 0 => p.pos + Limit(o) = BufSize)
  BY <1>1, LimitLemma
<1> HIDE DEF p
<1>5. q \in Buffer /\ Framed(q) /\ q.hdr # NULL /\ q.pos = p.pos + n
  BY <1>2, <1>3, PutLemma
<1>6. p.pos \in Nat /\ BufSize \in Nat
  BY <1>3, StreamAssumption DEF Buffer
<1> HIDE DEF q
<1>7. /\ n < Limit(o) /\ out' = q /\ peak' = q.pos
      /\ call' = call /\ wire' = wire /\ sound' = sound /\ call = NoCall
      /\ said' = [said EXCEPT ![t] = @ + n]
      /\ calls > 0 /\ calls' = calls - 1
  BY DEF WriteFits, Calls, Says, o, p, q
<1>8. q.pos <= BufSize
  BY <1>4, <1>5, <1>6, <1>7
<1>9. TypeOK'
  <2>1. said' \in [Stream -> Nat]
    BY <1>7 DEF IInv, TypeOK
  <2>2. calls' \in 0..MaxCalls
    BY <1>7, StreamAssumption DEF IInv, TypeOK
  <2>3. peak' \in Nat
    BY <1>5, <1>7 DEF Buffer
  <2> QED BY <1>5, <1>7, <2>1, <2>2, <2>3 DEF IInv, TypeOK
<1>10. WithinBuffer'
  BY <1>6, <1>7, <1>8, <1>5 DEF WithinBuffer, EndSize, Buffer
<1> QED BY <1>5, <1>7, <1>8, <1>9, <1>10 DEF IInv

LEMMA WriteFillsLemma ==
  ASSUME IInv, NEW t \in Stream, NEW n \in Nat, WriteFills(t, n)
  PROVE  IInv'
<1> DEFINE o     == ForType(t)
           fill  == Limit(o)
           p     == Opened(o, t)
           full  == IF fill > 0 THEN Put(p, said[t], fill) ELSE p
           start == Open(Empty, t)
           after == IF n > fill THEN Put(start, said[t] + fill, n - fill) ELSE Empty
           c     == Closed(full)
<1>1. /\ o \in Buffer /\ Framed(o)
      /\ o.hdr # NULL => o.pos <= BufSize
      /\ sound => o.pos <= BufSize
  BY ForTypeLemma
<1>2. said[t] \in Nat
  BY DEF IInv, TypeOK
<1>3. /\ n >= fill /\ n - fill < BufSize - 8 /\ calls > 0 /\ calls' = calls - 1
      /\ said' = [said EXCEPT ![t] = @ + n]
      /\ Sends(c, <<>>, after) /\ peak' = c.pos
      /\ call' = call /\ call = NoCall
  BY DEF WriteFills, Calls, Says, HeaderSize
<1> HIDE DEF o
<1>4. /\ fill \in Nat /\ (fill > 0 => p.pos + fill = BufSize)
      /\ sound => p.pos <= BufSize + 8
  BY <1>1, LimitLemma
<1>5. p \in Buffer /\ Framed(p) /\ p.hdr # NULL
  BY <1>1, OpenedLemma
<1>6. start \in Buffer /\ Framed(start) /\ start.hdr # NULL /\ start.pos = 8
  BY EmptyLemma, OpenLemma
<1>7. BufSize \in Nat /\ BufSize % 8 = 0 /\ p.pos \in Nat
  BY <1>5, StreamAssumption DEF Buffer
<1> HIDE DEF fill, p, start
<1>8. /\ full \in Buffer /\ Framed(full)
      /\ sound => full.pos <= BufSize + 8
  <2>1. CASE fill > 0
    <3>1. /\ Put(p, said[t], fill) \in Buffer /\ Framed(Put(p, said[t], fill))
          /\ Put(p, said[t], fill).pos = p.pos + fill
      BY <1>2, <1>4, <1>5, PutLemma
    <3> QED BY <2>1, <3>1, <1>4, <1>7
  <2>2. CASE ~ fill > 0
    BY <2>2, <1>4, <1>5
  <2> QED BY <2>1, <2>2
<1>9. /\ after \in Buffer /\ Framed(after) /\ after.pos <= BufSize
  <2>1. CASE n > fill
    <3> DEFINE from == said[t] + fill
               remains == n - fill
    <3>1. from \in Nat /\ remains \in Nat /\ remains < BufSize - 8
      BY <2>1, <1>2, <1>3, <1>4
    <3>2. after = Put(start, from, remains)
      BY <2>1
    <3> HIDE DEF from, remains, after
    <3>3. /\ Put(start, from, remains) \in Buffer /\ Framed(Put(start, from, remains))
          /\ Put(start, from, remains).pos = start.pos + remains
      BY <3>1, <1>6, PutLemma
    <3> QED BY <3>1, <3>2, <3>3, <1>6, <1>7
  <2>2. CASE ~ n > fill
    BY <2>2, <1>7, EmptyLemma
  <2> QED BY <2>1, <2>2
<1> HIDE DEF full, after
<1>10. /\ c \in Buffer /\ Framed(c) /\ c.hdr = NULL
       /\ sound => c.pos <= BufSize + 8
  <2>1. BufSize + 8 \in Nat /\ (BufSize + 8) % 8 = 0
    BY <1>7
  <2> QED BY <2>1, <1>8, ClosedLemma
<1> HIDE DEF c
<1>11. /\ out' \in Buffer /\ Framed(out')
       /\ wire' \in Seq(Chunk) /\ sound' \in BOOLEAN
       /\ sound' => sound /\ out' = after
       /\ out'.hdr # NULL => out' = after
  <2>1. TypeOK /\ <<>> \in Seq(Chunk)
    BY DEF IInv
  <2>2. Sends(c, <<>>, after)
    BY <1>3
  <2> QED BY <2>1, <2>2, <1>9, <1>10, SendsLemma
<1>12. TypeOK'
  <2>1. said' \in [Stream -> Nat]
    BY <1>3 DEF IInv, TypeOK
  <2>2. calls' \in 0..MaxCalls
    BY <1>3, StreamAssumption DEF IInv, TypeOK
  <2>3. peak' \in Nat
    BY <1>3, <1>10 DEF Buffer
  <2> QED BY <1>3, <1>11, <2>1, <2>2, <2>3 DEF IInv, TypeOK
<1>13. WithinBuffer'
  <2>1. c.pos \in Nat
    BY <1>10 DEF Buffer
  <2> QED BY <2>1, <1>3, <1>7, <1>9, <1>10, <1>11 DEF WithinBuffer, EndSize
<1> QED BY <1>3, <1>9, <1>11, <1>12, <1>13 DEF IInv

LEMMA WriteLongLemma ==
  ASSUME IInv, NEW t \in Stream, NEW n \in Nat, WriteLong(t, n)
  PROVE  IInv'
<1> DEFINE o == ForType(t)
           c == Closed(o)
<1>1. /\ o \in Buffer /\ Framed(o)
      /\ sound => o.pos <= BufSize
  BY ForTypeLemma
<1>2. BufSize \in Nat /\ BufSize % 8 = 0
  BY StreamAssumption
<1>3. /\ said' = [said EXCEPT ![t] = @ + n]
      /\ calls > 0 /\ calls' = calls - 1
      /\ out' = c /\ peak' = c.pos
      /\ call' = [type |-> t, from |-> said[t], len |-> n]
      /\ wire' = wire /\ sound' = sound
  BY DEF WriteLong, Calls, Says
<1> HIDE DEF o
<1>4. /\ c \in Buffer /\ Framed(c) /\ c.hdr = NULL
      /\ sound => c.pos <= BufSize
  BY <1>1, <1>2, ClosedLemma
<1> HIDE DEF c
<1>5. c.pos \in Nat
  BY <1>4 DEF Buffer
<1>6. TypeOK'
  <2>1. said' \in [Stream -> Nat] /\ said[t] \in Nat
    BY <1>3 DEF IInv, TypeOK
  <2>2. calls' \in 0..MaxCalls
    BY <1>3, StreamAssumption DEF IInv, TypeOK
  <2> QED BY <1>3, <1>4, <1>5, <2>1, <2>2 DEF IInv, TypeOK
<1>7. WithinBuffer'
  BY <1>2, <1>3, <1>4, <1>5 DEF WithinBuffer, EndSize
<1> QED BY <1>3, <1>4, <1>6, <1>7 DEF IInv

(* A header behind what is buffered, then text from the caller's memory.   *)
LEMMA SendRecordLemma ==
  ASSUME IInv, call # NoCall, NEW n \in Nat,
         NEW after \in Buffer, Framed(after), after.pos <= BufSize,
         SendRecord(n, after)
  PROVE  /\ out' \in Buffer /\ Framed(out')
         /\ out'.hdr # NULL => out'.pos <= BufSize
         /\ wire' \in Seq(Chunk) /\ sound' \in BOOLEAN
         /\ said' = said /\ calls' = calls /\ peak' \in Nat
         /\ WithinBuffer'
         /\ sound' => out' = after
<1> DEFINE o == Direct(out, call.type, n)
           piece == <<Text(call.type, call.from, n)>>
<1>1. /\ out \in Buffer /\ Framed(out) /\ out.hdr = NULL /\ call.type \in Stream
      /\ call.from \in Nat /\ wire \in Seq(Chunk)
      /\ sound => out.pos <= BufSize
  BY DEF IInv, TypeOK, WithinBuffer
<1>2. /\ o \in Buffer /\ Framed(o) /\ o.hdr = NULL /\ o.pos = out.pos + 8
  BY <1>1, DirectLemma
<1>3. piece \in Seq(Chunk)
  BY <1>1, TextLemma
<1>4. BufSize \in Nat /\ out.pos \in Nat /\ o.pos \in Nat /\ after.pos \in Nat
  BY <1>1, <1>2, StreamAssumption DEF Buffer
<1>5. /\ peak' = o.pos /\ said' = said /\ calls' = calls
      /\ \/ Sends(o, piece, after)
         \/ sound /\ sound' = FALSE /\ out' = Empty /\ wire' = wire \o o.done
  BY DEF SendRecord
<1> HIDE DEF o, piece
<1>6. CASE Sends(o, piece, after)
  <2>1. /\ out' \in Buffer /\ Framed(out')
        /\ wire' \in Seq(Chunk) /\ sound' \in BOOLEAN
        /\ sound' => sound /\ out' = after
        /\ out'.hdr # NULL => out' = after
    BY <1>2, <1>3, <1>6, SendsLemma DEF IInv
  <2>2. WithinBuffer'
    BY <2>1, <1>1, <1>2, <1>4, <1>5 DEF WithinBuffer, EndSize
  <2> QED BY <2>1, <2>2, <1>4, <1>5
<1>7. CASE sound /\ sound' = FALSE /\ out' = Empty /\ wire' = wire \o o.done
  <2>1. wire' \in Seq(Chunk)
    BY <1>1, <1>2, <1>7 DEF Buffer
  <2> QED BY <2>1, <1>4, <1>5, <1>7, EmptyLemma DEF WithinBuffer
<1> QED BY <1>5, <1>6, <1>7

LEMMA LongRecordLemma == IInv /\ LongRecord => IInv'
<1> SUFFICES ASSUME IInv, LongRecord PROVE IInv'
  OBVIOUS
<1>1. /\ call # NoCall /\ call.len > 65535
      /\ SendRecord(65528, Empty)
      /\ call' = IF sound' THEN [type |-> call.type, from |-> call.from + 65528,
                                 len |-> call.len - 65528]
                 ELSE NoCall
  BY DEF LongRecord, ManyLeft, MaxRecord, FullRecord
<1>2. /\ out' \in Buffer /\ Framed(out')
      /\ out'.hdr # NULL => out'.pos <= BufSize
      /\ wire' \in Seq(Chunk) /\ sound' \in BOOLEAN
      /\ said' = said /\ calls' = calls /\ peak' \in Nat
      /\ WithinBuffer'
      /\ sound' => out' = Empty
  <2> DEFINE n == 65528
             e == Empty
  <2>1. e \in Buffer /\ Framed(e) /\ e.pos <= BufSize /\ n \in Nat
    BY EmptyLemma, StreamAssumption
  <2>2. SendRecord(n, e) /\ (sound' => out' = e) = (sound' => out' = Empty)
    BY <1>1
  <2> HIDE DEF n, e
  <2> QED BY <2>1, <2>2, <1>1, SendRecordLemma
<1>3. call \in [type : Stream \cup {NoType}, from : Nat, len : Nat] /\ call.type \in Stream
  BY <1>1 DEF IInv, TypeOK
<1>4. /\ call' \in [type : Stream \cup {NoType}, from : Nat, len : Nat]
      /\ call' # NoCall => call'.type \in Stream
  <2>1. CASE sound'
    <3> DEFINE from == call.from + 65528
               len  == call.len - 65528
    <3>1. from \in Nat /\ len \in Nat
      BY <1>1, <1>3
    <3>2. call' = [type |-> call.type, from |-> from, len |-> len]
      BY <2>1, <1>1
    <3> HIDE DEF from, len
    <3>3. call.type \in Stream \cup {NoType}
      BY <1>3
    <3>4. call' \in [type : Stream \cup {NoType}, from : Nat, len : Nat]
      BY <3>1, <3>2, <3>3
    <3>5. call'.type = call.type
      BY <3>2
    <3> QED BY <3>4, <3>5, <1>3
  <2>2. CASE ~sound'
    BY <2>2, <1>1 DEF NoCall
  <2> QED BY <2>1, <2>2
<1>5. call' # NoCall => out'.hdr = NULL
  <2>1. call' # NoCall => sound'
    BY <1>1
  <2> QED BY <2>1, <1>2, EmptyLemma
<1>6. TypeOK'
  BY <1>2, <1>4 DEF IInv, TypeOK
<1> QED BY <1>2, <1>4, <1>5, <1>6 DEF IInv

(* What is buffered of the last record is less than eight bytes.           *)
LEMMA LongEndsLemma == IInv /\ LongEnds => IInv'
<1> SUFFICES ASSUME IInv, LongEnds PROVE IInv'
  OBVIOUS
<1> DEFINE pad   == Pad(call.len)
           rest  == IF pad # 0 THEN 8 - pad ELSE 0
           n     == call.len - rest
           start == Open(Empty, call.type)
           after == IF pad # 0 THEN Put(start, call.from + n, rest) ELSE Empty
<1>1. call # NoCall /\ SendRecord(n, after) /\ call' = NoCall
  BY DEF LongEnds
<1>2. call.type \in Stream /\ call.from \in Nat /\ call.len \in Nat
  BY <1>1 DEF IInv, TypeOK
<1>3. pad \in 0..7 /\ rest \in 0..7 /\ n \in Nat
  <2>1. pad \in 0..7 /\ (pad # 0 => call.len % 8 = 8 - pad)
    BY <1>2 DEF Pad
  <2>2. call.len % 8 <= call.len
    BY <1>2
  <2> QED BY <1>2, <2>1, <2>2
<1>4. start \in Buffer /\ Framed(start) /\ start.hdr # NULL /\ start.pos = 8
  BY <1>2, EmptyLemma, OpenLemma
<1>5. BufSize \in Nat /\ BufSize >= 16
  BY StreamAssumption
<1> HIDE DEF pad, rest, n, start
<1>6. after \in Buffer /\ Framed(after) /\ after.pos <= BufSize
  <2>1. CASE pad # 0
    <3> DEFINE from == call.from + n
    <3>1. from \in Nat /\ rest \in Nat
      BY <1>2, <1>3
    <3>2. after = Put(start, from, rest)
      BY <2>1
    <3> HIDE DEF from, after
    <3>3. /\ Put(start, from, rest) \in Buffer /\ Framed(Put(start, from, rest))
          /\ Put(start, from, rest).pos = start.pos + rest
      BY <3>1, <1>4, PutLemma
    <3> QED BY <3>2, <3>3, <1>3, <1>4, <1>5
  <2>2. CASE pad = 0
    BY <2>2, <1>5, EmptyLemma
  <2> QED BY <2>1, <2>2
<1> HIDE DEF after
<1>7. /\ out' \in Buffer /\ Framed(out')
      /\ out'.hdr # NULL => out'.pos <= BufSize
      /\ wire' \in Seq(Chunk) /\ sound' \in BOOLEAN
      /\ said' = said /\ calls' = calls /\ peak' \in Nat
      /\ WithinBuffer'
  BY <1>1, <1>3, <1>6, SendRecordLemma
<1>8. TypeOK'
  BY <1>1, <1>7 DEF IInv, TypeOK, NoCall
<1> QED BY <1>1, <1>7, <1>8 DEF IInv

(* fcgi_flush: what is buffered, with or without the end of the request.   *)
LEMMA FlushedLemma ==
  ASSUME IInv, NEW more \in Seq(Chunk), Sends(Closed(out), more, Empty),
         peak' \in Nat, peak' <= Closed(out).pos + 16,
         call' = call, said' = said, calls' \in 0..MaxCalls, call = NoCall
  PROVE  IInv'
<1> DEFINE c == Closed(out)
<1>1. BufSize \in Nat /\ BufSize % 8 = 0
  BY StreamAssumption
<1>2. /\ c \in Buffer /\ Framed(c) /\ c.hdr = NULL
      /\ sound => c.pos <= BufSize
  BY <1>1, ClosedLemma DEF IInv, TypeOK, WithinBuffer
<1>3. Sends(c, more, Empty) /\ peak' <= c.pos + 16
  OBVIOUS
<1> HIDE DEF c
<1>4. /\ out' \in Buffer /\ Framed(out')
      /\ wire' \in Seq(Chunk) /\ sound' \in BOOLEAN
      /\ sound' => sound /\ out' = Empty
      /\ out'.hdr # NULL => out' = Empty
  BY <1>2, <1>3, EmptyLemma, SendsLemma DEF IInv
<1>5. c.pos \in Nat
  BY <1>2 DEF Buffer
<1>6. TypeOK'
  BY <1>3, <1>4, <1>5 DEF IInv, TypeOK
<1>7. WithinBuffer'
  BY <1>1, <1>2, <1>3, <1>4, <1>5, EmptyLemma DEF WithinBuffer, EndSize
<1> QED BY <1>4, <1>6, <1>7, EmptyLemma DEF IInv

LEMMA FlushLemma == IInv /\ Flush => IInv'
<1> SUFFICES ASSUME IInv, Flush PROVE IInv'
  OBVIOUS
<1>1. /\ Sends(Closed(out), <<>>, Empty) /\ peak' = Closed(out).pos
      /\ call' = call /\ said' = said /\ call = NoCall
      /\ calls > 0 /\ calls' = calls - 1
  BY DEF Flush, Calls
<1>2. Closed(out).pos \in Nat
  BY ClosedLemma DEF IInv, TypeOK, Buffer
<1>3. /\ peak' \in Nat /\ peak' <= Closed(out).pos + 16
      /\ calls' \in 0..MaxCalls /\ <<>> \in Seq(Chunk)
  BY <1>1, <1>2, StreamAssumption DEF IInv, TypeOK
<1> QED BY <1>1, <1>3, FlushedLemma

LEMMA FinishLemma == IInv /\ Finish => IInv'
<1> SUFFICES ASSUME IInv, Finish PROVE IInv'
  OBVIOUS
<1>1. /\ Sends(Closed(out), <<End>>, Empty) /\ peak' = Closed(out).pos + 16
      /\ call' = call /\ said' = said /\ calls' = calls /\ call = NoCall
  BY DEF Finish, EndSize
<1>2. <<End>> \in Seq(Chunk) /\ calls' \in 0..MaxCalls
  <2>1. End \in Chunk
    BY DEF End, Piece, Chunk
  <2> QED BY <2>1, <1>1 DEF IInv, TypeOK
<1>3. peak' \in Nat /\ peak' <= Closed(out).pos + 16
  <2>1. Closed(out).pos \in Nat
    BY ClosedLemma DEF IInv, TypeOK, Buffer
  <2> QED BY <2>1, <1>1
<1> QED BY <1>1, <1>2, <1>3, FlushedLemma

LEMMA NextRequestLemma == IInv /\ NextRequest => IInv'
BY EmptyLemma, StreamAssumption
   DEF NextRequest, IInv, TypeOK, WithinBuffer, Nothing, EndSize

LEMMA StutterLemma == IInv /\ UNCHANGED vars => IInv'
BY DEF IInv, TypeOK, Framed, WithinBuffer, vars

LEMMA InductiveStep == IInv /\ [Next]_vars => IInv'
<1> SUFFICES ASSUME IInv, [Next]_vars PROVE IInv'
  OBVIOUS
<1>1. ASSUME NEW t \in Stream, NEW n \in Lens, Write(t, n)
      PROVE  IInv'
  <2>1. n \in Nat
    BY StreamAssumption
  <2> QED BY <1>1, <2>1, WriteFitsLemma, WriteFillsLemma, WriteLongLemma DEF Write
<1>2. CASE LongRecord
  BY <1>2, LongRecordLemma
<1>3. CASE LongEnds
  BY <1>3, LongEndsLemma
<1>4. CASE Flush
  BY <1>4, FlushLemma
<1>5. CASE Finish
  BY <1>5, FinishLemma
<1>6. CASE NextRequest
  BY <1>6, NextRequestLemma
<1>7. CASE UNCHANGED vars
  BY <1>7, StutterLemma
<1> QED BY <1>1, <1>2, <1>3, <1>4, <1>5, <1>6, <1>7 DEF Next

LEMMA InductiveLemma == Spec => []IInv
BY InductiveStep, InitIInv, PTL DEF Spec

-----------------------------------------------------------------------------
(* What the web server makes of a sequence of chunks. *)

(* A set of natural numbers has a least one. *)
LEMMA LeastLemma ==
  ASSUME NEW T, T \subseteq Nat, T # {}
  PROVE  \E x \in T : \A y \in T : x <= y
<1> DEFINE R == {ss \in Nat \X Nat : ss[1] < ss[2]}
<1>1. IsWellFoundedOn(R, Nat)
  BY NatLessThanWellFounded DEF OpToRel
<1>2. \A y \in Nat, z \in Nat : <<y, z>> \in R <=> y < z
  OBVIOUS
<1> HIDE DEF R
<1>3. PICK x \in T : \A y \in T : ~ (<<y, x>> \in R)
  BY <1>1, WFMin
<1>4. ASSUME NEW y \in T PROVE x <= y
  <2>1. x \in Nat /\ y \in Nat /\ ~ (y < x)
    BY <1>2, <1>3
  <2> QED BY <2>1
<1> QED BY <1>4

Start == [ok |-> TRUE, left |-> 0, pad |-> 0, type |-> NoType, got |-> Nothing, hollow |-> FALSE]

Read(s) == FoldLeft(Receive, Start, s)

(* f takes the chunks of s at the places of a set, the greatest last. *)
Takes(s, n, f) ==
  f = [S \in SUBSET (1..n) |-> IF S = {} THEN Start ELSE Receive(f[S \ {Max(S)}], s[Max(S)])]

LEMMA GreatestLemma ==
  ASSUME NEW n \in Nat, NEW S \in SUBSET (1..n), n \in S
  PROVE  Max(S) = n /\ S \ {n} \in SUBSET (1..n - 1)
<1>1. \A y \in S : y \in Nat /\ n >= y
  OBVIOUS
<1>2. Max(S) \in S /\ \A y \in S : Max(S) >= y
  BY <1>1 DEF Max
<1>3. Max(S) = n
  <2>1. Max(S) \in Nat /\ n >= Max(S) /\ Max(S) >= n
    BY <1>1, <1>2
  <2> QED BY <2>1
<1>4. \A y \in S \ {n} : y \in 1..n - 1
  BY <1>1
<1> QED BY <1>3, <1>4

LEMMA TakesExist ==
  ASSUME NEW s, NEW n \in Nat
  PROVE  \E f : Takes(s, n, f)
<1> DEFINE T == {k \in Nat : ~ \E f : Takes(s, k, f)}
<1> SUFFICES ASSUME T # {} PROVE FALSE
  OBVIOUS
<1>1. PICK x \in T : \A y \in T : x <= y
  BY LeastLemma
<1>2. x \in Nat /\ ~ \E f : Takes(s, x, f)
  OBVIOUS
<1>3. x # 0
  <2>1. Takes(s, 0, [S \in SUBSET (1..0) |-> Start])
    <3>1. SUBSET (1..0) = {{}}
      OBVIOUS
    <3> QED BY <3>1 DEF Takes
  <2> QED BY <1>2, <2>1
<1>4. x - 1 \in Nat /\ x - 1 \notin T
  <2>1. x - 1 \in Nat /\ ~ (x <= x - 1)
    BY <1>2, <1>3
  <2> QED BY <2>1, <1>1
<1>5. PICK f : Takes(s, x - 1, f)
  BY <1>4
<1> HIDE DEF T
<1> DEFINE g == [S \in SUBSET (1..x) |->
                   IF x \in S THEN Receive(f[S \ {x}], s[x]) ELSE f[S]]
<1>6. ASSUME NEW S \in SUBSET (1..x)
      PROVE  g[S] = IF S = {} THEN Start ELSE Receive(g[S \ {Max(S)}], s[Max(S)])
  <2>1. CASE x \in S
    <3>1. Max(S) = x /\ S \ {x} \in SUBSET (1..x) /\ x \notin S \ {x} /\ S # {}
      BY <1>2, <2>1, GreatestLemma
    <3>2. g[S] = Receive(f[S \ {x}], s[x]) /\ g[S \ {x}] = f[S \ {x}]
      BY <2>1, <3>1
    <3> HIDE DEF g
    <3> QED BY <3>1, <3>2
  <2>2. CASE x \notin S
    <3>1. S \in SUBSET (1..x - 1)
      <4>1. ASSUME NEW y \in S PROVE y \in 1..x - 1
        <5>1. y \in 1..x /\ y # x
          BY <2>2
        <5> QED BY <5>1, <1>2
      <4> QED BY <4>1
    <3>2. f[S] = IF S = {} THEN Start ELSE Receive(f[S \ {Max(S)}], s[Max(S)])
      BY <3>1, <1>5 DEF Takes
    <3>3. g[S] = f[S] /\ g[S \ {Max(S)}] = f[S \ {Max(S)}]
      BY <2>2
    <3> HIDE DEF g
    <3> QED BY <3>2, <3>3
  <2> QED BY <2>1, <2>2
<1>7. Takes(s, x, g)
  <2>1. g = [S \in SUBSET (1..x) |-> g[S]]
    OBVIOUS
  <2> HIDE DEF g
  <2> QED BY <2>1, <1>6 DEF Takes
<1> QED BY <1>2, <1>7

LEMMA TakesAt ==
  ASSUME NEW s, NEW n \in Nat, NEW f, Takes(s, n, f), NEW k \in 0..n
  PROVE  f[1..k] = IF k = 0 THEN Start ELSE Receive(f[1..k - 1], s[k])
<1>1. 1..k \in SUBSET (1..n)
  OBVIOUS
<1>2. f[1..k] = IF 1..k = {} THEN Start ELSE Receive(f[(1..k) \ {Max(1..k)}], s[Max(1..k)])
  BY <1>1 DEF Takes
<1>3. CASE k = 0
  BY <1>2, <1>3
<1>4. CASE k # 0
  <2>1. k \in Nat /\ k \in 1..k /\ 1..k \in SUBSET (1..k) /\ (1..k) \ {k} = 1..k - 1
    BY <1>4
  <2>2. Max(1..k) = k
    BY <2>1, GreatestLemma
  <2> QED BY <1>2, <1>4, <2>1, <2>2
<1> QED BY <1>3, <1>4

(* The first n chunks are the same. *)
Agree(s, u, n) == \A i \in 1..n : s[i] = u[i]

LEMMA TakesAgree ==
  ASSUME NEW s, NEW u, NEW n \in Nat, Agree(s, u, n),
         NEW f, NEW g, Takes(s, n, f), Takes(u, n + 1, g)
  PROVE  f[1..n] = g[1..n]
<1> DEFINE T == {k \in 0..n : f[1..k] # g[1..k]}
<1>1. T = {}
  <2> SUFFICES ASSUME T # {} PROVE FALSE
    OBVIOUS
  <2>1. PICK x \in T : \A y \in T : x <= y
    <3>1. T \subseteq Nat
      OBVIOUS
    <3> HIDE DEF T
    <3> QED BY <3>1, LeastLemma
  <2>2. x \in 0..n /\ x \in 0..n + 1 /\ n + 1 \in Nat
        /\ (x # 0 => x \in 1..n /\ x - 1 \in 0..n /\ ~ (x <= x - 1))
    OBVIOUS
  <2>3. x # 0 => f[1..x - 1] = g[1..x - 1]
    BY <2>1, <2>2
  <2>7. f[1..x] # g[1..x]
    OBVIOUS
  <2> HIDE DEF T
  <2>4. f[1..x] = IF x = 0 THEN Start ELSE Receive(f[1..x - 1], s[x])
    <3>1. x \in 0..n
      BY <2>2
    <3> QED BY ONLY n \in Nat, Takes(s, n, f), <3>1, TakesAt, ZenonT(30)
  <2>5. g[1..x] = IF x = 0 THEN Start ELSE Receive(g[1..x - 1], u[x])
    BY <2>2, TakesAt
  <2>6. f[1..x] = g[1..x]
    BY <2>2, <2>3, <2>4, <2>5 DEF Agree
  <2> QED BY <2>6, <2>7
<1>2. n \in 0..n
  OBVIOUS
<1> QED BY <1>1, <1>2

LEMMA TakesAre ==
  ASSUME NEW s \in Seq(Chunk), NEW n \in Nat, Len(s) = n
  PROVE  \E f : Takes(s, n, f) /\ Read(s) = f[1..n]
<1> DEFINE f == CHOOSE f : Takes(s, n, f)
<1>1. DOMAIN s = 1..n
  BY LenProperties
<1>2. Read(s) = f[1..n]
  BY <1>1 DEF Read, FoldLeft, MapThenFoldSet, Takes
<1>3. Takes(s, n, f)
  BY TakesExist
<1> QED BY <1>2, <1>3

(* Nothing has been received at first, and the chunks are received one     *)
(* after the other.                                                        *)
LEMMA ReadLemma ==
  ASSUME NEW s \in Seq(Chunk), NEW c \in Chunk
  PROVE  /\ Read(<<>>) = Start
         /\ Read(Append(s, c)) = Receive(Read(s), c)
<1> DEFINE u == Append(s, c)
           n == Len(s)
           m == n + 1
<1>1. n \in Nat /\ m \in Nat /\ m # 0 /\ m - 1 = n /\ m \in 0..m /\ <<>> \in Seq(Chunk)
  BY LenProperties
<1>2. u \in Seq(Chunk) /\ Len(u) = m /\ u[m] = c /\ Agree(s, u, n)
  BY AppendProperties DEF Agree
<1>3. Read(<<>>) = Start
  <2>1. Len(<<>>) = 0 /\ 0 \in Nat /\ 0 \in 0..0
    OBVIOUS
  <2>2. PICK f : Takes(<<>>, 0, f) /\ Read(<<>>) = f[1..0]
    BY <1>1, <2>1, TakesAre
  <2> QED BY <2>1, <2>2, TakesAt
<1>4. PICK f : Takes(s, n, f) /\ Read(s) = f[1..n]
  BY <1>1, TakesAre
<1> HIDE DEF u, n, m
<1>5. PICK g : Takes(u, m, g) /\ Read(u) = g[1..m]
  BY <1>1, <1>2, TakesAre
<1>6. g[1..m] = Receive(g[1..n], c)
  BY <1>1, <1>2, <1>5, TakesAt
<1>7. f[1..n] = g[1..n]
  <2>1. Takes(u, n + 1, g)
    BY <1>5 DEF m
  <2> QED BY <1>1, <1>2, <1>4, <2>1, TakesAgree
<1> QED BY <1>3, <1>4, <1>5, <1>6, <1>7 DEF u

-----------------------------------------------------------------------------
(* The web server, chunk by chunk: between two records, or in one of       *)
(* stream t with m bytes and k of padding to come.  It has received g; a   *)
(* record without content came only if h.                                  *)

Decoder == [ok : BOOLEAN, left : Nat, pad : Nat, type : Stream \cup {NoType},
            got : [Stream -> Nat], hollow : BOOLEAN]

Expects(d, m, k, g, h) ==
  /\ d \in Decoder /\ d.ok /\ d.left = m /\ d.pad = k /\ d.got = g
  /\ d.hollow => h

InRecord(d, t, m, k, g, h) == Expects(d, m, k, g, h) /\ d.type = t

Between(d, g, h) == Expects(d, 0, 0, g, h)

Adding(g, t, n) == [g EXCEPT ![t] = @ + n]

LEMMA StartLemma ==
  Between(Start, Nothing, FALSE)
BY DEF Between, Expects, Start, Decoder, Nothing

LEMMA MayBeHollow ==
  ASSUME NEW d, NEW m, NEW k, NEW g, NEW h \in BOOLEAN, NEW i \in BOOLEAN, h => i,
         Expects(d, m, k, g, h)
  PROVE  Expects(d, m, k, g, i)
BY DEF Expects

LEMMA HeaderReceived ==
  ASSUME NEW d, NEW t \in Stream, NEW n \in Nat, n <= MaxRecord, NEW g, NEW h \in BOOLEAN,
         Between(d, g, h), n = 0 => h
  PROVE  InRecord(Receive(d, Header(t, n)), t, n, Pad(n), g, h)
<1> DEFINE c == Header(t, n)
           e == [d EXCEPT !.ok = @ /\ d.left = 0 /\ d.pad = 0,
                          !.type = c.stream, !.left = c.len, !.pad = c.pad,
                          !.hollow = @ \/ c.len = 0]
<1>1. c.kind = "header" /\ c.stream = t /\ c.len = n /\ c.pad = Pad(n) /\ Pad(n) \in Nat
  <2>1. n \in Nat /\ n % 65536 = n
    BY DEF MaxRecord
  <2>2. Pad(n) \in 0..7
    BY <2>1, PadLemma
  <2> QED BY <2>1, <2>2 DEF Header, Piece
<1>2. Receive(d, c) = e
  BY <1>1 DEF Receive
<1>3. /\ d \in Decoder /\ d.ok /\ d.left = 0 /\ d.pad = 0 /\ d.got = g
      /\ d.hollow => h
  BY DEF Between, Expects
<1> HIDE DEF c
<1>4. CASE n = 0
  <2>1. e = [d EXCEPT !.ok = TRUE, !.type = t, !.left = n, !.pad = Pad(n), !.hollow = TRUE]
    BY <1>1, <1>3, <1>4 DEF Decoder
  <2> HIDE DEF e
  <2>2. e \in Decoder /\ e.ok /\ e.left = n /\ e.pad = Pad(n) /\ e.got = g /\ e.type = t
    BY <1>1, <1>3, <2>1 DEF Decoder
  <2> QED BY <1>2, <1>4, <2>2 DEF InRecord, Expects, c
<1>5. CASE n # 0
  <2>1. e = [d EXCEPT !.ok = TRUE, !.type = t, !.left = n, !.pad = Pad(n)]
    BY <1>1, <1>3, <1>5 DEF Decoder
  <2> HIDE DEF e
  <2>2. /\ e \in Decoder /\ e.ok /\ e.left = n /\ e.pad = Pad(n) /\ e.got = g /\ e.type = t
        /\ e.hollow = d.hollow
    BY <1>1, <1>3, <2>1 DEF Decoder
  <2> QED BY <1>2, <1>3, <2>2 DEF InRecord, Expects, c
<1> QED BY <1>4, <1>5

LEMMA TextReceived ==
  ASSUME NEW d, NEW t \in Stream, NEW m \in Nat, NEW k, NEW g, NEW h \in BOOLEAN,
         NEW n \in 0..m, InRecord(d, t, m, k, g, h)
  PROVE  InRecord(Receive(d, Text(t, g[t], n)), t, m - n, k, Adding(g, t, n), h)
<1> DEFINE c == Text(t, g[t], n)
           e == [d EXCEPT !.ok = @ /\ c.stream = d.type /\ c.len <= d.left
                                     /\ c.from = d.got[c.stream],
                          !.left = @ - c.len, !.got[c.stream] = @ + c.len]
<1>1. c.kind = "text" /\ c.stream = t /\ c.len = n /\ c.from = g[t]
  BY DEF Text, Piece
<1>2. Receive(d, c) = e
  BY <1>1 DEF Receive
<1>3. /\ d \in Decoder /\ d.ok /\ d.left = m /\ d.pad = k /\ d.got = g /\ d.type = t
      /\ d.hollow => h
  BY DEF InRecord, Expects
<1>4. m - n \in Nat /\ n <= m /\ g \in [Stream -> Nat] /\ Adding(g, t, n) \in [Stream -> Nat]
  BY <1>3 DEF Decoder, Adding
<1> HIDE DEF c
<1>5. e = [d EXCEPT !.ok = TRUE, !.left = m - n, !.got = Adding(g, t, n)]
  BY <1>1, <1>3, <1>4 DEF Decoder, Adding
<1> HIDE DEF e
<1>6. e \in Decoder /\ e.ok /\ e.left = m - n /\ e.pad = k /\ e.got = Adding(g, t, n)
      /\ e.type = t /\ e.hollow = d.hollow
  BY <1>3, <1>4, <1>5 DEF Decoder
<1> QED BY <1>2, <1>3, <1>6 DEF InRecord, Expects, c

(* Padding, if there is any, ends a record. *)
LEMMA PaddingReceived ==
  ASSUME NEW s \in Seq(Chunk), NEW k \in Nat, NEW g, NEW h \in BOOLEAN,
         Expects(Read(s), 0, k, g, h)
  PROVE  /\ Padding(k) \in Seq(Chunk)
         /\ Between(Read(s \o Padding(k)), g, h)
<1> DEFINE d == Read(s)
           c == Piece("padding", NoType, 0, k, 0)
           e == [d EXCEPT !.ok = @ /\ d.left = 0 /\ c.len = d.pad, !.pad = 0]
<1>1. CASE k = 0
  <2>1. Padding(k) = <<>> /\ s \o <<>> = s
    BY <1>1 DEF Padding
  <2> QED BY <2>1, <1>1 DEF Between
<1>2. CASE k # 0
  <2>1. c \in Chunk
    BY DEF Piece, Chunk
  <2>2. Padding(k) = <<c>>
    BY <1>2 DEF Padding
  <2>3. s \o <<c>> = Append(s, c)
    BY <2>1, AppendIsConcat
  <2>4. Read(s \o Padding(k)) = Receive(d, c)
    BY <2>1, <2>2, <2>3, ReadLemma
  <2>5. Receive(d, c) = e
    BY DEF Receive, Piece
  <2>6. c.len = k
    BY DEF Piece
  <2>7. /\ d \in Decoder /\ d.ok /\ d.left = 0 /\ d.pad = k /\ d.got = g
        /\ d.hollow => h
    BY DEF Expects
  <2>8. Between(e, g, h)
    <3> HIDE DEF d, c
    <3> QED BY <2>6, <2>7 DEF Between, Expects, Decoder
  <2> QED BY <2>1, <2>2, <2>4, <2>5, <2>8
<1> QED BY <1>1, <1>2

LEMMA EndReceived ==
  ASSUME NEW d, NEW g, NEW h \in BOOLEAN, Between(d, g, h)
  PROVE  End \in Chunk /\ Between(Receive(d, End), g, h)
<1>1. End \in Chunk
  BY DEF End, Piece, Chunk
<1>2. Receive(d, End) = [d EXCEPT !.ok = @ /\ d.left = 0 /\ d.pad = 0]
  BY DEF Receive, End, Piece
<1> QED BY <1>1, <1>2 DEF Between, Expects, Decoder

-----------------------------------------------------------------------------
(* What is sent, followed by what waits in a buffer. *)

(* Three sequences put together in either order. *)
Assoc(a, b, d) == (a \o b) \o d = a \o (b \o d)

LEMMA AssocLemma ==
  ASSUME NEW a \in Seq(Chunk), NEW b \in Seq(Chunk), NEW d \in Seq(Chunk)
  PROVE  Assoc(a, b, d)
BY ConcatAssociative DEF Assoc

LEMMA BehindLemma ==
  ASSUME NEW a \in Seq(Chunk), NEW b \in Seq(Chunk), NEW c \in Chunk
  PROVE  /\ Append(b, c) \in Seq(Chunk) /\ a \o b \in Seq(Chunk)
         /\ a \o Append(b, c) = Append(a \o b, c)
<1>1. Append(b, c) = b \o <<c>> /\ Append(a \o b, c) = (a \o b) \o <<c>>
      /\ <<c>> \in Seq(Chunk) /\ a \o b \in Seq(Chunk)
  BY AppendIsConcat, ConcatProperties
<1>2. Assoc(a, b, <<c>>)
  BY <1>1, AssocLemma
<1> QED BY <1>1, <1>2 DEF Assoc

(* The text in the record in progress. *)
Filled(o) == o.pos - (o.hdr + 8)

(* All of it, with a header for m bytes. *)
Through(w, o, m) == (w \o Append(o.done, Header(o.type, m))) \o o.text

(* The server receives g of w and of the buffer o, whatever length the     *)
(* header of a record in progress is given in the end.                     *)
Holds(w, o, g, h) ==
  IF o.hdr = NULL THEN Between(Read(w \o o.done), g, h)
  ELSE \A m \in Nat : Filled(o) <= m /\ m <= MaxRecord =>
         InRecord(Read(Through(w, o, m)), o.type, m - Filled(o), Pad(m), g, h \/ m = 0)

LEMMA ThroughLemma ==
  ASSUME NEW w \in Seq(Chunk), NEW o \in Buffer, Framed(o), o.hdr # NULL, NEW m \in Nat
  PROVE  /\ o.type \in Stream /\ Header(o.type, m) \in Chunk
         /\ Append(o.done, Header(o.type, m)) \in Seq(Chunk)
         /\ w \o Append(o.done, Header(o.type, m)) \in Seq(Chunk)
         /\ o.text \in Seq(Chunk) /\ Through(w, o, m) \in Seq(Chunk)
         /\ Filled(o) \in Nat
<1>1. /\ o.type \in Stream /\ o.text \in Seq(Chunk) /\ o.done \in Seq(Chunk)
      /\ o.pos \in Nat /\ o.hdr \in Nat /\ o.hdr + 8 <= o.pos
  BY DEF Buffer, Framed
<1>2. Header(o.type, m) \in Chunk
  BY <1>1, HeaderLemma
<1>3. Append(o.done, Header(o.type, m)) \in Seq(Chunk)
  BY <1>1, <1>2, AppendProperties
<1>4. w \o Append(o.done, Header(o.type, m)) \in Seq(Chunk)
  BY <1>3, ConcatProperties
<1>5. Through(w, o, m) \in Seq(Chunk)
  BY <1>1, <1>4, ConcatProperties DEF Through
<1>6. Filled(o) \in Nat
  BY <1>1 DEF Filled
<1> QED BY <1>1, <1>2, <1>3, <1>4, <1>5, <1>6

LEMMA HoldsOpened ==
  ASSUME NEW w \in Seq(Chunk), NEW o \in Buffer, Framed(o), o.hdr = NULL,
         NEW t \in Stream, NEW g, NEW h \in BOOLEAN, Holds(w, o, g, h)
  PROVE  /\ Holds(w, Open(o, t), g, h)
         /\ Open(o, t).type = t /\ Filled(Open(o, t)) = 0
<1> DEFINE p == Open(o, t)
<1>1. o.pos \in Nat /\ o.done \in Seq(Chunk)
  BY DEF Buffer
<1>2. /\ p.pos = o.pos + 8 /\ p.hdr = o.pos /\ p.type = t /\ p.text = <<>> /\ p.done = o.done
  BY DEF Open, HeaderSize
<1>3. Filled(p) = 0 /\ p.hdr # NULL
  BY <1>1, <1>2 DEF Filled, NULL
<1> HIDE DEF p
<1>4. Between(Read(w \o o.done), g, h)
  BY DEF Holds
<1>5. ASSUME NEW m \in Nat, m <= MaxRecord
      PROVE  InRecord(Read(Through(w, p, m)), t, m - Filled(p), Pad(m), g, h \/ m = 0)
  <2> DEFINE c == Header(t, m)
             i == (h \/ m = 0)
             s == w \o o.done
  <2>1. c \in Chunk
    BY HeaderLemma
  <2>2. s \in Seq(Chunk) /\ w \o Append(o.done, c) = Append(s, c) /\ Append(s, c) \in Seq(Chunk)
    BY <1>1, <2>1, BehindLemma, AppendProperties
  <2>3. Through(w, p, m) = Append(s, c)
    BY <1>2, <2>2, ConcatEmptySeq DEF Through
  <2>4. Read(Append(s, c)) = Receive(Read(s), c)
    BY <2>1, <2>2, ReadLemma
  <2>5. i \in BOOLEAN /\ (h => i) /\ (m = 0 => i)
    OBVIOUS
  <2>6. Between(Read(s), g, i)
    <3>1. Expects(Read(s), 0, 0, g, h)
      BY <1>4 DEF Between
    <3> HIDE DEF i, s
    <3> QED BY <2>5, <3>1, MayBeHollow DEF Between
  <2>7. InRecord(Receive(Read(s), c), t, m, Pad(m), g, i)
    <3> DEFINE d == Read(s)
    <3>1. Between(d, g, i) /\ m \in Nat /\ m <= MaxRecord /\ t \in Stream
      BY <1>5, <2>6
    <3> HIDE DEF i, d
    <3>2. InRecord(Receive(d, Header(t, m)), t, m, Pad(m), g, i)
      BY ONLY <3>1, <2>5, HeaderReceived
    <3> QED BY <3>2 DEF d
  <2>8. m - Filled(p) = m
    BY <1>3
  <2> QED BY <2>3, <2>4, <2>7, <2>8
<1>6. Holds(w, p, g, h)
  BY <1>2, <1>3, <1>5 DEF Holds
<1> QED BY <1>2, <1>3, <1>6 DEF p

LEMMA HoldsMore ==
  ASSUME NEW w \in Seq(Chunk), NEW o \in Buffer, Framed(o), o.hdr # NULL,
         NEW k \in Nat, NEW g \in [Stream -> Nat], NEW h \in BOOLEAN, Holds(w, o, g, h)
  PROVE  /\ Holds(w, Put(o, g[o.type], k), Adding(g, o.type, k), h)
         /\ Put(o, g[o.type], k).type = o.type
         /\ Filled(Put(o, g[o.type], k)) = Filled(o) + k
<1> DEFINE t == o.type
           c == Text(t, g[t], k)
           p == Put(o, g[t], k)
<1>1. /\ o.pos \in Nat /\ o.hdr \in Nat /\ t \in Stream /\ g[t] \in Nat
  BY DEF Buffer, Framed
<1>2. /\ p.pos = o.pos + k /\ p.hdr = o.hdr /\ p.type = t /\ p.done = o.done
      /\ p.text = Append(o.text, c)
  BY DEF Put
<1>3. Filled(p) = Filled(o) + k /\ Filled(o) \in Int
  BY <1>1, <1>2 DEF Filled
<1>4. c \in Chunk
  BY <1>1, TextLemma
<1> HIDE DEF p, c
<1>5. ASSUME NEW m \in Nat, Filled(p) <= m, m <= MaxRecord
      PROVE  InRecord(Read(Through(w, p, m)), t, m - Filled(p), Pad(m), Adding(g, t, k), h \/ m = 0)
  <2> DEFINE s == Through(w, o, m)
             i == (h \/ m = 0)
             n == m - Filled(o)
  <2>1. s \in Seq(Chunk) /\ Filled(o) \in Nat
    BY ThroughLemma
  <2>2. n \in Nat /\ k <= n /\ Filled(o) <= m /\ m - Filled(p) = n - k
    BY <2>1, <1>3, <1>5
  <2>3. Through(w, p, m) = Append(s, c)
    <3> DEFINE v == w \o Append(o.done, Header(t, m))
    <3>1. v \in Seq(Chunk) /\ o.text \in Seq(Chunk)
      BY ThroughLemma
    <3>2. Through(w, p, m) = v \o Append(o.text, c) /\ s = v \o o.text
      BY <1>2 DEF Through
    <3> HIDE DEF v, s, t
    <3> QED BY <1>4, <3>1, <3>2, BehindLemma
  <2>4. InRecord(Read(s), t, n, Pad(m), g, i)
    BY <1>5, <2>2 DEF Holds
  <2>5. i \in BOOLEAN
    OBVIOUS
  <2> HIDE DEF s, i, n, t
  <2>6. k \in 0..n
    BY <2>2
  <2>7. InRecord(Receive(Read(s), c), t, n - k, Pad(m), Adding(g, t, k), i)
    BY <1>1, <2>2, <2>4, <2>5, <2>6, TextReceived DEF c
  <2>8. Read(Append(s, c)) = Receive(Read(s), c)
    BY <1>4, <2>1, ReadLemma
  <2> QED BY <2>2, <2>3, <2>7, <2>8 DEF i
<1>6. Holds(w, p, Adding(g, t, k), h)
  BY <1>2, <1>5 DEF Holds
<1> QED BY <1>2, <1>3, <1>6 DEF p

(* close_packet gives the record its length. *)
LEMMA HoldsClosed ==
  ASSUME NEW w \in Seq(Chunk), NEW o \in Buffer, Framed(o), NEW g, NEW h \in BOOLEAN,
         Holds(w, o, g, h),
         o.hdr # NULL => Filled(o) <= MaxRecord /\ (Filled(o) = 0 => h)
  PROVE  Holds(w, Closed(o), g, h)
<1>1. CASE o.hdr = NULL
  BY <1>1 DEF Closed
<1>2. CASE o.hdr # NULL
  <2> DEFINE n == Filled(o)
             k == Pad(n)
             c == Header(o.type, n)
             i == (h \/ n = 0)
             s == Through(w, o, n)
             b == Append(o.done, c)
             v == w \o b
  <2>1. /\ n \in Nat /\ c \in Chunk /\ b \in Seq(Chunk) /\ v \in Seq(Chunk)
        /\ o.text \in Seq(Chunk) /\ s \in Seq(Chunk) /\ o.done \in Seq(Chunk)
        /\ s = v \o o.text
    <3>1. n \in Nat
      BY <1>2, ThroughLemma
    <3> QED BY <1>2, <3>1, ThroughLemma DEF Through, Buffer
  <2>2. k \in Nat
    <3>1. n \in Nat
      BY <2>1
    <3> HIDE DEF n
    <3>2. Pad(n) \in 0..7
      BY ONLY <3>1, PadLemma
    <3> QED BY <3>2
  <2>3. InRecord(Read(s), o.type, n - n, k, g, i)
    <3>1. \A m \in Nat : Filled(o) <= m /\ m <= MaxRecord =>
            InRecord(Read(Through(w, o, m)), o.type, m - Filled(o), Pad(m), g, h \/ m = 0)
      BY <1>2 DEF Holds
    <3>2. n \in Nat /\ n <= n /\ n <= MaxRecord
      <4>1. n \in Nat /\ n <= MaxRecord
        BY <1>2, <2>1
      <4> HIDE DEF n
      <4> QED BY <4>1
    <3> QED BY <3>1, <3>2
  <2>4. Expects(Read(s), 0, k, g, h)
    <3>1. n - n = 0 /\ (i <=> h)
      BY <1>2, <2>1
    <3> HIDE DEF s, k, i, n
    <3> QED BY <2>3, <3>1 DEF InRecord, Expects
  <2>5. Padding(k) \in Seq(Chunk) /\ Between(Read(s \o Padding(k)), g, h)
    <3> HIDE DEF s, k
    <3> QED BY <2>1, <2>2, <2>4, PaddingReceived
  <2>6. /\ Closed(o).hdr = NULL
        /\ Closed(o).done = ((o.done \o <<c>>) \o o.text) \o Padding(k)
    BY <1>2 DEF Closed, HeaderSize, Filled
  <2> HIDE DEF s, k, c
  <2>7. o.done \o <<c>> = b
    BY <2>1, AppendIsConcat
  <2>8. w \o Closed(o).done = s \o Padding(k)
    <3> HIDE DEF b, v
    <3>1. b \o o.text \in Seq(Chunk)
      BY <2>1, ConcatProperties
    <3>2. Assoc(w, b \o o.text, Padding(k)) /\ Assoc(w, b, o.text)
      BY <2>1, <2>5, <3>1, AssocLemma
    <3>3. v = w \o b
      BY DEF v
    <3>4. w \o Closed(o).done = w \o ((b \o o.text) \o Padding(k))
      BY <2>6, <2>7
    <3> QED BY <3>2, <3>3, <3>4, <2>1 DEF Assoc
  <2> QED BY <2>5, <2>6, <2>8 DEF Holds
<1> QED BY <1>1, <1>2

(* What a buffer holds, once it is sent. *)
LEMMA HoldsSent ==
  ASSUME NEW w \in Seq(Chunk), NEW o \in Buffer, o.hdr = NULL, NEW g, NEW h \in BOOLEAN,
         Holds(w, o, g, h)
  PROVE  w \o o.done \in Seq(Chunk) /\ Holds(w \o o.done, Empty, g, h)
<1>1. o.done \in Seq(Chunk)
  BY DEF Buffer
<1>2. w \o o.done \in Seq(Chunk) /\ (w \o o.done) \o <<>> = w \o o.done
  BY <1>1, ConcatProperties, ConcatEmptySeq
<1>3. Empty.hdr = NULL /\ Empty.done = <<>>
  BY DEF Empty
<1> QED BY <1>2, <1>3 DEF Holds

LEMMA HoldsAtEnd ==
  ASSUME NEW w \in Seq(Chunk), NEW g, NEW h \in BOOLEAN, Holds(w, Empty, g, h)
  PROVE  w \o <<End>> \in Seq(Chunk) /\ Holds(w \o <<End>>, Empty, g, h)
<1>1. Empty.hdr = NULL /\ Empty.done = <<>> /\ \A v \in Seq(Chunk) : v \o <<>> = v
  BY ConcatEmptySeq DEF Empty
<1>2. Between(Read(w), g, h)
  BY <1>1 DEF Holds
<1>3. End \in Chunk /\ Between(Receive(Read(w), End), g, h)
  BY <1>2, EndReceived
<1>4. w \o <<End>> = Append(w, End) /\ Append(w, End) \in Seq(Chunk)
  BY <1>3, AppendIsConcat, AppendProperties
<1>5. Between(Read(w \o <<End>>), g, h)
  BY <1>3, <1>4, ReadLemma
<1> QED BY <1>1, <1>4, <1>5 DEF Holds

LEMMA HoldsMayBeHollow ==
  ASSUME NEW w, NEW o, NEW g, NEW h \in BOOLEAN, NEW i \in BOOLEAN, h => i, Holds(w, o, g, h)
  PROVE  Holds(w, o, g, i)
<1>1. CASE o.hdr = NULL
  BY <1>1, MayBeHollow DEF Holds, Between
<1>2. CASE o.hdr # NULL
  <2>1. ASSUME NEW m \in Nat, Filled(o) <= m, m <= MaxRecord
        PROVE  InRecord(Read(Through(w, o, m)), o.type, m - Filled(o), Pad(m), g, i \/ m = 0)
    <3> DEFINE j == (h \/ m = 0)
               l == (i \/ m = 0)
    <3>1. InRecord(Read(Through(w, o, m)), o.type, m - Filled(o), Pad(m), g, j)
      BY <1>2, <2>1 DEF Holds
    <3>2. j \in BOOLEAN /\ l \in BOOLEAN /\ (j => l)
      OBVIOUS
    <3> HIDE DEF j, l
    <3>3. InRecord(Read(Through(w, o, m)), o.type, m - Filled(o), Pad(m), g, l)
      BY <3>1, <3>2, MayBeHollow DEF InRecord
    <3> QED BY <3>3 DEF l
  <2> QED BY <1>2, <2>1 DEF Holds
<1> QED BY <1>1, <1>2

(* A record whose text follows past the buffer has no padding. *)
LEMMA HoldsDirect ==
  ASSUME NEW w \in Seq(Chunk), NEW o \in Buffer, o.hdr = NULL, NEW t \in Stream,
         NEW n \in Nat, n % 8 = 0, n # 0, n <= MaxRecord,
         NEW g \in [Stream -> Nat], NEW h \in BOOLEAN, Holds(w, o, g, h)
  PROVE  Holds(w \o Direct(o, t, n).done \o <<Text(t, g[t], n)>>, Empty, Adding(g, t, n), h)
<1> DEFINE s == w \o o.done
           c == Header(t, n)
           e == Text(t, g[t], n)
           u == Append(s, c)
           v == Append(u, e)
<1>1. o.done \in Seq(Chunk) /\ g[t] \in Nat
  BY DEF Buffer
<1>2. c \in Chunk /\ e \in Chunk
  BY <1>1, HeaderLemma, TextLemma
<1>3. /\ s \in Seq(Chunk) /\ u \in Seq(Chunk) /\ v \in Seq(Chunk)
      /\ w \o Append(o.done, c) = u /\ u \o <<e>> = v
  <2> HIDE DEF c, e
  <2>1. s \in Seq(Chunk) /\ w \o Append(o.done, c) = Append(s, c)
    BY <1>1, <1>2, BehindLemma
  <2>2. u \in Seq(Chunk)
    BY <1>2, <2>1, AppendProperties
  <2> HIDE DEF s, u
  <2>3. v \in Seq(Chunk) /\ u \o <<e>> = v
    BY <1>2, <2>2, AppendProperties, AppendIsConcat
  <2> QED BY <2>1, <2>2, <2>3 DEF u
<1>4. w \o Direct(o, t, n).done \o <<e>> = v
  BY <1>3 DEF Direct
<1>5. Between(Read(s), g, h)
  BY DEF Holds
<1>6. Read(u) = Receive(Read(s), c) /\ Read(v) = Receive(Read(u), e)
  <2> HIDE DEF s, c, e
  <2>1. Read(u) = Receive(Read(s), c)
    BY <1>2, <1>3, ReadLemma
  <2> HIDE DEF u
  <2>2. Read(v) = Receive(Read(u), e)
    BY <1>2, <1>3, ReadLemma
  <2> QED BY <2>1, <2>2
<1>7. InRecord(Read(u), t, n, Pad(n), g, h)
  <2> HIDE DEF s, u
  <2> QED BY <1>5, <1>6, HeaderReceived
<1>8. InRecord(Read(v), t, n - n, Pad(n), Adding(g, t, n), h)
  <2>1. n \in 0..n
    OBVIOUS
  <2> HIDE DEF s, u, v
  <2> QED BY <2>1, <1>6, <1>7, TextReceived
<1>9. Pad(n) = 0 /\ n - n = 0
  BY PadLemma
<1>10. Between(Read(v), Adding(g, t, n), h)
  <2> HIDE DEF v
  <2> QED BY <1>8, <1>9 DEF InRecord, Between
<1>11. v \o <<>> = v /\ Empty.hdr = NULL /\ Empty.done = <<>>
  BY <1>3, ConcatEmptySeq DEF Empty
<1> QED BY <1>4, <1>10, <1>11 DEF Holds

-----------------------------------------------------------------------------
(* As long as no write() has failed: what was sent and what is buffered    *)
(* are all that was written, the rest of a long call begins where they     *)
(* end, a record in progress has text, and nothing waits outside of it     *)
(* between two calls.                                                      *)
Accounts ==
  /\ Heard \in [Stream -> Nat]
  /\ Holds(wire, out, Heard, Mixed)
  /\ out.hdr # NULL => Filled(out) > 0 /\ said[out.type] > 0
  /\ call = NoCall /\ out.hdr = NULL => out = Empty
  /\ call # NoCall => call.len >= 8 /\ call.from = Heard[call.type]

WholeInv == IInv /\ (sound => Accounts)

LEMMA HeardLemma == TypeOK /\ call = NoCall => Heard = said
BY StreamAssumption DEF TypeOK, Heard, NoCall

LEMMA FilledLemma ==
  ASSUME NEW o \in Buffer, Framed(o), o.hdr # NULL, o.pos <= BufSize
  PROVE  Filled(o) \in Nat /\ Filled(o) <= MaxRecord
<1>1. BufSize \in Nat /\ BufSize <= 65536
  BY StreamAssumption, RecordAssumption DEF FullRecord, HeaderSize
<1>2. o.pos \in Nat /\ o.hdr \in Nat /\ o.hdr + 8 <= o.pos
  BY DEF Buffer, Framed
<1> QED BY <1>1, <1>2 DEF Filled, MaxRecord

(* The buffer before text of stream t is put there; h if more than one     *)
(* stream is written to then.                                              *)
LEMMA ForTypeHolds ==
  ASSUME WholeInv, sound, call = NoCall, NEW t \in Stream, NEW h \in BOOLEAN,
         Mixed => h, \A s \in Stream : s # t /\ said[s] > 0 => h
  PROVE  /\ Holds(wire, ForType(t), said, h)
         /\ ForType(t).hdr # NULL => ForType(t).type = t /\ Filled(ForType(t)) > 0
         /\ ForType(t).hdr = NULL => h \/ ForType(t) = Empty
<1>1. /\ wire \in Seq(Chunk) /\ out \in Buffer /\ Framed(out)
      /\ out.hdr # NULL => out.pos <= BufSize
      /\ Heard = said /\ Accounts
  BY HeardLemma DEF WholeInv, IInv, TypeOK
<1>2. Holds(wire, out, said, h)
  <2>1. Mixed \in BOOLEAN
    BY DEF Mixed
  <2>2. Holds(wire, out, said, Mixed)
    BY <1>1 DEF Accounts
  <2> QED BY <2>1, <2>2, HoldsMayBeHollow
<1>3. CASE out.hdr # NULL /\ out.type # t
  <2>1. ForType(t) = Closed(out)
    BY <1>3 DEF ForType
  <2>2. Filled(out) \in Nat /\ Filled(out) <= MaxRecord /\ Filled(out) > 0
    BY <1>1, <1>3, FilledLemma DEF Accounts
  <2>3. Holds(wire, Closed(out), said, h)
    BY <1>1, <1>2, <2>2, HoldsClosed
  <2>4. Closed(out).hdr = NULL
    BY <1>1, ClosedLemma
  <2>5. h
    <3>1. out.type \in Stream /\ said[out.type] > 0
      BY <1>1, <1>3 DEF Accounts, Framed
    <3> QED BY <1>3, <3>1
  <2> QED BY <2>1, <2>3, <2>4, <2>5
<1>4. CASE ~ (out.hdr # NULL /\ out.type # t)
  <2>1. ForType(t) = out
    BY <1>4 DEF ForType
  <2>2. out.hdr # NULL => Filled(out) > 0
    BY <1>1 DEF Accounts
  <2>3. out.hdr = NULL => out = Empty
    BY <1>1 DEF Accounts
  <2> QED BY <1>2, <1>4, <2>1, <2>2, <2>3
<1> QED BY <1>3, <1>4

LEMMA OpenedHolds ==
  ASSUME NEW w \in Seq(Chunk), NEW o \in Buffer, Framed(o), NEW t \in Stream,
         o.hdr # NULL => o.type = t, NEW g, NEW h \in BOOLEAN, Holds(w, o, g, h)
  PROVE  /\ Holds(w, Opened(o, t), g, h) /\ Opened(o, t).type = t
         /\ Filled(Opened(o, t)) = IF o.hdr = NULL THEN 0 ELSE Filled(o)
BY HoldsOpened DEF Opened

(* The program has written n bytes more to stream t. *)
LEMMA SaysLemma ==
  ASSUME TypeOK, NEW t \in Stream, NEW n \in Nat, n # 0, Says(t, n)
  PROVE  /\ said' = Adding(said, t, n) /\ said \in [Stream -> Nat]
         /\ said' \in [Stream -> Nat] /\ said'[t] > 0
         /\ Mixed' \in BOOLEAN /\ (Mixed => Mixed')
         /\ \A s \in Stream : s # t /\ said[s] > 0 => Mixed'
<1>1. said \in [Stream -> Nat] /\ said' = [said EXCEPT ![t] = @ + n]
  BY DEF TypeOK, Says
<1>2. said' \in [Stream -> Nat] /\ said'[t] > 0
      /\ \A s \in Stream : said[s] > 0 => said'[s] > 0
  BY <1>1
<1> QED BY <1>1, <1>2 DEF Adding, Mixed

LEMMA WriteFitsWhole ==
  ASSUME WholeInv, NEW t \in Stream, NEW n \in Nat, n # 0, WriteFits(t, n), sound'
  PROVE  Accounts'
<1> DEFINE o == ForType(t)
           p == Opened(o, t)
           q == Put(p, said[t], n)
           h == Mixed'
<1>1. /\ call = NoCall /\ call' = NoCall /\ sound /\ n < Limit(o) /\ Says(t, n)
      /\ out' = q /\ wire' = wire /\ TypeOK /\ IInv /\ wire \in Seq(Chunk)
  BY DEF WriteFits, Calls, WholeInv, IInv, TypeOK
<1>2. /\ said' = Adding(said, t, n) /\ said \in [Stream -> Nat] /\ said' \in [Stream -> Nat]
      /\ said'[t] > 0 /\ h \in BOOLEAN
  BY <1>1, SaysLemma
<1>3. /\ Holds(wire, o, said, h)
      /\ o.hdr # NULL => o.type = t
      /\ o \in Buffer /\ Framed(o)
  BY <1>1, SaysLemma, ForTypeHolds, ForTypeLemma
<1> HIDE DEF o, h
<1>4. Holds(wire, p, said, h) /\ p.type = t /\ p \in Buffer /\ Framed(p) /\ p.hdr # NULL
  BY <1>1, <1>2, <1>3, OpenedHolds, OpenedLemma
<1>5. Filled(p) \in Nat
  BY <1>1, <1>4, ThroughLemma
<1> HIDE DEF p
<1>6. Holds(wire, q, said', h) /\ q.type = t /\ Filled(q) = Filled(p) + n
  BY <1>1, <1>2, <1>4, HoldsMore
<1>7. q.hdr # NULL
  BY <1>1, <1>2, <1>4, PutLemma
<1>8. Heard' = said'
  BY <1>1, <1>2, StreamAssumption DEF Heard, NoCall
<1>9. Filled(q) > 0
  BY <1>5, <1>6
<1> HIDE DEF q
<1> QED BY <1>1, <1>2, <1>6, <1>7, <1>8, <1>9 DEF Accounts, h

LEMMA WriteFillsWhole ==
  ASSUME WholeInv, NEW t \in Stream, NEW n \in Nat, n # 0, WriteFills(t, n), sound'
  PROVE  Accounts'
<1> DEFINE o     == ForType(t)
           fill  == Limit(o)
           p     == Opened(o, t)
           full  == IF fill > 0 THEN Put(p, said[t], fill) ELSE p
           start == Open(Empty, t)
           after == IF n > fill THEN Put(start, said[t] + fill, n - fill) ELSE Empty
           c     == Closed(full)
           g     == IF fill > 0 THEN Adding(said, t, fill) ELSE said
           h     == Mixed'
<1>1. /\ call = NoCall /\ call' = NoCall /\ Says(t, n) /\ n >= fill
      /\ Sends(c, <<>>, after) /\ TypeOK /\ IInv /\ wire \in Seq(Chunk)
  BY DEF WriteFills, Calls, WholeInv, IInv, TypeOK
<1>2. sound /\ wire' = (wire \o c.done) \o <<>> /\ out' = after
  BY <1>1 DEF Sends
<1>3. /\ said' = Adding(said, t, n) /\ said \in [Stream -> Nat] /\ said' \in [Stream -> Nat]
      /\ said'[t] > 0 /\ h \in BOOLEAN
  BY <1>1, SaysLemma
<1>4. /\ Holds(wire, o, said, h)
      /\ o.hdr # NULL => o.type = t /\ Filled(o) > 0 /\ o.pos <= BufSize
      /\ o.hdr = NULL => h \/ o = Empty
      /\ o \in Buffer /\ Framed(o)
  BY <1>1, <1>2, SaysLemma, ForTypeHolds, ForTypeLemma
<1>5. fill \in Nat /\ (fill > 0 => p.pos + fill = BufSize)
  BY <1>4, LimitLemma
<1>6. o = Empty => fill > 0
  BY StreamAssumption DEF Limit, Empty, HeaderSize
<1> HIDE DEF o, h, fill
<1>7. /\ Holds(wire, p, said, h) /\ p.type = t /\ p \in Buffer /\ Framed(p) /\ p.hdr # NULL
      /\ Filled(p) = IF o.hdr = NULL THEN 0 ELSE Filled(o)
      /\ p.pos = IF o.hdr = NULL THEN o.pos + 8 ELSE o.pos
  BY <1>1, <1>3, <1>4, OpenedHolds, OpenedLemma
<1>8. Filled(p) \in Nat
  BY <1>1, <1>7, ThroughLemma
<1> HIDE DEF p
<1>9. /\ Holds(wire, full, g, h) /\ full \in Buffer /\ Framed(full) /\ full.hdr # NULL
      /\ Filled(full) <= MaxRecord /\ (Filled(full) = 0 => h)
      /\ g \in [Stream -> Nat]
  <2>1. CASE fill > 0
    <3> DEFINE q == Put(p, said[t], fill)
    <3>1. full = q /\ g = Adding(said, t, fill)
      BY <2>1
    <3>2. Holds(wire, q, Adding(said, t, fill), h) /\ Filled(q) = Filled(p) + fill
      BY <1>1, <1>3, <1>5, <1>7, HoldsMore
    <3>3. q \in Buffer /\ Framed(q) /\ q.hdr # NULL /\ q.pos = p.pos + fill
      BY <1>3, <1>5, <1>7, PutLemma
    <3> HIDE DEF q, full, g
    <3>4. Filled(q) <= MaxRecord
      <4>1. q.pos <= BufSize
        BY <1>5, <2>1, <3>3, StreamAssumption
      <4> QED BY <3>3, <4>1, FilledLemma
    <3>5. Filled(q) # 0
      BY <1>5, <1>8, <2>1, <3>2
    <3>6. Adding(said, t, fill) \in [Stream -> Nat]
      BY <1>3, <1>5 DEF Adding
    <3> QED BY <3>1, <3>2, <3>3, <3>4, <3>5, <3>6
  <2>2. CASE ~ fill > 0
    <3>1. full = p /\ g = said
      BY <2>2
    <3> HIDE DEF full, g
    <3>2. CASE o.hdr = NULL
      <4>1. Filled(p) = 0 /\ h
        BY <1>4, <1>6, <1>7, <2>2, <3>2
      <4>2. Filled(p) <= MaxRecord
        BY <4>1 DEF MaxRecord
      <4> QED BY <1>3, <1>7, <3>1, <4>1, <4>2
    <3>3. CASE o.hdr # NULL
      <4>1. p.pos <= BufSize /\ Filled(p) # 0
        BY <1>4, <1>7, <1>8, <3>3
      <4>2. Filled(p) <= MaxRecord
        BY <1>7, <4>1, FilledLemma
      <4> QED BY <1>3, <1>7, <3>1, <4>1, <4>2
    <3> QED BY <3>2, <3>3
  <2> QED BY <2>1, <2>2
<1>10. Adding(said, t, n) = IF n > fill THEN Adding(g, t, n - fill) ELSE g
  <2>1. CASE n > fill /\ fill > 0
    <3> DEFINE k == n - fill
    <3>1. k \in Nat /\ fill + k = n
      BY <1>5, <2>1
    <3>2. g = [said EXCEPT ![t] = @ + fill]
      BY <2>1 DEF Adding
    <3>3. said[t] + n = said[t] + fill + k
      BY <1>3, <1>5, <3>1
    <3> HIDE DEF k, g
    <3>4. [g EXCEPT ![t] = @ + k] = [said EXCEPT ![t] = @ + n]
      BY <1>3, <3>2, <3>3
    <3> QED BY <2>1, <3>4 DEF Adding, k
  <2>2. CASE n > fill /\ ~ fill > 0
    <3>1. g = said /\ n - fill = n
      BY <1>5, <2>2
    <3> QED BY <2>2, <3>1
  <2>3. CASE ~ n > fill
    <3>1. n = fill /\ fill > 0
      BY <1>1, <1>5, <2>3
    <3> QED BY <2>3, <3>1
  <2> QED BY <2>1, <2>2, <2>3
<1>11. g[t] = said[t] + fill
  BY <1>3, <1>5 DEF Adding
<1> HIDE DEF full, g
<1>12. Holds(wire, c, g, h) /\ c \in Buffer /\ c.hdr = NULL
  BY <1>1, <1>3, <1>9, HoldsClosed, ClosedLemma
<1> HIDE DEF c
<1>13. wire' \in Seq(Chunk) /\ Holds(wire', Empty, g, h)
  <2>1. wire \o c.done \in Seq(Chunk) /\ Holds(wire \o c.done, Empty, g, h)
    BY <1>1, <1>3, <1>12, HoldsSent
  <2> QED BY <1>2, <2>1, ConcatEmptySeq
<1>14. Heard' = said'
  BY <1>1, <1>3, StreamAssumption DEF Heard, NoCall
<1>15. CASE n > fill
  <2> DEFINE k == n - fill
             q == Put(start, g[start.type], k)
  <2>1. k \in Nat /\ k > 0
    BY <1>5, <1>15
  <2>2. /\ Holds(wire', start, g, h) /\ start.type = t /\ Filled(start) = 0
        /\ start \in Buffer /\ Framed(start) /\ start.hdr # NULL
    BY <1>3, <1>13, EmptyLemma, OpenLemma, HoldsOpened
  <2>3. after = q
    BY <1>11, <1>15, <2>2
  <2> HIDE DEF start, k, after
  <2>4. /\ Holds(wire', q, Adding(g, t, k), h) /\ q.type = t /\ Filled(q) = 0 + k
    BY <1>3, <1>9, <1>13, <2>1, <2>2, HoldsMore
  <2>5. q.hdr # NULL
    BY <1>3, <1>9, <2>1, <2>2, PutLemma
  <2> HIDE DEF q
  <2>6. Filled(q) > 0
    BY <2>1, <2>4
  <2>7. Adding(g, t, k) = said'
    BY <1>3, <1>10, <1>15 DEF k
  <2> QED BY <1>1, <1>2, <1>3, <1>14, <2>3, <2>4, <2>5, <2>6, <2>7 DEF Accounts, h
<1>16. CASE ~ n > fill
  <2>1. after = Empty /\ g = said'
    BY <1>3, <1>10, <1>16
  <2> HIDE DEF after
  <2> QED BY <1>1, <1>2, <1>3, <1>13, <1>14, <2>1, EmptyLemma DEF Accounts, h
<1> QED BY <1>15, <1>16

LEMMA WriteLongWhole ==
  ASSUME WholeInv, NEW t \in Stream, NEW n \in Nat, n # 0, WriteLong(t, n), sound'
  PROVE  Accounts'
<1> DEFINE o == ForType(t)
           h == Mixed'
<1>1. /\ call = NoCall /\ call' = [type |-> t, from |-> said[t], len |-> n] /\ Says(t, n)
      /\ sound /\ out' = Closed(o) /\ wire' = wire /\ TypeOK /\ IInv /\ wire \in Seq(Chunk)
      /\ n - Limit(o) >= BufSize - 8
  BY DEF WriteLong, Calls, WholeInv, IInv, TypeOK, HeaderSize
<1>2. /\ said' = Adding(said, t, n) /\ said \in [Stream -> Nat] /\ said' \in [Stream -> Nat]
      /\ h \in BOOLEAN
  BY <1>1, SaysLemma
<1>3. /\ Holds(wire, o, said, h)
      /\ o.hdr # NULL => Filled(o) > 0 /\ o.pos <= BufSize
      /\ o \in Buffer /\ Framed(o)
  BY <1>1, SaysLemma, ForTypeHolds, ForTypeLemma
<1>4. Limit(o) \in Nat
  BY <1>3, LimitLemma
<1>5. n >= 8
  <2>1. BufSize \in Nat /\ BufSize >= 16
    BY StreamAssumption
  <2> HIDE DEF o
  <2> QED BY <1>1, <1>4, <2>1
<1> HIDE DEF o, h
<1>6. Holds(wire, Closed(o), said, h) /\ Closed(o).hdr = NULL
  <2>1. o.hdr # NULL => Filled(o) <= MaxRecord /\ Filled(o) # 0
    BY <1>3, FilledLemma
  <2> QED BY <1>1, <1>2, <1>3, <2>1, HoldsClosed, ClosedLemma
<1>7. call'.type = t /\ call'.len = n /\ call'.from = said[t] /\ call' # NoCall
  BY <1>1, StreamAssumption DEF NoCall
<1>8. Heard' = said
  <2>1. Heard' = [s \in Stream |-> said'[s] - (IF t = s THEN n ELSE 0)]
    BY <1>7 DEF Heard
  <2>2. \A s \in Stream : said'[s] - (IF t = s THEN n ELSE 0) = said[s]
    BY <1>2 DEF Adding
  <2> QED BY <1>2, <2>1, <2>2
<1> QED BY <1>1, <1>2, <1>5, <1>6, <1>7, <1>8 DEF Accounts, h

LEMMA SendRecordWhole ==
  ASSUME WholeInv, call # NoCall, sound', NEW n \in Nat, n % 8 = 0, n # 0, n <= MaxRecord,
         NEW after, SendRecord(n, after)
  PROVE  /\ sound /\ out' = after /\ said' = said /\ call.type \in Stream /\ Accounts
         /\ Mixed' = Mixed /\ Mixed \in BOOLEAN
         /\ wire' \in Seq(Chunk) /\ Holds(wire', Empty, Adding(Heard, call.type, n), Mixed)
<1> DEFINE o == Direct(out, call.type, n)
           e == Text(call.type, call.from, n)
<1>1. /\ out \in Buffer /\ Framed(out) /\ out.hdr = NULL /\ call.type \in Stream
      /\ call.from \in Nat /\ wire \in Seq(Chunk)
  BY DEF WholeInv, IInv, TypeOK
<1>2. Sends(o, <<e>>, after) /\ said' = said
  BY DEF SendRecord
<1>3. sound /\ wire' = (wire \o o.done) \o <<e>> /\ out' = after
  BY <1>2 DEF Sends
<1>4. Accounts
  BY <1>3 DEF WholeInv
<1>5. /\ Heard \in [Stream -> Nat] /\ call.from = Heard[call.type]
      /\ Holds(wire, out, Heard, Mixed)
  BY <1>4 DEF Accounts
<1>6. Mixed' = Mixed /\ Mixed \in BOOLEAN
  BY <1>2 DEF Mixed
<1>7. Holds(wire', Empty, Adding(Heard, call.type, n), Mixed)
  BY <1>1, <1>3, <1>5, <1>6, HoldsDirect
<1>8. wire' \in Seq(Chunk)
  <2>1. o.done \in Seq(Chunk) /\ e \in Chunk
    BY <1>1, DirectLemma, TextLemma DEF Buffer
  <2> HIDE DEF o, e
  <2> QED BY <1>1, <1>3, <2>1
<1> QED BY <1>1, <1>2, <1>3, <1>4, <1>6, <1>7, <1>8

LEMMA LongRecordWhole ==
  ASSUME WholeInv, LongRecord, sound'
  PROVE  Accounts'
<1> DEFINE n == FullRecord
           t == call.type
           g == Adding(Heard, t, n)
<1>1. /\ call # NoCall /\ call.len > MaxRecord /\ SendRecord(n, Empty)
      /\ call' = [type |-> t, from |-> call.from + n, len |-> call.len - n]
  BY DEF LongRecord, ManyLeft
<1>2. n \in Nat /\ n % 8 = 0 /\ n # 0 /\ n <= MaxRecord /\ MaxRecord = n + 7
  BY DEF FullRecord, MaxRecord
<1> HIDE DEF n
<1>3. /\ out' = Empty /\ said' = said /\ t \in Stream /\ Accounts /\ Mixed' = Mixed
      /\ Holds(wire', Empty, g, Mixed)
  BY <1>1, <1>2, SendRecordWhole
<1>4. /\ said \in [Stream -> Nat] /\ call.len \in Nat /\ call.from \in Nat
      /\ Heard \in [Stream -> Nat] /\ call.from = Heard[t]
  BY <1>1, <1>3 DEF WholeInv, IInv, TypeOK, Accounts
<1>5. /\ call'.type = t /\ call'.from = call.from + n /\ call'.len = call.len - n
      /\ call.len - n >= 8 /\ call.len - n \in Nat /\ call' # NoCall
  <2>1. call'.type = t /\ call'.from = call.from + n /\ call'.len = call.len - n
    BY <1>1
  <2>2. call.len - n >= 8 /\ call.len - n \in Nat
    BY <1>1, <1>2, <1>4
  <2>3. call' # NoCall
    BY <2>1, <1>3, StreamAssumption DEF NoCall
  <2> QED BY <2>1, <2>2, <2>3
<1>6. Heard' = g
  <2>1. Heard' = [s \in Stream |-> said[s] - (IF t = s THEN call.len - n ELSE 0)]
    BY <1>3, <1>5 DEF Heard
  <2>2. \A s \in Stream : g[s] = IF s = t THEN Heard[s] + n ELSE Heard[s]
    BY <1>3, <1>4 DEF Adding
  <2>3. \A s \in Stream : Heard[s] = said[s] - (IF t = s THEN call.len ELSE 0)
    BY DEF Heard
  <2>4. \A s \in Stream : g[s] = said[s] - (IF t = s THEN call.len - n ELSE 0)
    BY <1>2, <1>4, <2>2, <2>3
  <2>5. g = [s \in Stream |-> g[s]]
    BY <1>4 DEF Adding
  <2> HIDE DEF g
  <2> QED BY <2>1, <2>4, <2>5
<1>7. g \in [Stream -> Nat] /\ g[t] = call.from + n
  BY <1>2, <1>3, <1>4 DEF Adding
<1> HIDE DEF g
<1> QED BY <1>3, <1>5, <1>6, <1>7, EmptyLemma DEF Accounts

LEMMA LongEndsWhole ==
  ASSUME WholeInv, LongEnds, sound'
  PROVE  Accounts'
<1> DEFINE t     == call.type
           pad   == Pad(call.len)
           rest  == IF pad # 0 THEN 8 - pad ELSE 0
           n     == call.len - rest
           g     == Adding(Heard, t, n)
           start == Open(Empty, t)
           after == IF pad # 0 THEN Put(start, call.from + n, rest) ELSE Empty
<1>1. call # NoCall /\ ~ call.len > MaxRecord /\ SendRecord(n, after) /\ call' = NoCall
  BY DEF LongEnds, ManyLeft
<1>2. /\ call.type \in Stream /\ call.from \in Nat /\ call.len \in Nat
      /\ said \in [Stream -> Nat] /\ call.len >= 8
  BY <1>1 DEF WholeInv, IInv, TypeOK, Accounts, SendRecord, Sends
<1>3. pad \in 0..7 /\ rest \in 0..7 /\ n \in Nat /\ n % 8 = 0 /\ n # 0 /\ n <= MaxRecord
      /\ n + rest = call.len /\ (pad # 0 <=> rest # 0)
  <2>1. pad \in 0..7 /\ call.len % 8 = (IF pad # 0 THEN 8 - pad ELSE 0)
    BY <1>2 DEF Pad
  <2>2. rest \in 0..7 /\ call.len % 8 = rest /\ (pad # 0 <=> rest # 0)
    BY <2>1
  <2> HIDE DEF rest, pad
  <2>3. n \in Nat /\ n # 0 /\ n <= MaxRecord /\ n + rest = call.len
    BY <1>1, <1>2, <2>2 DEF MaxRecord
  <2>4. n % 8 = 0
    BY <1>2, <2>2
  <2> QED BY <2>1, <2>2, <2>3, <2>4
<1> HIDE DEF pad, rest, n, after
<1>4. /\ out' = after /\ said' = said /\ Accounts /\ Mixed' = Mixed /\ Mixed \in BOOLEAN
      /\ wire' \in Seq(Chunk) /\ Holds(wire', Empty, g, Mixed)
  BY <1>1, <1>3, SendRecordWhole
<1>5. Heard \in [Stream -> Nat] /\ call.from = Heard[t]
  BY <1>1, <1>4 DEF Accounts
<1>6. g \in [Stream -> Nat] /\ g[t] = call.from + n
  BY <1>2, <1>3, <1>5 DEF Adding
<1>7. Adding(g, t, rest) = said
  <2>1. \A s \in Stream : Heard[s] = said[s] - (IF t = s THEN call.len ELSE 0)
    BY DEF Heard
  <2>2. \A s \in Stream : Adding(g, t, rest)[s] = IF s = t THEN Heard[s] + n + rest ELSE Heard[s]
    BY <1>2, <1>3, <1>5 DEF Adding
  <2>3. \A s \in Stream : Adding(g, t, rest)[s] = said[s]
    BY <1>2, <1>3, <1>5, <2>1, <2>2
  <2>4. Adding(g, t, rest) = [s \in Stream |-> Adding(g, t, rest)[s]]
    BY <1>6 DEF Adding
  <2> HIDE DEF g
  <2> QED BY <1>2, <2>3, <2>4
<1>8. Heard' = said'
  BY <1>1, <1>2, <1>4, StreamAssumption DEF Heard, NoCall
<1> HIDE DEF g
<1>9. CASE pad # 0
  <2> DEFINE q == Put(start, g[start.type], rest)
  <2>1. /\ Holds(wire', start, g, Mixed) /\ start.type = t /\ Filled(start) = 0
        /\ start \in Buffer /\ Framed(start) /\ start.hdr # NULL
    BY <1>2, <1>4, EmptyLemma, OpenLemma, HoldsOpened
  <2>2. after = q
    BY <1>6, <1>9, <2>1 DEF after
  <2>3. rest \in Nat /\ rest > 0
    BY <1>3, <1>9
  <2> HIDE DEF start
  <2>4. /\ Holds(wire', q, Adding(g, t, rest), Mixed) /\ q.type = t /\ Filled(q) = 0 + rest
    BY <1>4, <1>6, <2>1, <2>3, HoldsMore
  <2>5. q.hdr # NULL
    BY <1>6, <1>2, <2>1, <2>3, PutLemma
  <2> HIDE DEF q
  <2>6. Filled(q) > 0
    BY <2>3, <2>4
  <2>7. said[t] > 0
    <3>1. Heard[t] = said[t] - call.len
      BY <1>2 DEF Heard
    <3> QED BY <1>2, <1>5, <3>1
  <2> QED BY <1>1, <1>2, <1>4, <1>7, <1>8, <2>2, <2>4, <2>5, <2>6, <2>7 DEF Accounts
<1>10. CASE pad = 0
  <2>1. rest = 0 /\ after = Empty
    BY <1>3, <1>10 DEF after
  <2>2. g = said
    <3>1. Adding(g, t, rest) = g
      BY <1>2, <1>6, <2>1 DEF Adding
    <3> QED BY <1>7, <3>1
  <2> QED BY <1>1, <1>2, <1>4, <1>8, <2>1, <2>2, EmptyLemma DEF Accounts
<1> QED BY <1>9, <1>10

(* fcgi_flush: what is buffered, with or without the end of the request.   *)
LEMMA FlushedWhole ==
  ASSUME WholeInv, sound', call = NoCall, call' = NoCall, said' = said,
         NEW more \in {<<>>, <<End>>}, Sends(Closed(out), more, Empty)
  PROVE  Accounts'
<1> DEFINE c == Closed(out)
<1>1. sound /\ wire' = (wire \o c.done) \o more /\ out' = Empty
  BY DEF Sends
<1>2. /\ wire \in Seq(Chunk) /\ out \in Buffer /\ Framed(out)
      /\ out.hdr # NULL => out.pos <= BufSize
      /\ Heard = said /\ said \in [Stream -> Nat] /\ Accounts
  BY <1>1, HeardLemma DEF WholeInv, IInv, TypeOK
<1>3. Mixed \in BOOLEAN /\ Mixed' = Mixed
  BY DEF Mixed
<1>4. Holds(wire, c, said, Mixed) /\ c \in Buffer /\ c.hdr = NULL
  <2>1. out.hdr # NULL => Filled(out) <= MaxRecord /\ Filled(out) > 0 /\ Filled(out) \in Nat
    BY <1>2, FilledLemma DEF Accounts
  <2>2. Holds(wire, out, said, Mixed)
    BY <1>2 DEF Accounts
  <2> QED BY <1>2, <1>3, <2>1, <2>2, HoldsClosed, ClosedLemma
<1> HIDE DEF c
<1> DEFINE w == wire \o c.done
<1>5. w \in Seq(Chunk) /\ Holds(w, Empty, said, Mixed)
  BY <1>2, <1>3, <1>4, HoldsSent
<1> HIDE DEF w
<1>6. Holds(wire', Empty, said, Mixed)
  <2>1. CASE more = <<>>
    <3>1. wire' = w
      BY <1>1, <1>5, <2>1, ConcatEmptySeq DEF w
    <3> QED BY <1>5, <3>1
  <2>2. CASE more = <<End>>
    <3>1. wire' = w \o <<End>>
      BY <1>1, <2>2 DEF w
    <3> QED BY <1>3, <1>5, <3>1, HoldsAtEnd
  <2> QED BY <2>1, <2>2
<1>7. Heard' = said'
  BY <1>2, StreamAssumption DEF Heard, NoCall
<1> QED BY <1>1, <1>2, <1>3, <1>6, <1>7, EmptyLemma DEF Accounts

(* Nothing has been written in a new request. *)
LEMMA NothingWhole ==
  /\ Init => Accounts
  /\ NextRequest => Accounts'
<1>1. Nothing \in [Stream -> Nat] /\ \A s \in Stream : Nothing[s] = 0
  BY DEF Nothing
<1>2. ASSUME NEW h \in BOOLEAN PROVE Holds(<<>>, Empty, Nothing, h)
  <2>1. Read(<<>>) = Start
    <3>1. <<>> \in Seq(Chunk) /\ End \in Chunk
      BY DEF End, Piece, Chunk
    <3> QED BY <3>1, ReadLemma
  <2>2. Between(Start, Nothing, h)
    BY StartLemma, MayBeHollow DEF Between
  <2>3. Empty.hdr = NULL /\ Empty.done = <<>> /\ <<>> \o <<>> = <<>>
    BY DEF Empty
  <2> QED BY <2>1, <2>2, <2>3 DEF Holds
<1>3. Init => Accounts
  <2> SUFFICES ASSUME Init PROVE Accounts
    OBVIOUS
  <2>1. said = Nothing /\ wire = <<>> /\ out = Empty /\ call = NoCall
    BY DEF Init
  <2>2. Heard = said /\ Mixed \in BOOLEAN
    BY <1>1, <2>1, StreamAssumption DEF Heard, NoCall, Mixed
  <2> QED BY <1>1, <1>2, <2>1, <2>2, EmptyLemma DEF Accounts
<1>4. NextRequest => Accounts'
  <2> SUFFICES ASSUME NextRequest PROVE Accounts'
    OBVIOUS
  <2>1. said' = Nothing /\ wire' = <<>> /\ out' = Empty /\ call' = NoCall
    BY DEF NextRequest
  <2>2. Heard' = said' /\ Mixed' \in BOOLEAN
    BY <1>1, <2>1, StreamAssumption DEF Heard, NoCall, Mixed
  <2> QED BY <1>1, <1>2, <2>1, <2>2, EmptyLemma DEF Accounts
<1> QED BY <1>3, <1>4

LEMMA WholeStep == WholeInv /\ [Next]_vars => WholeInv'
<1> SUFFICES ASSUME WholeInv, [Next]_vars PROVE WholeInv'
  OBVIOUS
<1>1. IInv'
  BY InductiveStep DEF WholeInv
<1>2. ASSUME sound' PROVE Accounts'
  <2>1. ASSUME NEW t \in Stream, NEW n \in Lens, Write(t, n) PROVE Accounts'
    <3>1. n \in Nat /\ n # 0
      BY StreamAssumption
    <3> QED BY <1>2, <2>1, <3>1, WriteFitsWhole, WriteFillsWhole, WriteLongWhole DEF Write
  <2>2. CASE LongRecord
    BY <1>2, <2>2, LongRecordWhole
  <2>3. CASE LongEnds
    BY <1>2, <2>3, LongEndsWhole
  <2>4. CASE Flush
    BY <1>2, <2>4, FlushedWhole DEF Flush, Calls
  <2>5. CASE Finish
    BY <1>2, <2>5, FlushedWhole DEF Finish
  <2>6. CASE NextRequest
    BY <2>6, NothingWhole
  <2>7. CASE UNCHANGED vars
    BY <1>2, <2>7 DEF vars, WholeInv, Accounts, Heard, Mixed, Holds, Through
  <2> QED BY <2>1, <2>2, <2>3, <2>4, <2>5, <2>6, <2>7 DEF Next
<1> QED BY <1>1, <1>2 DEF WholeInv

LEMMA WholeLemma == WholeInv => StreamsAreWhole
<1> SUFFICES ASSUME WholeInv, sound
             PROVE  /\ Received.ok /\ Received.left = 0 /\ Received.pad = 0
                    /\ Received.got = Heard /\ (Received.hollow => Mixed)
  BY DEF StreamsAreWhole
<1>1. /\ wire \in Seq(Chunk) /\ out \in Buffer /\ Framed(out)
      /\ out.hdr # NULL => out.pos <= BufSize
      /\ Accounts
  BY DEF WholeInv, IInv, TypeOK
<1>2. Holds(wire, Closed(out), Heard, Mixed) /\ Closed(out).hdr = NULL
  <2>1. out.hdr # NULL => Filled(out) <= MaxRecord /\ Filled(out) > 0 /\ Filled(out) \in Nat
    BY <1>1, FilledLemma DEF Accounts
  <2>2. Holds(wire, out, Heard, Mixed) /\ Mixed \in BOOLEAN
    BY <1>1 DEF Accounts, Mixed
  <2> QED BY <1>1, <2>1, <2>2, HoldsClosed, ClosedLemma
<1>3. Received = Read(wire \o Closed(out).done)
  BY DEF Received, Read, Start
<1> QED BY <1>2, <1>3 DEF Holds, Between, Expects

-----------------------------------------------------------------------------
(* The buffer, the rest of a long call and the chunks on their way keep    *)
(* their types, whatever the program writes.                               *)
THEOREM FcgiTypeCorrect == Spec => []TypeOK
<1>1. IInv => TypeOK
  BY DEF IInv
<1> QED BY <1>1, InductiveLemma, PTL

(* fcgi_write and fcgi_flush write nothing past out_buf and the bytes      *)
(* reserved behind it, for every size of the buffer that is a multiple of  *)
(* eight and every sequence of calls, until a write() fails.               *)
THEOREM FcgiWithinBuffer == Spec => []WithinBuffer
<1>1. IInv => WithinBuffer
  BY DEF IInv
<1> QED BY <1>1, InductiveLemma, PTL

(* As long as no write() has failed, what was sent and what waits in the   *)
(* buffer are well-formed records with every byte written once, in the     *)
(* order of its stream, and no record is without content unless the        *)
(* program has written to two streams: whatever the lengths of the calls,  *)
(* for every size of the buffer that a record can hold.                    *)
THEOREM FcgiStreamsAreWhole == Spec => []StreamsAreWhole
<1>1. Init => WholeInv
  BY InitIInv, NothingWhole DEF WholeInv
<1> QED BY <1>1, WholeStep, WholeLemma, PTL DEF Spec

-----------------------------------------------------------------------------
(* Over a connection. *)

(* fcgi_read_request and fcgi_accept_request empty the buffer, or leave it *)
(* as it is.                                                               *)
LEMMA EmptiedLemma == Emptied => [Next]_vars
BY DEF Emptied, Next

LEMMA WritingLemma == Writing => [Next]_vars
<1>1. FewLens \subseteq Lens
  BY ConnectionAssumption
<1> QED BY <1>1 DEF Writing, Next

(* Every step of the composition is a step of FcgiStream or leaves what    *)
(* FcgiStream has as it was.                                               *)
LEMMA ConnectionStep == [ConnectionNext]_connectionVars => [Next]_vars
<1> SUFFICES ASSUME [ConnectionNext]_connectionVars PROVE [Next]_vars
  OBVIOUS
<1>1. CASE Beginning
  BY <1>1, EmptiedLemma DEF Beginning
<1>2. CASE Reading
  BY <1>2 DEF Reading
<1>3. CASE Writing
  BY <1>3, WritingLemma
<1>4. CASE Finishing
  BY <1>4 DEF Finishing, Next
<1>5. CASE Accepting
  BY <1>5, EmptiedLemma DEF Accepting
<1>6. CASE Peer
  BY <1>6 DEF Peer
<1>7. CASE UNCHANGED connectionVars
  BY <1>7 DEF connectionVars
<1> QED BY <1>1, <1>2, <1>3, <1>4, <1>5, <1>6, <1>7 DEF ConnectionNext

(* A worker that reads and writes over one connection writes as FcgiStream *)
(* says: nothing that is proved of replies alone is lost by reading.       *)
THEOREM ConnectionImplementsStream == ConnectionSpec => Spec
<1>1. ConnectionInit => Init
  BY DEF ConnectionInit
<1> QED BY <1>1, ConnectionStep, PTL DEF ConnectionSpec, Spec

(* No byte of any reply of a connection is written past the buffer,        *)
(* whatever requests came before it.                                       *)
THEOREM ConnectionWithinBuffer == ConnectionSpec => []WithinBuffer
BY ConnectionImplementsStream, FcgiWithinBuffer, PTL

(* The same of the types of all that is on its way to the web server.      *)
THEOREM ConnectionTypeCorrect == ConnectionSpec => []TypeOK
BY ConnectionImplementsStream, FcgiTypeCorrect, PTL

(* The web server gets whole records over a connection that carries        *)
(* requests too.                                                           *)
THEOREM ConnectionStreamsAreWhole == ConnectionSpec => []StreamsAreWhole
BY ConnectionImplementsStream, FcgiStreamsAreWhole, PTL

-----------------------------------------------------------------------------
(* Replies and requests. *)

(* The worker has reached a phase, in a request.                           *)
HasPhase == {"phase", "req"} \subseteq DOMAIN reader

KeptInv == HasPhase /\ KeptIsAnswered

(* A step of the reader leads to another phase than "idle".                *)
LEMMA ReadingLemma ==
  ASSUME HasPhase, ReadsRequest \/ ReadsBody
  PROVE  HasPhase' /\ reader'.phase # "idle"
<1>1. CASE ReadsRequest
  <2>1. CASE NoRequest \/ TakesValues \/ CutOff
    BY <2>1 DEF NoRequest, TakesValues, CutOff, Refused, HasPhase
  <2>2. CASE TakesHeader
    BY <2>2 DEF TakesHeader, HasPhase
  <2>3. CASE TakesBegin
    BY <2>3 DEF TakesBegin, HasPhase
  <2>4. CASE TakesParams
    BY <2>4 DEF TakesParams, HasPhase
  <2>5. CASE TakesPairs
    BY <2>5 DEF TakesPairs, HasPhase
  <2> QED BY <1>1, <2>1, <2>2, <2>3, <2>4, <2>5 DEF ReadsRequest
<1>2. CASE ReadsBody
  <2>1. CASE \E n \in Asked : Asks(n)
    BY <2>1 DEF Asks, HasPhase
  <2>2. CASE NoRecord \/ ContentFails
    BY <2>2 DEF NoRecord, ContentFails, Returns, HasPhase
  <2>3. CASE NextRecord
    BY <2>3 DEF NextRecord, GoesOn, Returns, HasPhase
  <2>4. CASE Content
    BY <2>4 DEF Content, GoesOn, Returns, HasPhase
  <2>5. CASE RecordPadding
    BY <2>5 DEF RecordPadding, GoesOn, Returns, HasPhase
  <2> QED BY <1>2, <2>1, <2>2, <2>3, <2>4, <2>5 DEF ReadsBody
<1> QED BY <1>1, <1>2

(* The end of a request that keeps the connection sent the end of the      *)
(* reply.                                                                  *)
LEMMA FinishingLemma ==
  ASSUME IInv, KeptInv, Finishing
  PROVE  KeptInv'
<1>1. /\ reader' = [reader EXCEPT !.phase = IF KeptAfter THEN "idle" ELSE "closed",
                                  !.ignored = @ \/ (~reader.asked /\ ~HasBody)]
      /\ Sends(Closed(out), <<End>>, Empty)
  BY DEF Finishing, FinishRequest, Finish
<1>2. HasPhase'
  BY <1>1 DEF KeptInv, HasPhase
<1>3. reader'.phase = "idle" => sound'
  BY <1>1 DEF KeptInv, HasPhase, KeptAfter
<1>4. sound' => wire' = (wire \o Closed(out).done) \o <<End>> /\ out' = Empty
  BY <1>1 DEF Sends
<1>5. sound' => wire' # <<>> /\ Last(wire') = End
  <2> SUFFICES ASSUME sound' PROVE wire' # <<>> /\ Last(wire') = End
    OBVIOUS
  <2> DEFINE w == wire \o Closed(out).done
  <2>1. w \in Seq(Chunk) /\ End \in Chunk
    <3>1. Closed(out).done \in Seq(Chunk) /\ wire \in Seq(Chunk)
      BY ClosedLemma DEF IInv, TypeOK, Buffer
    <3> QED BY <3>1 DEF End, Piece, Chunk
  <2>2. wire' = w \o <<End>>
    BY <1>4
  <2> HIDE DEF w
  <2> QED BY <2>1, <2>2 DEF Last
<1> QED BY <1>2, <1>3, <1>4, <1>5 DEF KeptInv, KeptIsAnswered

LEMMA KeptStep == IInv /\ KeptInv /\ [ConnectionNext]_connectionVars => KeptInv'
<1> SUFFICES ASSUME IInv, KeptInv, [ConnectionNext]_connectionVars PROVE KeptInv'
  OBVIOUS
<1>1. CASE Beginning
  BY <1>1 DEF Beginning, ReadRequest, Unread, KeptInv, HasPhase, KeptIsAnswered
<1>2. CASE Reading
  BY <1>2, ReadingLemma DEF Reading, KeptInv, KeptIsAnswered
<1>3. CASE Writing
  BY <1>3 DEF Writing, KeptInv, HasPhase, KeptIsAnswered
<1>4. CASE Finishing
  BY <1>4, FinishingLemma
<1>5. CASE Accepting
  BY <1>5 DEF Accepting, Accept, Unread, KeptInv, HasPhase, KeptIsAnswered
<1>6. ASSUME Peer \/ UNCHANGED connectionVars PROVE KeptInv'
  <2>1. UNCHANGED <<out, wire, sound, reader>>
    BY <1>6 DEF Peer, Server, Send, Leave, vars, connectionVars, inputVars
  <2> QED BY <2>1 DEF KeptInv, HasPhase, KeptIsAnswered
<1> QED BY <1>1, <1>2, <1>3, <1>4, <1>5, <1>6 DEF ConnectionNext

(* A connection kept for the next request has had the whole of the reply   *)
(* before: fcgi_finish_request closes it when any write() of the reply     *)
(* failed, also in the middle of the request, and flushes first.           *)
THEOREM ConnectionKeptIsAnswered == ConnectionSpec => []KeptIsAnswered
<1>1. ConnectionInit => KeptInv
  BY DEF ConnectionInit, InputInit, Unread, KeptInv, HasPhase, KeptIsAnswered
<1>2. KeptInv => KeptIsAnswered
  BY DEF KeptInv
<1> QED
  BY <1>1, <1>2, KeptStep, ConnectionImplementsStream, InductiveLemma, PTL DEF ConnectionSpec

-----------------------------------------------------------------------------
(* Sequences that are cut off, and sequences of sequences. *)

LEMMA GroupLemma ==
  ASSUME NEW S, NEW a \in Seq(S), NEW b \in Seq(S), NEW d \in Seq(S)
  PROVE  Assoc(a, b, d)
BY ConcatAssociative DEF Assoc

(* s is what is left of full when its end was cut off.                     *)
IsCut(s, full) == Len(s) <= Len(full) /\ \A k \in 1..Len(s) : s[k] = full[k]

Past(s, n) == SubSeq(s, n + 1, Len(s))

LEMMA JoinLemma ==
  ASSUME NEW S, NEW a \in Seq(S), NEW b \in Seq(S)
  PROVE  /\ a \o b \in Seq(S) /\ Len(a \o b) = Len(a) + Len(b)
         /\ \A k \in 1..Len(a) : (a \o b)[k] = a[k]
         /\ \A k \in 1..Len(b) : (a \o b)[Len(a) + k] = b[k]
<1>1. Len(a) \in Nat /\ Len(b) \in Nat
  OBVIOUS
<1>2. a \o b \in Seq(S) /\ Len(a \o b) = Len(a) + Len(b)
  BY ConcatProperties
<1>3. \A k \in 1..(Len(a) + Len(b)) : (a \o b)[k] = IF k <= Len(a) THEN a[k] ELSE b[k - Len(a)]
  BY ConcatProperties
<1> DEFINE m == Len(a)
           n == Len(b)
           c == a \o b
<1>4. /\ m \in Nat /\ n \in Nat
      /\ \A k \in 1..(m + n) : c[k] = IF k <= m THEN a[k] ELSE b[k - m]
  BY <1>1, <1>3
<1> HIDE DEF m, n, c
<1>5. \A k \in 1..m : c[k] = a[k]
  BY <1>4
<1>6. \A k \in 1..n : c[m + k] = b[k]
  <2> TAKE k \in 1..n
  <2>1. m + k \in 1..(m + n) /\ ~ (m + k <= m) /\ m + k - m = k
    BY <1>4
  <2> QED BY <2>1, <1>4
<1> QED BY <1>2, <1>5, <1>6 DEF m, n, c

LEMMA SplitLemma ==
  ASSUME NEW S, NEW s \in Seq(S), NEW n \in 0..Len(s)
  PROVE  /\ SubSeq(s, 1, n) \in Seq(S) /\ Len(SubSeq(s, 1, n)) = n
         /\ \A k \in 1..n : SubSeq(s, 1, n)[k] = s[k]
         /\ Past(s, n) \in Seq(S) /\ Len(Past(s, n)) = Len(s) - n
         /\ \A k \in 1..(Len(s) - n) : Past(s, n)[k] = s[n + k]
<1> DEFINE l == Len(s)
           a == SubSeq(s, 1, n)
           b == SubSeq(s, n + 1, l)
<1>1. l \in Nat /\ n \in 0..l
  OBVIOUS
<1>2. /\ \A i \in 1..l : s[i] \in S
  BY ElementOfSeq
<1>3. /\ a = [i \in 1..n |-> s[i]]
      /\ b = [i \in 1..(l - n) |-> s[n + i]]
  OBVIOUS
<1> HIDE DEF l, a, b
<1>4. /\ n \in Nat /\ l - n \in Nat /\ 1..n \subseteq 1..l /\ \A i \in 1..(l - n) : n + i \in 1..l
  BY <1>1
<1>5. a \in Seq(S) /\ Len(a) = n
  BY <1>2, <1>3, <1>4, IsASeq, LenProperties
<1>6. b \in Seq(S) /\ Len(b) = l - n
  BY <1>2, <1>3, <1>4, IsASeq, LenProperties
<1> QED BY <1>3, <1>4, <1>5, <1>6 DEF a, b, l, Past

LEMMA PastLemma ==
  ASSUME NEW S, NEW a \in Seq(S), NEW b \in Seq(S)
  PROVE  Past(a \o b, Len(a)) = b
<1> DEFINE m == Len(a)
           n == Len(b)
           c == a \o b
           r == Past(c, m)
<1>1. m \in Nat /\ n \in Nat
  BY LenProperties
<1>2. c \in Seq(S) /\ Len(c) = m + n /\ \A k \in 1..n : c[m + k] = b[k]
  BY JoinLemma
<1>3. m \in 0..Len(c)
  <2> HIDE DEF m, n, c
  <2> QED BY <1>1, <1>2
<1>4. r \in Seq(S) /\ Len(r) = Len(c) - m /\ \A k \in 1..(Len(c) - m) : r[k] = c[m + k]
  <2> HIDE DEF m, n, c
  <2> QED BY <1>2, <1>3, SplitLemma DEF r
<1> HIDE DEF m, c, r
<1>5. Len(r) = n /\ \A k \in 1..n : r[k] = b[k]
  <2> HIDE DEF n
  <2> QED BY <1>1, <1>2, <1>4
<1> QED BY <1>4, <1>5, SeqEqual DEF n, r, m, c

LEMMA CutTakes ==
  ASSUME NEW S, NEW a \in Seq(S), NEW b \in Seq(S), NEW s \in Seq(S),
         IsCut(s, a \o b), Len(a) <= Len(s)
  PROVE  /\ SubSeq(s, 1, Len(a)) = a
         /\ Past(s, Len(a)) \in Seq(S) /\ IsCut(Past(s, Len(a)), b)
<1> DEFINE m == Len(a)
           n == Len(b)
           l == Len(s)
           c == a \o b
           t == SubSeq(s, 1, m)
           r == Past(s, m)
<1>1. /\ m \in Nat /\ n \in Nat /\ l \in Nat /\ m <= l
      /\ l <= Len(c) /\ \A k \in 1..l : s[k] = c[k]
  <2>1. m \in Nat /\ n \in Nat /\ l \in Nat
    BY LenProperties
  <2> QED BY <2>1, Zenon DEF IsCut
<1>2. /\ Len(c) = m + n
      /\ \A k \in 1..m : c[k] = a[k]
      /\ \A k \in 1..n : c[m + k] = b[k]
  BY JoinLemma
<1>3. m \in 0..l
  <2> HIDE DEF m, l
  <2> QED BY <1>1
<1>4. /\ t \in Seq(S) /\ Len(t) = m /\ \A k \in 1..m : t[k] = s[k]
      /\ r \in Seq(S) /\ Len(r) = l - m /\ \A k \in 1..(l - m) : r[k] = s[m + k]
  BY <1>3, SplitLemma
<1> HIDE DEF n, l, c, t, r
<1>5. t = a
  <2>1. \A k \in 1..m : k \in 1..l
    <3> HIDE DEF m
    <3> QED BY <1>1
  <2>2. \A k \in 1..m : t[k] = a[k]
    BY <1>1, <1>2, <1>4, <2>1
  <2> QED BY <1>4, <2>2, SeqEqual
<1> HIDE DEF m
<1>6. l - m <= n
  BY <1>1, <1>2
<1>7. \A k \in 1..(l - m) : r[k] = b[k]
  <2> TAKE k \in 1..(l - m)
  <2>1. m + k \in 1..l /\ k \in 1..n
    BY <1>1, <1>2
  <2> QED BY <2>1, <1>1, <1>2, <1>4
<1>8. IsCut(r, b)
  BY <1>4, <1>6, <1>7 DEF IsCut, n
<1> QED BY <1>4, <1>5, <1>8 DEF m, t, r

LEMMA CutHead ==
  ASSUME NEW S, NEW h \in S, NEW b \in Seq(S), NEW s \in Seq(S),
         IsCut(s, <<h>> \o b), s # <<>>
  PROVE  /\ Head(s) = h /\ Tail(s) \in Seq(S) /\ Tail(s) = Past(s, 1)
         /\ IsCut(Tail(s), b) /\ (s = <<h>> \o b => Tail(s) = b)
<1>1. PICK a : a = <<h>>
  OBVIOUS
<1>0. a \in Seq(S) /\ Len(a) = 1 /\ Len(a) <= Len(s) /\ a[1] = h
  BY <1>1
<1>5. IsCut(s, a \o b)
  BY <1>1
<1>2. /\ SubSeq(s, 1, Len(a)) = a
      /\ Past(s, Len(a)) \in Seq(S) /\ IsCut(Past(s, Len(a)), b)
  BY <1>5, <1>0, CutTakes
<1>3. Tail(s) = Past(s, Len(a))
  <2>1. Tail(s) = SubSeq(s, 2, Len(s))
    BY TailIsSubSeq
  <2> QED BY <1>0, <2>1 DEF Past
<1>4. Head(s) = h
  <2>1. Len(s) \in Nat /\ Len(s) >= 1 /\ s[1] = (a \o b)[1]
    BY <1>1, <1>0 DEF IsCut
  <2>2. (a \o b)[1] = h
    <3>1. 1 \in 1..Len(a)
      BY <1>0
    <3> QED BY <1>0, <3>1, JoinLemma
  <2> QED BY <2>1, <2>2
<1>6. s = a \o b => Past(s, Len(a)) = b
  BY <1>0, PastLemma
<1> QED BY <1>1, <1>2, <1>3, <1>4, <1>0, <1>6

LEMMA CutLess ==
  ASSUME NEW S, NEW full \in Seq(S), NEW s \in Seq(S), IsCut(s, full), NEW n \in 0..Len(s)
  PROVE  SubSeq(s, 1, n) \in Seq(S) /\ IsCut(SubSeq(s, 1, n), full)
<1>1. /\ SubSeq(s, 1, n) \in Seq(S) /\ Len(SubSeq(s, 1, n)) = n
      /\ \A k \in 1..n : SubSeq(s, 1, n)[k] = s[k]
  BY SplitLemma
<1> QED BY <1>1 DEF IsCut

LEMMA CutEmpty ==
  ASSUME NEW S, NEW h \in S, NEW b \in Seq(S), NEW s \in Seq(S), IsCut(s, <<h>> \o b)
  PROVE  s # <<>> => Head(s) = h
BY CutHead

(* The first k of them, one after the other, in f. *)
Flats(ss, k, f) == f = [i \in 1..k |-> IF i = 1 THEN ss[i] ELSE f[i - 1] \o ss[i]]

(* z begins with a. *)
Extends(S, a, z) == \E r \in Seq(S) : z = a \o r

LEMMA ExtendLemma ==
  ASSUME NEW S, NEW a \in Seq(S), NEW z, NEW d \in Seq(S), Extends(S, a, z)
  PROVE  Extends(S, a, z \o d)
<1>1. PICK q \in Seq(S) : z = a \o q
  BY DEF Extends
<1>2. z \o d = a \o (q \o d)
  <2>1. Assoc(a, q, d)
    BY GroupLemma
  <2> QED BY <1>1, <2>1 DEF Assoc
<1>3. q \o d \in Seq(S)
  BY ConcatProperties
<1> QED BY <1>2, <1>3 DEF Extends

LEMMA FlatsExist ==
  ASSUME NEW ss, NEW n \in Nat
  PROVE  \E f : Flats(ss, n, f)
<1> DEFINE T == {k \in Nat : ~ \E f : Flats(ss, k, f)}
<1> SUFFICES ASSUME T # {} PROVE FALSE
  OBVIOUS
<1>1. PICK x \in T : \A y \in T : x <= y
  BY LeastLemma
<1>2. x \in Nat /\ ~ \E f : Flats(ss, x, f)
  OBVIOUS
<1>3. x # 0
  <2>1. Flats(ss, 0, [i \in 1..0 |-> 0])
    BY DEF Flats
  <2> QED BY <1>2, <2>1
<1>4. x - 1 \in Nat /\ x - 1 \notin T
  <2>1. x - 1 \in Nat /\ ~ (x <= x - 1)
    BY <1>2, <1>3
  <2> QED BY <2>1, <1>1
<1>5. PICK f : Flats(ss, x - 1, f)
  BY <1>4
<1> HIDE DEF T
<1> DEFINE g == [i \in 1..x |-> IF i < x THEN f[i] ELSE IF i = 1 THEN ss[i] ELSE f[i - 1] \o ss[i]]
<1>6. ASSUME NEW i \in 1..x PROVE g[i] = IF i = 1 THEN ss[i] ELSE g[i - 1] \o ss[i]
  <2>1. i \in Nat /\ (i # 1 => i - 1 \in 1..x /\ i - 1 < x) /\ (i < x => i \in 1..x - 1)
    BY <1>2
  <2>2. i # 1 => g[i - 1] = f[i - 1]
    BY <2>1
  <2>3. i < x => f[i] = IF i = 1 THEN ss[i] ELSE f[i - 1] \o ss[i]
    BY <2>1, <1>5 DEF Flats
  <2>4. g[i] = IF i < x THEN f[i] ELSE IF i = 1 THEN ss[i] ELSE f[i - 1] \o ss[i]
    OBVIOUS
  <2> HIDE DEF g
  <2> QED BY <2>2, <2>3, <2>4
<1>7. Flats(ss, x, g)
  <2>1. g = [i \in 1..x |-> g[i]]
    OBVIOUS
  <2> HIDE DEF g
  <2> QED BY <2>1, <1>6 DEF Flats
<1> QED BY <1>2, <1>7

LEMMA FlatsAt ==
  ASSUME NEW ss, NEW k, NEW f, Flats(ss, k, f), NEW i \in 1..k
  PROVE  f[i] = IF i = 1 THEN ss[i] ELSE f[i - 1] \o ss[i]
BY DEF Flats

(* The first n sequences are the same. *)
SameFirst(ss, tt, n) == \A i \in 1..n : ss[i] = tt[i]

LEMMA FlatsAgree ==
  ASSUME NEW ss, NEW tt, NEW n \in Nat, n # 0, SameFirst(ss, tt, n),
         NEW f, NEW g, Flats(ss, n, f), Flats(tt, n + 1, g)
  PROVE  f[n] = g[n]
<1> DEFINE T == {i \in 1..n : f[i] # g[i]}
<1>1. T = {}
  <2> SUFFICES ASSUME T # {} PROVE FALSE
    OBVIOUS
  <2>1. PICK x \in T : \A y \in T : x <= y
    <3>1. T \subseteq Nat
      OBVIOUS
    <3> HIDE DEF T
    <3> QED BY <3>1, LeastLemma
  <2>2. x \in 1..n /\ x \in 1..n + 1 /\ (x # 1 => x - 1 \in 1..n /\ ~ (x <= x - 1))
    OBVIOUS
  <2>3. x # 1 => f[x - 1] = g[x - 1]
    BY <2>1, <2>2
  <2>4. f[x] = IF x = 1 THEN ss[x] ELSE f[x - 1] \o ss[x]
    BY <2>2, FlatsAt
  <2>5. g[x] = IF x = 1 THEN tt[x] ELSE g[x - 1] \o tt[x]
    BY <2>2, FlatsAt
  <2>6. f[x] = g[x]
    BY <2>2, <2>3, <2>4, <2>5 DEF SameFirst
  <2> QED BY <2>6
<1>2. n \in 1..n
  OBVIOUS
<1> QED BY <1>1, <1>2

LEMMA FlatsAre ==
  ASSUME NEW S, NEW ss \in Seq(S), Len(ss) # 0
  PROVE  \E f : Flats(ss, Len(ss), f) /\ FlattenSeq(ss) = f[Len(ss)]
<1> DEFINE n == Len(ss)
           f == CHOOSE f : f = [i \in 1..n |-> IF i = 1 THEN ss[i] ELSE f[i - 1] \o ss[i]]
<1>1. n \in Nat
  BY LenProperties
<1>2. FlattenSeq(ss) = f[n]
  BY DEF FlattenSeq
<1>3. \E g : Flats(ss, n, g)
  BY <1>1, FlatsExist
<1>4. Flats(ss, n, f)
  BY <1>3 DEF Flats
<1> QED BY <1>2, <1>4

LEMMA FlattenLemma ==
  ASSUME NEW S, NEW ss \in Seq(Seq(S)), NEW w \in Seq(S)
  PROVE  /\ FlattenSeq(<<>>) = <<>>
         /\ FlattenSeq(Append(ss, w)) = IF ss = <<>> THEN w ELSE FlattenSeq(ss) \o w
<1> DEFINE tt == Append(ss, w)
           n  == Len(ss)
<1>1. n \in Nat
  BY LenProperties
<1>2. tt \in Seq(Seq(S)) /\ Len(tt) = n + 1 /\ tt[n + 1] = w /\ \A i \in 1..n : tt[i] = ss[i]
  BY AppendProperties
<1>3. Len(tt) # 0
  <2> HIDE DEF tt, n
  <2> QED BY ONLY <1>1, <1>2
<1>4. PICK g : Flats(tt, Len(tt), g) /\ FlattenSeq(tt) = g[Len(tt)]
  BY <1>2, <1>3, FlatsAre
<1>5. g[n + 1] = IF n + 1 = 1 THEN w ELSE g[n + 1 - 1] \o w
  <2> DEFINE m == n + 1
  <2>1. m \in 1..m
    <3> HIDE DEF n
    <3> QED BY <1>1
  <2>2. Flats(tt, m, g)
    BY <1>2, <1>4
  <2> HIDE DEF tt, n, m
  <2>3. g[m] = IF m = 1 THEN tt[m] ELSE g[m - 1] \o tt[m]
    BY <2>1, <2>2, FlatsAt
  <2>4. m - 1 = n /\ m = n + 1
    BY <1>1 DEF m
  <2>5. g[m] = IF m = 1 THEN tt[m] ELSE g[n] \o tt[m]
    BY <2>3, <2>4
  <2>6. tt[m] = w
    BY <1>2 DEF m
  <2>7. n + 1 - 1 = n
    BY <1>1
  <2>8. g[m] = IF m = 1 THEN w ELSE g[n + 1 - 1] \o w
    BY <2>5, <2>6, <2>7
  <2> QED BY <2>8 DEF m
<1>6. FlattenSeq(<<>>) = <<>>
  BY EmptySeq DEF FlattenSeq
<1>7. ss = <<>> <=> n = 0
  BY EmptySeq
<1> HIDE DEF tt, n
<1>8. CASE n = 0
  <2>1. n + 1 = 1
    BY <1>8
  <2> QED BY <1>2, <1>4, <1>5, <1>6, <1>7, <1>8, <2>1 DEF tt
<1>9. CASE n # 0
  <2>1. n + 1 # 1 /\ n + 1 - 1 = n /\ n <= n + 1 /\ n <= n /\ n + 1 \in Nat /\ n \in 1..n
    BY ONLY <1>1, <1>9
  <2>2. PICK f : Flats(ss, n, f) /\ FlattenSeq(ss) = f[n]
    BY <1>9, FlatsAre DEF n
  <2>3. f[n] = g[n]
    <3>1. SameFirst(ss, tt, n) /\ Flats(tt, n + 1, g) /\ Flats(ss, n, f)
      BY <1>2, <1>4, <2>2 DEF SameFirst
    <3> QED BY ONLY <1>1, <1>9, <3>1, FlatsAgree
  <2>4. FlattenSeq(tt) = g[n] \o w
    BY <1>2, <1>4, <1>5, <2>1
  <2> QED BY <1>6, <1>7, <1>9, <2>2, <2>3, <2>4 DEF tt
<1> QED BY <1>8, <1>9

(* All of the first k, by the number. *)
Flat(ss, k) == FlattenSeq(SubSeq(ss, 1, k))

LEMMA FlatLemma ==
  ASSUME NEW S, NEW ss \in Seq(Seq(S))
  PROVE  /\ Flat(ss, 0) = <<>> /\ Flat(ss, Len(ss)) = FlattenSeq(ss)
         /\ \A k \in 0..Len(ss) : Flat(ss, k) \in Seq(S)
         /\ \A k \in 1..Len(ss) : Flat(ss, k) = Flat(ss, k - 1) \o ss[k]
<1> DEFINE n == Len(ss)
<1>1. n \in Nat /\ \A k \in 1..n : ss[k] \in Seq(S)
  BY LenProperties, ElementOfSeq
<1>2. SubSeq(ss, 1, 0) = <<>> /\ <<>> \in Seq(S) /\ FlattenSeq(<<>>) = <<>>
  BY SubSeqEmpty, EmptySeq, FlattenLemma
<1>3. Flat(ss, 0) = <<>> /\ Flat(ss, n) = FlattenSeq(ss)
  BY <1>2, SubSeqFull DEF Flat
<1>4. ASSUME NEW k \in 1..n
      PROVE  /\ k - 1 \in 0..n
             /\ Flat(ss, k) = IF SubSeq(ss, 1, k - 1) = <<>> THEN ss[k] ELSE Flat(ss, k - 1) \o ss[k]
  <2>1. k - 1 \in 0..n /\ k \in 1..n /\ 1 \in 1..n /\ n \in 1..n
    BY <1>1
  <2>2. SubSeq(ss, 1, k - 1) \in Seq(Seq(S))
    <3> DEFINE i == k - 1
    <3>1. i \in 0..Len(ss)
      BY <2>1
    <3> HIDE DEF i, n
    <3>2. SubSeq(ss, 1, i) \in Seq(Seq(S))
      BY <3>1, SplitLemma
    <3> QED BY <3>2 DEF i
  <2>3. SubSeq(ss, 1, k) = Append(SubSeq(ss, 1, k - 1), ss[k])
    <3>1. 1 \in 1..Len(ss) /\ k \in 1..Len(ss)
      BY <2>1
    <3>2. SubSeq(ss, 1, k) = SubSeq(ss, 1, k - 1) \o <<ss[k]>>
      BY <3>1, SubSeqRecursiveSecond
    <3> QED BY <3>2, <2>2, <1>1, AppendIsConcat
  <2> QED BY <2>1, <2>2, <2>3, <1>1, FlattenLemma, ZenonT(30) DEF Flat
<1>5. \A k \in 0..n : Flat(ss, k) \in Seq(S)
  <2> DEFINE T == {k \in 0..n : Flat(ss, k) \notin Seq(S)}
  <2> SUFFICES ASSUME T # {} PROVE FALSE
    OBVIOUS
  <2> HIDE DEF n
  <2>1. T \subseteq Nat
    BY <1>1
  <2>2. PICK x \in T : \A y \in T : x <= y
    BY <2>1, LeastLemma
  <2>3. x # 0
    BY <1>2, <1>3
  <2>4. x \in 1..n /\ x - 1 \in 0..n /\ ~ (x <= x - 1)
    BY <1>1, <2>3
  <2>5. Flat(ss, x - 1) \in Seq(S)
    BY <2>2, <2>4
  <2>6. Flat(ss, x) \in Seq(S)
    BY <1>1, <1>4, <2>4, <2>5, ConcatProperties
  <2> QED BY <2>6
<1>6. ASSUME NEW k \in 1..n PROVE Flat(ss, k) = Flat(ss, k - 1) \o ss[k]
  <2>1. CASE SubSeq(ss, 1, k - 1) = <<>>
    <3>1. Flat(ss, k) = ss[k] /\ Flat(ss, k - 1) = <<>> /\ ss[k] \in Seq(S)
      BY <2>1, <1>1, <1>2, <1>4 DEF Flat
    <3> QED BY <3>1, ConcatEmptySeq
  <2> QED BY <2>1, <1>4
<1> QED BY <1>3, <1>5, <1>6

(* More of them say the same first. *)
LEMMA GrowsLemma ==
  ASSUME NEW S, NEW ss \in Seq(Seq(S)), NEW k \in 0..Len(ss), NEW i \in k..Len(ss)
  PROVE  Extends(S, Flat(ss, k), Flat(ss, i))
<1> DEFINE n == Len(ss)
           T == {j \in k..n : ~ Extends(S, Flat(ss, k), Flat(ss, j))}
<1>1. n \in Nat /\ k \in 0..n /\ k \in Nat
  BY LenProperties
<1>2. \A j \in 1..n : ss[j] \in Seq(S)
  BY ElementOfSeq
<1>3. /\ Flat(ss, n) = FlattenSeq(ss)
      /\ \A j \in 0..n : Flat(ss, j) \in Seq(S)
      /\ \A j \in 1..n : Flat(ss, j) = Flat(ss, j - 1) \o ss[j]
  BY FlatLemma
<1>4. T = {}
  <2> SUFFICES ASSUME T # {} PROVE FALSE
    OBVIOUS
  <2> HIDE DEF n
  <2>1. T \subseteq Nat
    BY <1>1
  <2>2. PICK x \in T : \A y \in T : x <= y
    BY <2>1, LeastLemma
  <2>3. x # k
    <3>1. k \in 0..n
      BY <1>1
    <3>2. Flat(ss, k) = Flat(ss, k) \o <<>> /\ <<>> \in Seq(S)
      BY <1>3, <3>1, ConcatEmptySeq, EmptySeq
    <3> QED BY <3>2 DEF Extends
  <2>4. x \in 1..n /\ x - 1 \in k..n /\ ~ (x <= x - 1) /\ k \in 0..n
    BY <1>1, <2>3
  <2>5. Extends(S, Flat(ss, k), Flat(ss, x - 1))
    BY <2>2, <2>4
  <2>6. Flat(ss, x) = Flat(ss, x - 1) \o ss[x]
    BY <1>3, <2>4
  <2>7. ss[x] \in Seq(S) /\ Flat(ss, k) \in Seq(S)
    BY <1>2, <1>3, <2>4
  <2>8. Extends(S, Flat(ss, k), Flat(ss, x))
    BY <2>5, <2>6, <2>7, ExtendLemma
  <2> QED BY <2>8
<1> QED BY <1>4

(* What the sequences behind the first n say. *)
Onward(ss, n) == Past(FlattenSeq(ss), Len(Flat(ss, n)))

LEMMA OnwardIs ==
  ASSUME NEW S, NEW ss \in Seq(Seq(S)), NEW n \in 0..Len(ss)
  PROVE  Onward(ss, n) \in Seq(S) /\ FlattenSeq(ss) = Flat(ss, n) \o Onward(ss, n)
<1>1. Len(ss) \in Nat
  BY LenProperties
<1>2. Len(ss) \in n..Len(ss)
  BY <1>1
<1>3. Flat(ss, Len(ss)) = FlattenSeq(ss) /\ Flat(ss, n) \in Seq(S)
  BY FlatLemma
<1>4. Extends(S, Flat(ss, n), FlattenSeq(ss))
  BY <1>2, <1>3, GrowsLemma
<1>5. PICK r \in Seq(S) : FlattenSeq(ss) = Flat(ss, n) \o r
  BY <1>4 DEF Extends
<1> QED BY <1>3, <1>5, PastLemma DEF Onward

LEMMA OnwardLemma ==
  ASSUME NEW S, NEW ss \in Seq(Seq(S))
  PROVE  /\ Onward(ss, 0) = FlattenSeq(ss) /\ Onward(ss, Len(ss)) = <<>>
         /\ \A n \in 0..(Len(ss) - 1) : Onward(ss, n) = ss[n + 1] \o Onward(ss, n + 1)
<1> DEFINE l == Len(ss)
<1>1. l \in Nat /\ \A k \in 1..l : ss[k] \in Seq(S)
  BY LenProperties, ElementOfSeq
<1>2. /\ Flat(ss, 0) = <<>> /\ Flat(ss, l) = FlattenSeq(ss)
      /\ \A k \in 0..l : Flat(ss, k) \in Seq(S)
      /\ \A k \in 1..l : Flat(ss, k) = Flat(ss, k - 1) \o ss[k]
  BY FlatLemma
<1>3. \A k \in 0..l : Onward(ss, k) \in Seq(S) /\ FlattenSeq(ss) = Flat(ss, k) \o Onward(ss, k)
  BY OnwardIs
<1> HIDE DEF l
<1>4. 0 \in 0..l /\ l \in 0..l
  BY <1>1
<1>5. Onward(ss, 0) = FlattenSeq(ss)
  <2>1. FlattenSeq(ss) = <<>> \o Onward(ss, 0) /\ Onward(ss, 0) \in Seq(S)
    BY <1>2, <1>3, <1>4
  <2> QED BY <2>1, ConcatEmptySeq
<1>6. Onward(ss, l) = <<>>
  <2>1. /\ Flat(ss, l) = Flat(ss, l) \o Onward(ss, l)
        /\ Flat(ss, l) \in Seq(S) /\ Onward(ss, l) \in Seq(S)
    BY <1>2, <1>3, <1>4
  <2> QED BY <2>1, ConcatEqualIffEmpty
<1>7. ASSUME NEW n \in 0..(l - 1)
      PROVE  Onward(ss, n) = ss[n + 1] \o Onward(ss, n + 1)
  <2>1. n \in 0..l /\ n + 1 \in 0..l /\ n + 1 \in 1..l /\ n + 1 - 1 = n
    BY <1>1
  <2> DEFINE a == Flat(ss, n)
             b == ss[n + 1]
             d == Onward(ss, n + 1)
  <2>2. a \in Seq(S) /\ b \in Seq(S) /\ d \in Seq(S)
    BY <1>1, <1>2, <1>3, <2>1
  <2>3. FlattenSeq(ss) = (a \o b) \o d
    <3>1. Flat(ss, n + 1) = Flat(ss, n) \o ss[n + 1]
      <4>1. PICK m : m = n + 1
        OBVIOUS
      <4>2. m \in 1..l /\ m - 1 = n
        BY <4>1, <2>1
      <4>3. Flat(ss, m) = Flat(ss, m - 1) \o ss[m]
        BY ONLY <4>2, <1>2
      <4> QED BY ONLY <4>1, <4>2, <4>3
    <3>2. FlattenSeq(ss) = Flat(ss, n + 1) \o Onward(ss, n + 1)
      BY <1>3, <2>1
    <3> QED BY ONLY <3>1, <3>2, Zenon
  <2> HIDE DEF b, d
  <2> HIDE DEF a
  <2>4. FlattenSeq(ss) = a \o (b \o d) /\ b \o d \in Seq(S)
    <3>1. Assoc(a, b, d)
      BY ONLY <2>2, GroupLemma
    <3>2. (a \o b) \o d = a \o (b \o d)
      BY ONLY <3>1 DEF Assoc
    <3>3. b \o d \in Seq(S)
      BY ONLY <2>2, ConcatProperties
    <3> QED BY ONLY <2>3, <3>2, <3>3, Zenon
  <2>5. Past(FlattenSeq(ss), Len(a)) = b \o d
    BY <2>2, <2>4, PastLemma
  <2> QED BY <2>5 DEF Onward, a, b, d
<1> QED BY <1>5, <1>6, <1>7 DEF l

LEMMA OnwardAppends ==
  ASSUME NEW S, NEW ss \in Seq(Seq(S)), NEW w \in Seq(S), NEW n \in 0..Len(ss)
  PROVE  Onward(Append(ss, w), n) = Onward(ss, n) \o w
<1> DEFINE tt == Append(ss, w)
           l == Len(ss)
           a == Flat(ss, n)
           r == Onward(ss, n)
<1>1. l \in Nat /\ n \in 0..l
  BY LenProperties
<1>2. a \in Seq(S) /\ r \in Seq(S) /\ FlattenSeq(ss) = a \o r
  BY OnwardIs, FlatLemma
<1>3. tt \in Seq(Seq(S)) /\ Len(tt) = l + 1 /\ \A k \in 1..l : tt[k] = ss[k]
  BY AppendProperties
<1>4. Flat(tt, n) = a
  <2>1. SubSeq(tt, 1, n) = SubSeq(ss, 1, n)
    <3> DEFINE u == SubSeq(ss, 1, n)
               v == SubSeq(tt, 1, n)
    <3>1. n \in 0..Len(tt) /\ n \in 0..Len(ss) /\ 1..n \subseteq 1..l
      <4> HIDE DEF tt
      <4>1. n \in 0..(l + 1) /\ 1..n \subseteq 1..l
        <5> HIDE DEF l
        <5> QED BY <1>1
      <4> QED BY <4>1, <1>3
    <3>2. u \in Seq(Seq(S)) /\ Len(u) = n /\ \A k \in 1..n : u[k] = ss[k]
      BY <3>1, SplitLemma
    <3>3. v \in Seq(Seq(S)) /\ Len(v) = n /\ \A k \in 1..n : v[k] = tt[k]
      <4> HIDE DEF tt
      <4> QED BY <3>1, <1>3, SplitLemma DEF v
    <3>4. \A k \in 1..n : u[k] = v[k]
      BY <3>1, <3>2, <3>3, <1>3
    <3> HIDE DEF u, v, tt
    <3>5. u = v
      BY <3>2, <3>3, <3>4, SeqEqual
    <3> QED BY <3>5 DEF u, v, tt
  <2> QED BY <2>1 DEF Flat
<1>5. FlattenSeq(tt) = FlattenSeq(ss) \o w
  <2>1. ss = <<>> => FlattenSeq(ss) = <<>>
    BY FlattenLemma
  <2> QED BY <2>1, FlattenLemma, ConcatEmptySeq
<1> HIDE DEF tt, a, r
<1>6. FlattenSeq(tt) = a \o (r \o w) /\ r \o w \in Seq(S)
  BY <1>2, <1>5, GroupLemma, ConcatProperties, SMTT(30) DEF Assoc
<1>7. Past(FlattenSeq(tt), Len(a)) = r \o w
  BY <1>2, <1>6, PastLemma
<1> QED BY <1>4, <1>7 DEF Onward, tt, r

-----------------------------------------------------------------------------
(* What the web server sends, record by record. *)

Kinds == {"begin", "pair", "part", "byte"}

PadOf(i, pad) == IF pad = 1 THEN <<Sym("padding", i, 0, 0, 0)>> ELSE <<>>

(* How much the first n contents are. *)
Upto(contents, n) == Len(Flat(contents, n))

(* The records of a stream, and what is to come behind the first n of them. *)
Written(kind, i, contents, pad) ==
  [n \in DOMAIN contents |-> Record(kind, i, contents[n], Before(contents, n), pad)]

From(kind, i, contents, n, pad, endPad) ==
  Onward(Written(kind, i, contents, pad), n) \o Record(kind, i, <<>>, 0, endPad)

LEMMA SymLemma ==
  ASSUME NEW kind \in HeaderKind \cup Kinds \cup {"padding"}, NEW i \in Nat, NEW no \in Nat,
         NEW len \in Nat, NEW pad \in {0, 1}
  PROVE  Sym(kind, i, no, len, pad) \in Symbol
BY DEF Sym, Symbol, Kinds

LEMMA PadOfLemma ==
  ASSUME NEW i \in Nat, NEW pad \in {0, 1}
  PROVE  /\ PadOf(i, pad) \in Seq(Symbol) /\ Len(PadOf(i, pad)) = pad
         /\ pad = 0 => PadOf(i, pad) = <<>>
<1>1. Sym("padding", i, 0, 0, 0) \in Symbol
  BY SymLemma
<1> QED BY <1>1 DEF PadOf

LEMMA SymbolsLemma ==
  ASSUME NEW kinds \in Seq(Kinds), NEW i \in Nat, NEW from \in Nat
  PROVE  /\ Symbols(kinds, i, from) \in Seq(Symbol)
         /\ Len(Symbols(kinds, i, from)) = Len(kinds)
         /\ \A k \in 1..Len(kinds) : Symbols(kinds, i, from)[k] = Sym(kinds[k], i, from + k, 0, 0)
<1> DEFINE n == Len(kinds)
<1>1. n \in Nat /\ \A k \in 1..n : kinds[k] \in Kinds
  BY ElementOfSeq
<1>2. \A k \in 1..n : Sym(kinds[k], i, from + k, 0, 0) \in Symbol
  <2> HIDE DEF n
  <2> TAKE k \in 1..n
  <2>1. from + k \in Nat /\ kinds[k] \in Kinds
    BY <1>1
  <2> QED BY <2>1, SymLemma
<1>3. Symbols(kinds, i, from) = [k \in 1..n |-> Sym(kinds[k], i, from + k, 0, 0)]
  BY DEF Symbols
<1> HIDE DEF n
<1>4. Symbols(kinds, i, from) \in Seq(Symbol)
  BY <1>1, <1>2, <1>3, IsASeq
<1> QED BY <1>1, <1>3, <1>4, LenProperties DEF n

(* A record is its header, its content and its padding. *)
RecordIs(kind, i, kinds, from, pad, z) ==
  Record(kind, i, kinds, from, pad) \o z =
    <<Sym(kind, i, 0, Len(kinds), pad)>> \o
      ((Symbols(kinds, i, from) \o PadOf(i, pad)) \o z)

LEMMA RecordLemma ==
  ASSUME NEW kind \in HeaderKind, NEW i \in Nat, NEW kinds \in Seq(Kinds), NEW from \in Nat,
         NEW pad \in {0, 1}, NEW z \in Seq(Symbol)
  PROVE  /\ Sym(kind, i, 0, Len(kinds), pad) \in Symbol
         /\ Record(kind, i, kinds, from, pad) \in Seq(Symbol)
         /\ Symbols(kinds, i, from) \o PadOf(i, pad) \in Seq(Symbol)
         /\ RecordIs(kind, i, kinds, from, pad, z)
<1> DEFINE h == <<Sym(kind, i, 0, Len(kinds), pad)>>
           s == Symbols(kinds, i, from)
           p == PadOf(i, pad)
<1>1. Sym(kind, i, 0, Len(kinds), pad) \in Symbol
  BY SymLemma
<1>2. h \in Seq(Symbol) /\ s \in Seq(Symbol) /\ p \in Seq(Symbol)
  BY <1>1, SymbolsLemma, PadOfLemma
<1>3. Record(kind, i, kinds, from, pad) = (h \o s) \o p
  BY DEF Record, PadOf
<1> HIDE DEF h, s, p
<1>4. s \o p \in Seq(Symbol) /\ h \o s \in Seq(Symbol) /\ (h \o s) \o p \in Seq(Symbol)
  BY <1>2, ConcatProperties
<1>5. (h \o s) \o p = h \o (s \o p)
  <2>1. Assoc(h, s, p)
    BY ONLY <1>2, GroupLemma
  <2> QED BY ONLY <2>1 DEF Assoc
<1>6. (h \o (s \o p)) \o z = h \o ((s \o p) \o z)
  <2>1. Assoc(h, s \o p, z)
    BY ONLY <1>2, <1>4, z \in Seq(Symbol), GroupLemma
  <2> QED BY ONLY <2>1 DEF Assoc
<1> QED BY <1>1, <1>3, <1>4, <1>5, <1>6 DEF h, s, p, RecordIs

LEMMA UptoLemma ==
  ASSUME NEW contents \in Seq(Seq(Kinds))
  PROVE  /\ Total(contents) = Upto(contents, Len(contents)) /\ Upto(contents, 0) = 0
         /\ \A n \in 0..Len(contents) : /\ Before(contents, n + 1) = Upto(contents, n)
                                        /\ Upto(contents, n) \in 0..Total(contents)
         /\ \A n \in 1..Len(contents) :
              Upto(contents, n) = Upto(contents, n - 1) + Len(contents[n])
         /\ Total(contents) \in Nat
<1> DEFINE l == Len(contents)
<1>1. l \in Nat /\ \A k \in 1..l : contents[k] \in Seq(Kinds)
  BY ElementOfSeq
<1>2. /\ Flat(contents, 0) = <<>> /\ Flat(contents, l) = FlattenSeq(contents)
      /\ \A k \in 0..l : Flat(contents, k) \in Seq(Kinds)
      /\ \A k \in 1..l : Flat(contents, k) = Flat(contents, k - 1) \o contents[k]
  BY FlatLemma
<1>3. \A k \in 0..l : /\ Onward(contents, k) \in Seq(Kinds)
                      /\ FlattenSeq(contents) = Flat(contents, k) \o Onward(contents, k)
  BY OnwardIs
<1> HIDE DEF l
<1>4. Total(contents) = Upto(contents, l) /\ Upto(contents, 0) = 0
  BY <1>2 DEF Total, Upto
<1>5. ASSUME NEW n \in 0..l
      PROVE  Before(contents, n + 1) = Upto(contents, n) /\ Upto(contents, n) \in 0..Total(contents)
             /\ Total(contents) \in Nat
  <2>1. n + 1 - 1 = n
    BY <1>1
  <2>2. PICK k : k = n + 1 - 1
    OBVIOUS
  <2>3. Before(contents, n + 1) = Upto(contents, n)
    BY <2>1 DEF Before, Upto, Flat
  <2> DEFINE a == Flat(contents, n)
             b == Onward(contents, n)
  <2>4. a \in Seq(Kinds) /\ b \in Seq(Kinds) /\ FlattenSeq(contents) = a \o b
    BY <1>2, <1>3
  <2> HIDE DEF a, b
  <2>5. Len(a) \in Nat /\ Len(b) \in Nat /\ Len(a \o b) = Len(a) + Len(b)
    BY <2>4, ConcatProperties, LenProperties
  <2>6. Total(contents) = Len(a) + Len(b)
    BY <2>4, <2>5 DEF Total
  <2>7. Len(a) \in 0..(Len(a) + Len(b)) /\ Len(a) + Len(b) \in Nat
    BY <2>5
  <2> QED BY <2>3, <2>6, <2>7 DEF a, Upto
<1>6. ASSUME NEW n \in 1..l
      PROVE  Upto(contents, n) = Upto(contents, n - 1) + Len(contents[n])
  <2>1. n - 1 \in 0..l
    BY <1>1
  <2>2. /\ Flat(contents, n - 1) \in Seq(Kinds) /\ contents[n] \in Seq(Kinds)
        /\ Flat(contents, n) = Flat(contents, n - 1) \o contents[n]
    BY <1>1, <1>2, <2>1
  <2> QED BY <2>2, ConcatProperties DEF Upto
<1>7. Total(contents) \in Nat
  <2>1. 0 \in 0..l
    BY <1>1
  <2> QED BY <2>1, <1>5
<1> QED BY <1>4, <1>5, <1>6, <1>7 DEF l

LEMMA WrittenLemma ==
  ASSUME NEW kind \in HeaderKind, NEW i \in Nat, NEW contents \in Seq(Seq(Kinds)), NEW pad \in {0, 1}
  PROVE  /\ Written(kind, i, contents, pad) \in Seq(Seq(Symbol))
         /\ Len(Written(kind, i, contents, pad)) = Len(contents)
         /\ \A n \in 1..Len(contents) :
              Written(kind, i, contents, pad)[n] =
                Record(kind, i, contents[n], Before(contents, n), pad)
<1> DEFINE l == Len(contents)
           w == Written(kind, i, contents, pad)
<1>1. l \in Nat /\ DOMAIN contents = 1..l /\ \A k \in 1..l : contents[k] \in Seq(Kinds)
  BY ElementOfSeq
<1>2. \A n \in 0..l : Before(contents, n + 1) = Upto(contents, n) /\ Upto(contents, n) \in Nat
  BY UptoLemma
<1>3. w = [n \in 1..l |-> Record(kind, i, contents[n], Before(contents, n), pad)]
  BY <1>1 DEF Written
<1> HIDE DEF l, w
<1>4. \A n \in 1..l : Record(kind, i, contents[n], Before(contents, n), pad) \in Seq(Symbol)
  <2> TAKE n \in 1..l
  <2>1. PICK m : m = n - 1
    OBVIOUS
  <2>2. m \in 0..l /\ m + 1 = n
    BY <2>1, <1>1
  <2>3. Before(contents, n) \in Nat
    BY <2>2, <1>2
  <2>4. <<>> \in Seq(Symbol)
    OBVIOUS
  <2> QED BY <2>3, <2>4, <1>1, RecordLemma
<1>5. w \in Seq(Seq(Symbol))
  BY <1>1, <1>3, <1>4, IsASeq
<1> QED BY <1>1, <1>3, <1>5, LenProperties DEF l, w

LEMMA FromLemma ==
  ASSUME NEW kind \in HeaderKind, NEW i \in Nat, NEW contents \in Seq(Seq(Kinds)),
         NEW pad \in {0, 1}, NEW endPad \in {0, 1}
  PROVE  /\ Records(kind, i, contents, pad, endPad) = From(kind, i, contents, 0, pad, endPad)
         /\ \A n \in 0..Len(contents) : From(kind, i, contents, n, pad, endPad) \in Seq(Symbol)
<1>1. Written(kind, i, contents, pad) \in Seq(Seq(Symbol))
      /\ Len(Written(kind, i, contents, pad)) = Len(contents)
  BY WrittenLemma
<1>2. Onward(Written(kind, i, contents, pad), 0) = FlattenSeq(Written(kind, i, contents, pad))
  BY <1>1, OnwardLemma
<1>3. Records(kind, i, contents, pad, endPad) = From(kind, i, contents, 0, pad, endPad)
  BY <1>2 DEF Records, From, Written
<1>4. ASSUME NEW n \in 0..Len(contents)
      PROVE  From(kind, i, contents, n, pad, endPad) \in Seq(Symbol)
  <2>1. Onward(Written(kind, i, contents, pad), n) \in Seq(Symbol)
    BY <1>1, OnwardIs
  <2>2. <<>> \in Seq(Kinds) /\ <<>> \in Seq(Symbol)
    OBVIOUS
  <2>3. Record(kind, i, <<>>, 0, endPad) \in Seq(Symbol)
    BY <2>2, RecordLemma
  <2> QED BY <2>1, <2>3, ConcatProperties DEF From
<1> QED BY <1>3, <1>4

(* The record behind the first n, and then the others. *)
NextIs(kind, i, contents, n, pad, endPad, z) ==
  From(kind, i, contents, n, pad, endPad) \o z =
    <<Sym(kind, i, 0, Len(contents[n + 1]), pad)>> \o
      ((Symbols(contents[n + 1], i, Upto(contents, n)) \o PadOf(i, pad)) \o
        (From(kind, i, contents, n + 1, pad, endPad) \o z))

EndIs(kind, i, contents, pad, endPad, z) ==
  From(kind, i, contents, Len(contents), pad, endPad) \o z =
    <<Sym(kind, i, 0, 0, endPad)>> \o (PadOf(i, endPad) \o z)

LEMMA NextLemma ==
  ASSUME NEW kind \in HeaderKind, NEW i \in Nat, NEW contents \in Seq(Seq(Kinds)),
         NEW pad \in {0, 1}, NEW endPad \in {0, 1}, NEW z \in Seq(Symbol),
         NEW n \in 0..(Len(contents) - 1)
  PROVE  NextIs(kind, i, contents, n, pad, endPad, z)
<1> DEFINE w == Written(kind, i, contents, pad)
           l == Len(contents)
           r == w[n + 1]
           o == Onward(w, n + 1)
           e == Record(kind, i, <<>>, 0, endPad)
<1>1. w \in Seq(Seq(Symbol)) /\ Len(w) = l
  BY WrittenLemma
<1>2. /\ l \in Nat /\ n + 1 \in 1..l /\ n + 1 \in 0..l /\ n \in 0..l /\ n \in 0..(l - 1)
      /\ contents[n + 1] \in Seq(Kinds)
  <2>1. l \in Nat /\ n \in 0..(l - 1)
    BY LenProperties
  <2>2. n + 1 \in 1..l /\ n + 1 \in 0..l /\ n \in 0..l
    <3> HIDE DEF l
    <3> QED BY <2>1
  <2> QED BY <2>1, <2>2, ElementOfSeq
<1>3. w[n + 1] = Record(kind, i, contents[n + 1], Upto(contents, n), pad)
  <2>1. Before(contents, n + 1) = Upto(contents, n)
    BY <1>2, UptoLemma
  <2>2. w[n + 1] = Record(kind, i, contents[n + 1], Before(contents, n + 1), pad)
    BY <1>2, WrittenLemma
  <2> QED BY <2>1, <2>2
<1>4. Upto(contents, n) \in Nat
  BY <1>2, UptoLemma
<1>5. Onward(w, n) = r \o o
  <2> HIDE DEF w, r, o
  <2>1. n \in 0..(Len(w) - 1)
    BY <1>1, <1>2
  <2>2. Onward(w, n) = w[n + 1] \o Onward(w, n + 1)
    BY <1>1, <2>1, OnwardLemma
  <2> QED BY <2>2 DEF r, o
<1>6. r \in Seq(Symbol) /\ o \in Seq(Symbol) /\ e \in Seq(Symbol)
  <2>1. <<>> \in Seq(Kinds) /\ <<>> \in Seq(Symbol)
    OBVIOUS
  <2>2. e \in Seq(Symbol)
    BY <2>1, RecordLemma
  <2>3. r \in Seq(Symbol)
    <3> HIDE DEF w
    <3> QED BY <1>1, <1>2, ElementOfSeq
  <2>4. o \in Seq(Symbol)
    <3>1. n + 1 \in 0..Len(w)
      BY <1>1, <1>2
    <3> HIDE DEF w
    <3> QED BY <1>1, <3>1, OnwardIs
  <2> QED BY <2>2, <2>3, <2>4
<1>7. From(kind, i, contents, n, pad, endPad) = (r \o o) \o e
      /\ From(kind, i, contents, n + 1, pad, endPad) = o \o e
  BY <1>5 DEF From
<1> HIDE DEF r, o, e
<1>8. ((r \o o) \o e) \o z = r \o ((o \o e) \o z)
  <2>1. r \o o \in Seq(Symbol) /\ o \o e \in Seq(Symbol) /\ e \o z \in Seq(Symbol)
        /\ (o \o e) \o z \in Seq(Symbol)
    <3>1. o \o e \in Seq(Symbol)
      BY <1>6, ConcatProperties
    <3> QED BY <1>6, <3>1, ConcatProperties
  <2>2. Assoc(r, o, e)
    BY <1>6, GroupLemma
  <2>3. PICK y \in Seq(Symbol) : y = o \o e
    BY <2>1
  <2>4. Assoc(r, y, z)
    BY <1>6, GroupLemma
  <2> QED BY ONLY <2>2, <2>3, <2>4, Zenon DEF Assoc
<1>9. (o \o e) \o z \in Seq(Symbol)
  <2>1. o \o e \in Seq(Symbol)
    BY <1>6, ConcatProperties
  <2> QED BY <2>1, ConcatProperties
<1>10. PICK y \in Seq(Symbol) : y = (o \o e) \o z
  BY <1>9
<1>11. r \o y = <<Sym(kind, i, 0, Len(contents[n + 1]), pad)>> \o
                  ((Symbols(contents[n + 1], i, Upto(contents, n)) \o PadOf(i, pad)) \o y)
  <2>1. r = Record(kind, i, contents[n + 1], Upto(contents, n), pad)
    BY <1>3 DEF r
  <2>2. RecordIs(kind, i, contents[n + 1], Upto(contents, n), pad, y)
    BY <1>2, <1>4, RecordLemma
  <2> QED BY <2>1, <2>2 DEF RecordIs
<1> QED BY <1>7, <1>8, <1>10, <1>11 DEF NextIs

LEMMA EndLemma ==
  ASSUME NEW kind \in HeaderKind, NEW i \in Nat, NEW contents \in Seq(Seq(Kinds)),
         NEW pad \in {0, 1}, NEW endPad \in {0, 1}, NEW z \in Seq(Symbol)
  PROVE  EndIs(kind, i, contents, pad, endPad, z)
<1> DEFINE w == Written(kind, i, contents, pad)
           e == Record(kind, i, <<>>, 0, endPad)
<1>1. w \in Seq(Seq(Symbol)) /\ Len(w) = Len(contents)
  BY WrittenLemma
<1>2. Onward(w, Len(contents)) = <<>>
  <2> HIDE DEF w
  <2> QED BY <1>1, OnwardLemma
<1>3. <<>> \in Seq(Kinds) /\ Len(<<>>) = 0
  OBVIOUS
<1>4. /\ e \in Seq(Symbol) /\ Symbols(<<>>, i, 0) \o PadOf(i, endPad) \in Seq(Symbol)
      /\ e \o z = <<Sym(kind, i, 0, 0, endPad)>> \o ((Symbols(<<>>, i, 0) \o PadOf(i, endPad)) \o z)
  <2>1. /\ e \in Seq(Symbol) /\ Symbols(<<>>, i, 0) \o PadOf(i, endPad) \in Seq(Symbol)
        /\ RecordIs(kind, i, <<>>, 0, endPad, z)
    BY <1>3, RecordLemma
  <2> QED BY <1>3, <2>1 DEF RecordIs
<1>5. From(kind, i, contents, Len(contents), pad, endPad) = e
  BY <1>2, <1>4, ConcatEmptySeq DEF From
<1>6. Symbols(<<>>, i, 0) = <<>>
  <2>1. Symbols(<<>>, i, 0) \in Seq(Symbol) /\ Len(Symbols(<<>>, i, 0)) = 0
    BY <1>3, SymbolsLemma
  <2> QED BY <2>1, EmptySeq
<1>7. <<>> \o PadOf(i, endPad) = PadOf(i, endPad)
  BY PadOfLemma, ConcatEmptySeq
<1> QED BY <1>4, <1>5, <1>6, <1>7 DEF EndIs

(* All of the requests, and what is to come behind the first n of them,    *)
(* behind the parameters of the first n records of one, and behind the     *)
(* first n records of its body.                                            *)
Sendings(q) == [k \in 1..Len(q) |-> AsSent(k, q[k])]

Later(q, n) == Onward(Sendings(q), n)

BodyOn(q, i, n) == From("STDIN", i, BodyOf(q[i]), n, q[i].pad, q[i].endPad) \o Later(q, i)

ParamsOn(q, i, n) == From("PARAMS", i, q[i].params, n, q[i].pad, q[i].endPad) \o BodyOn(q, i, 0)

LEMMA RequestLemma ==
  ASSUME NEW r \in Requests
  PROVE  /\ r.kind \in {"begin", "values", "other"}
         /\ r.known \in BOOLEAN /\ r.keep \in BOOLEAN /\ r.pad \in {0, 1} /\ r.endPad \in {0, 1}
         /\ r.params \in Seq(Seq(Kinds)) /\ Len(r.params) \in Nat
         /\ \A n \in 1..Len(r.params) :
              r.params[n] \in Seq({"pair", "part"}) /\ Len(r.params[n]) \in Nat \ {0}
         /\ r.body \in Seq(Nat \ {0}) /\ Len(r.body) \in Nat
         /\ \A n \in 1..Len(r.body) : r.body[n] \in Nat \ {0}
<1> DEFINE T == Seq({"pair", "part"}) \ {<<>>}
<1>1. /\ r.kind \in {"begin", "values", "other"}
      /\ r.known \in BOOLEAN /\ r.keep \in BOOLEAN /\ r.pad \in {0, 1} /\ r.endPad \in {0, 1}
      /\ r.params \in Seq(T) /\ r.body \in Seq(Nat \ {0})
  <2> HIDE DEF T
  <2> QED BY InputAssumption DEF T
<1>2. T \subseteq Seq(Kinds)
  <2>1. {"pair", "part"} \subseteq Kinds
    BY DEF Kinds
  <2>2. ASSUME NEW c \in Seq({"pair", "part"}) PROVE c \in Seq(Kinds)
    BY <2>1, SeqMonotonic
  <2> QED BY <2>2
<1>3. \A c \in T : c \in Seq({"pair", "part"}) /\ Len(c) \in Nat \ {0}
  BY EmptySeq
<1> HIDE DEF T
<1>4. r.params \in Seq(Seq(Kinds))
  BY <1>1, <1>2, SeqMonotonic
<1>5. Len(r.params) \in Nat /\ \A n \in 1..Len(r.params) : r.params[n] \in T
  BY <1>1, LenProperties, ElementOfSeq
<1>6. Len(r.body) \in Nat /\ \A n \in 1..Len(r.body) : r.body[n] \in Nat \ {0}
  BY <1>1, LenProperties, ElementOfSeq
<1> QED BY <1>1, <1>3, <1>4, <1>5, <1>6

LEMMA BodyOfLemma ==
  ASSUME NEW r \in Requests
  PROVE  /\ BodyOf(r) \in Seq(Seq(Kinds)) /\ Len(BodyOf(r)) = Len(r.body)
         /\ \A n \in 1..Len(r.body) : /\ BodyOf(r)[n] = [k \in 1..r.body[n] |-> "byte"]
                                      /\ BodyOf(r)[n] \in Seq(Kinds)
                                      /\ Len(BodyOf(r)[n]) = r.body[n]
<1> DEFINE l == Len(r.body)
           b == BodyOf(r)
<1>1. /\ r.body \in Seq(Nat \ {0}) /\ l \in Nat
      /\ \A n \in 1..l : r.body[n] \in Nat \ {0}
  BY RequestLemma
<1>2. b = [n \in 1..l |-> [k \in 1..r.body[n] |-> "byte"]]
  BY <1>1, LenProperties DEF BodyOf
<1> HIDE DEF l, b
<1>3. \A n \in 1..l : [k \in 1..r.body[n] |-> "byte"] \in Seq(Kinds)
  <2> TAKE n \in 1..l
  <2>1. PICK m \in Nat : m = r.body[n]
    BY <1>1
  <2>2. [k \in 1..m |-> "byte"] \in Seq(Kinds)
    BY DEF Kinds
  <2> QED BY <2>1, <2>2
<1>4. b \in Seq(Seq(Kinds))
  BY <1>1, <1>2, <1>3, IsASeq
<1>5. \A n \in 1..l : Len([k \in 1..r.body[n] |-> "byte"]) = r.body[n]
  <2> TAKE n \in 1..l
  <2>1. PICK m \in Nat : m = r.body[n]
    BY <1>1
  <2>2. Len([k \in 1..m |-> "byte"]) = m
    OBVIOUS
  <2> QED BY <2>1, <2>2
<1>6. Len(b) = l /\ \A n \in 1..l : b[n] = [k \in 1..r.body[n] |-> "byte"]
  BY <1>1, <1>2, <1>4, LenProperties
<1> QED BY <1>3, <1>4, <1>5, <1>6 DEF b, l

LEMMA AsSentLemma ==
  ASSUME NEW r \in Requests, NEW i \in Nat
  PROVE  AsSent(i, r) \in Seq(Symbol)
<1>1. /\ <<>> \in Seq(Kinds) /\ <<"begin">> \in Seq(Kinds) /\ <<"pair">> \in Seq(Kinds)
      /\ <<>> \in Seq(Symbol)
  BY DEF Kinds
<1>2. \A k \in HeaderKind, c \in Seq(Kinds) : Record(k, i, c, 0, r.pad) \in Seq(Symbol)
  BY <1>1, RequestLemma, RecordLemma
<1>3. {"BEGIN_REQUEST", "GET_VALUES", "ABORT_REQUEST", "PARAMS", "STDIN"} \subseteq HeaderKind
  BY DEF HeaderKind
<1>4. /\ Records("PARAMS", i, r.params, r.pad, r.endPad) \in Seq(Symbol)
      /\ Records("STDIN", i, BodyOf(r), r.pad, r.endPad) \in Seq(Symbol)
  <2>1. 0 \in 0..Len(r.params) /\ 0 \in 0..Len(BodyOf(r))
    BY RequestLemma, BodyOfLemma
  <2>2. /\ r.params \in Seq(Seq(Kinds)) /\ BodyOf(r) \in Seq(Seq(Kinds))
        /\ r.pad \in {0, 1} /\ r.endPad \in {0, 1} /\ "PARAMS" \in HeaderKind /\ "STDIN" \in HeaderKind
    BY <1>3, RequestLemma, BodyOfLemma
  <2>3. /\ Records("PARAMS", i, r.params, r.pad, r.endPad)
             = From("PARAMS", i, r.params, 0, r.pad, r.endPad)
        /\ From("PARAMS", i, r.params, 0, r.pad, r.endPad) \in Seq(Symbol)
    BY <2>1, <2>2, FromLemma, ZenonT(30)
  <2>4. /\ Records("STDIN", i, BodyOf(r), r.pad, r.endPad)
             = From("STDIN", i, BodyOf(r), 0, r.pad, r.endPad)
        /\ From("STDIN", i, BodyOf(r), 0, r.pad, r.endPad) \in Seq(Symbol)
    BY <2>1, <2>2, FromLemma, ZenonT(30)
  <2> QED BY <2>3, <2>4
<1>5. CASE r.kind = "begin"
  <2>1. Record("BEGIN_REQUEST", i, <<"begin">>, 0, r.pad) \in Seq(Symbol)
    BY <1>1, <1>2, <1>3
  <2>2. Record("BEGIN_REQUEST", i, <<"begin">>, 0, r.pad)
          \o Records("PARAMS", i, r.params, r.pad, r.endPad) \in Seq(Symbol)
    BY <2>1, <1>4, ConcatProperties
  <2>3. (Record("BEGIN_REQUEST", i, <<"begin">>, 0, r.pad)
          \o Records("PARAMS", i, r.params, r.pad, r.endPad))
          \o Records("STDIN", i, BodyOf(r), r.pad, r.endPad) \in Seq(Symbol)
    BY <2>2, <1>4, ConcatProperties
  <2> QED BY <1>5, <2>3 DEF AsSent
<1>6. CASE r.kind = "values"
  BY <1>6, <1>1, <1>2, <1>3 DEF AsSent
<1>7. CASE r.kind = "other"
  BY <1>7, <1>1, <1>2, <1>3 DEF AsSent
<1> QED BY <1>5, <1>6, <1>7, RequestLemma

LEMMA SendingsLemma ==
  ASSUME NEW q \in Seq(Requests)
  PROVE  /\ Sendings(q) \in Seq(Seq(Symbol)) /\ Len(Sendings(q)) = Len(q)
         /\ \A k \in 1..Len(q) : Sendings(q)[k] = AsSent(k, q[k]) /\ q[k] \in Requests
         /\ Len(q) \in Nat
<1> DEFINE n == Len(q)
<1>1. n \in Nat /\ \A k \in 1..n : q[k] \in Requests
  BY LenProperties, ElementOfSeq
<1>2. Sendings(q) = [k \in 1..n |-> AsSent(k, q[k])]
  BY DEF Sendings
<1> HIDE DEF n
<1>3. \A k \in 1..n : AsSent(k, q[k]) \in Seq(Symbol)
  <2> TAKE k \in 1..n
  <2>1. k \in Nat /\ q[k] \in Requests
    BY <1>1
  <2> QED BY <2>1, AsSentLemma
<1>4. Sendings(q) \in Seq(Seq(Symbol))
  BY <1>1, <1>2, <1>3, IsASeq
<1> QED BY <1>1, <1>2, <1>4, LenProperties DEF n

LEMMA LaterLemma ==
  ASSUME NEW q \in Seq(Requests)
  PROVE  /\ Later(q, Len(q)) = <<>>
         /\ \A n \in 0..Len(q) : Later(q, n) \in Seq(Symbol)
         /\ \A n \in 0..(Len(q) - 1) : Later(q, n) = AsSent(n + 1, q[n + 1]) \o Later(q, n + 1)
<1>1. /\ Sendings(q) \in Seq(Seq(Symbol)) /\ Len(Sendings(q)) = Len(q) /\ Len(q) \in Nat
      /\ \A k \in 1..Len(q) : Sendings(q)[k] = AsSent(k, q[k])
  BY SendingsLemma
<1>2. Later(q, Len(q)) = <<>>
  BY <1>1, OnwardLemma DEF Later
<1>3. \A n \in 0..Len(q) : Later(q, n) \in Seq(Symbol)
  BY <1>1, OnwardIs DEF Later
<1>4. ASSUME NEW n \in 0..(Len(q) - 1)
      PROVE  Later(q, n) = AsSent(n + 1, q[n + 1]) \o Later(q, n + 1)
  <2>1. n \in 0..(Len(Sendings(q)) - 1)
    BY <1>1
  <2>2. Onward(Sendings(q), n) = Sendings(q)[n + 1] \o Onward(Sendings(q), n + 1)
    BY <1>1, <2>1, OnwardLemma
  <2>3. n + 1 \in 1..Len(q)
    <3> DEFINE l == Len(q)
    <3>1. l \in Nat /\ n \in 0..(l - 1)
      BY <1>1
    <3> HIDE DEF l
    <3>2. n + 1 \in 1..l
      BY ONLY <3>1
    <3> QED BY <3>2 DEF l
  <2> QED BY <1>1, <2>2, <2>3 DEF Later
<1> QED BY <1>2, <1>3, <1>4

LEMMA LaterAppends ==
  ASSUME NEW q \in Seq(Requests), NEW r \in Requests, NEW n \in 0..Len(q)
  PROVE  Later(Append(q, r), n) = Later(q, n) \o AsSent(Len(q) + 1, r)
<1> DEFINE u == Append(q, r)
           l == Len(q)
           w == AsSent(l + 1, r)
<1>1. u \in Seq(Requests) /\ Len(u) = l + 1 /\ u[l + 1] = r /\ \A k \in 1..l : u[k] = q[k]
  BY AppendProperties
<1>2. l \in Nat /\ w \in Seq(Symbol)
  <2>1. l \in Nat
    BY LenProperties
  <2>2. l + 1 \in Nat
    <3> HIDE DEF l
    <3> QED BY <2>1
  <2> QED BY <2>1, <2>2, AsSentLemma
<1>3. /\ Sendings(q) \in Seq(Seq(Symbol)) /\ Len(Sendings(q)) = l
      /\ \A k \in 1..l : Sendings(q)[k] = AsSent(k, q[k])
  BY SendingsLemma
<1>4. /\ Sendings(u) \in Seq(Seq(Symbol)) /\ Len(Sendings(u)) = l + 1
      /\ \A k \in 1..(l + 1) : Sendings(u)[k] = AsSent(k, u[k])
  <2> HIDE DEF u
  <2>1. /\ Sendings(u) \in Seq(Seq(Symbol)) /\ Len(Sendings(u)) = Len(u)
        /\ \A k \in 1..Len(u) : Sendings(u)[k] = AsSent(k, u[k])
    BY <1>1, SendingsLemma
  <2> QED BY <2>1, <1>1
<1>5. Sendings(u) = Append(Sendings(q), w)
  <2> DEFINE v == Append(Sendings(q), w)
  <2>1. v \in Seq(Seq(Symbol)) /\ Len(v) = l + 1 /\ v[l + 1] = w
        /\ \A k \in 1..l : v[k] = Sendings(q)[k]
    <3> HIDE DEF w
    <3>1. PICK z : z = Sendings(q)
      OBVIOUS
    <3>2. z \in Seq(Seq(Symbol)) /\ Len(z) = l
      BY <1>3, <3>1
    <3>3. /\ Append(z, w) \in Seq(Seq(Symbol)) /\ Len(Append(z, w)) = Len(z) + 1
          /\ Append(z, w)[Len(z) + 1] = w
          /\ \A k \in 1..Len(z) : Append(z, w)[k] = z[k]
      BY <1>2, <3>2, AppendProperties
    <3> QED BY <3>1, <3>2, <3>3
  <2> HIDE DEF v, u, l
  <2>2. \A k \in 1..(l + 1) : Sendings(u)[k] = v[k]
    <3> TAKE k \in 1..(l + 1)
    <3>1. CASE k \in 1..l
      BY <3>1, <2>1, <1>1, <1>3, <1>4
    <3>2. CASE k \notin 1..l
      <4>1. k = l + 1
        BY <3>2, <1>2
      <4>2. Sendings(u)[k] = AsSent(k, u[k])
        BY <1>4
      <4>3. u[k] = r
        BY <4>1, <1>1
      <4> QED BY <2>1, <4>1, <4>2, <4>3
    <3> QED BY <3>1, <3>2
  <2>3. Sendings(u) = v
    BY <2>1, <2>2, <1>4, SeqEqual
  <2> QED BY <2>3 DEF v
<1>6. n \in 0..Len(Sendings(q))
  BY <1>3
<1> HIDE DEF u, w
<1>7. Onward(Append(Sendings(q), w), n) = Onward(Sendings(q), n) \o w
  <2>1. PICK z : z = Sendings(q)
    OBVIOUS
  <2>2. z \in Seq(Seq(Symbol)) /\ n \in 0..Len(z)
    BY <1>3, <1>6, <2>1
  <2>3. Onward(Append(z, w), n) = Onward(z, n) \o w
    BY <1>2, <2>2, OnwardAppends
  <2> QED BY <2>1, <2>3
<1>8. Later(u, n) = Later(q, n) \o w
  BY <1>5, <1>7 DEF Later
<1> QED BY <1>8 DEF u, w, l

(* n symbols of a kind, the first of them with the number from + 1.        *)
Run(kind, i, from, n) == [k \in 1..n |-> Sym(kind, i, from + k, 0, 0)]

LEMMA RunLemma ==
  ASSUME NEW kind \in Kinds, NEW i \in Nat, NEW from \in Nat, NEW n \in Nat
  PROVE  /\ Run(kind, i, from, n) \in Seq(Symbol) /\ Len(Run(kind, i, from, n)) = n
         /\ \A k \in 1..n : Run(kind, i, from, n)[k] = Sym(kind, i, from + k, 0, 0)
         /\ n = 0 => Run(kind, i, from, n) = <<>>
<1>1. \A k \in 1..n : Sym(kind, i, from + k, 0, 0) \in Symbol
  <2> TAKE k \in 1..n
  <2>1. from + k \in Nat
    OBVIOUS
  <2> QED BY <2>1, SymLemma
<1>2. Run(kind, i, from, n) \in Seq(Symbol) /\ Len(Run(kind, i, from, n)) = n
  BY <1>1, IsASeq, LenProperties DEF Run
<1>3. \A k \in 1..n : Run(kind, i, from, n)[k] = Sym(kind, i, from + k, 0, 0)
  BY DEF Run
<1> QED BY <1>2, <1>3, EmptySeq

(* One behind the other they are one. *)
RunsJoin(kind, i, from, m, n) ==
  Run(kind, i, from, m) \o Run(kind, i, from + m, n) = Run(kind, i, from, m + n)

LEMMA RunsLemma ==
  ASSUME NEW kind \in Kinds, NEW i \in Nat, NEW from \in Nat, NEW m \in Nat, NEW n \in Nat
  PROVE  RunsJoin(kind, i, from, m, n)
<1> DEFINE a == Run(kind, i, from, m)
           b == Run(kind, i, from + m, n)
           c == Run(kind, i, from, m + n)
<1>1. from + m \in Nat /\ m + n \in Nat
  OBVIOUS
<1>2. /\ a \in Seq(Symbol) /\ Len(a) = m
      /\ \A k \in 1..m : a[k] = Sym(kind, i, from + k, 0, 0)
  BY RunLemma
<1>3. /\ b \in Seq(Symbol) /\ Len(b) = n
      /\ \A k \in 1..n : b[k] = Sym(kind, i, from + m + k, 0, 0)
  <2>1. PICK f \in Nat : f = from + m
    BY <1>1
  <2>2. /\ Run(kind, i, f, n) \in Seq(Symbol) /\ Len(Run(kind, i, f, n)) = n
        /\ \A k \in 1..n : Run(kind, i, f, n)[k] = Sym(kind, i, f + k, 0, 0)
    BY RunLemma
  <2> QED BY <2>1, <2>2
<1>4. /\ c \in Seq(Symbol) /\ Len(c) = m + n
      /\ \A k \in 1..(m + n) : c[k] = Sym(kind, i, from + k, 0, 0)
  BY <1>1, RunLemma
<1> HIDE DEF a, b, c
<1>5. /\ a \o b \in Seq(Symbol) /\ Len(a \o b) = Len(a) + Len(b)
      /\ \A k \in 1..Len(a) : (a \o b)[k] = a[k]
      /\ \A k \in 1..Len(b) : (a \o b)[Len(a) + k] = b[k]
  <2>1. a \in Seq(Symbol) /\ b \in Seq(Symbol)
    BY <1>2, <1>3
  <2> QED BY ONLY <2>1, JoinLemma
<1>6. \A k \in 1..(m + n) : (a \o b)[k] = c[k]
  <2> TAKE k \in 1..(m + n)
  <2>1. CASE k <= m
    <3>1. k \in 1..m /\ k \in 1..Len(a)
      BY <2>1, <1>2
    <3> QED BY <3>1, <1>2, <1>4, <1>5
  <2>2. CASE ~ (k <= m)
    <3>1. PICK j : j = k - m
      OBVIOUS
    <3>2. j \in 1..n /\ m + j = k /\ from + m + j = from + k
      BY <3>1, <2>2
    <3>3. (a \o b)[m + j] = b[j]
      BY <3>2, <1>2, <1>3, <1>5
    <3>4. b[j] = Sym(kind, i, from + m + j, 0, 0)
      BY <3>2, <1>3
    <3>5. c[k] = Sym(kind, i, from + k, 0, 0)
      BY <1>4
    <3> QED BY ONLY <3>2, <3>3, <3>4, <3>5
  <2> QED BY <2>1, <2>2
<1>7. a \o b = c
  <2>1. Len(a \o b) = Len(c)
    BY <1>2, <1>3, <1>4, <1>5
  <2>2. \A k \in 1..Len(a \o b) : (a \o b)[k] = c[k]
    BY <1>6, <1>4, <2>1
  <2> QED BY <1>4, <1>5, <2>1, <2>2, SeqEqual
<1> QED BY <1>7 DEF RunsJoin, a, b, c

LEMMA AllLemma ==
  ASSUME NEW kind, NEW i, NEW n \in Nat
  PROVE  All(kind, i, n) = Run(kind, i, 0, n)
BY DEF All, Run

LEMMA AllIs ==
  ASSUME NEW kind \in Kinds, NEW i \in Nat, NEW n \in Nat
  PROVE  /\ All(kind, i, n) \in Seq(Symbol) /\ Len(All(kind, i, n)) = n
         /\ \A k \in 1..n : All(kind, i, n)[k] = Sym(kind, i, k, 0, 0)
<1>1. \A k \in 1..n : Sym(kind, i, k, 0, 0) \in Symbol
  BY SymLemma
<1>2. All(kind, i, n) \in Seq(Symbol) /\ Len(All(kind, i, n)) = n
  BY <1>1, IsASeq, LenProperties DEF All
<1> QED BY <1>2 DEF All

LEMMA AllNone ==
  ASSUME NEW kind \in Kinds, NEW i \in Nat
  PROVE  All(kind, i, 0) = <<>>
<1>1. PICK n \in Nat : n = 0
  OBVIOUS
<1>2. All(kind, i, n) \in Seq(Symbol) /\ Len(All(kind, i, n)) = n
  BY AllIs
<1>3. All(kind, i, n) = <<>>
  BY <1>1, <1>2, EmptySeq
<1> QED BY <1>1, <1>3

(* Content of one kind is a run. *)
LEMMA SymbolsRun ==
  ASSUME NEW kind \in Kinds, NEW c \in Seq(Kinds), \A k \in 1..Len(c) : c[k] = kind,
         NEW i \in Nat, NEW from \in Nat
  PROVE  Symbols(c, i, from) = Run(kind, i, from, Len(c))
BY DEF Symbols, Run

-----------------------------------------------------------------------------
(* What is to come, part by part. *)

BodyEnds(q, i) ==
  BodyOn(q, i, Len(q[i].body)) =
    <<Sym("STDIN", i, 0, 0, q[i].endPad)>> \o (PadOf(i, q[i].endPad) \o Later(q, i))

BodyGoesOn(q, i, n) ==
  BodyOn(q, i, n) =
    <<Sym("STDIN", i, 0, q[i].body[n + 1], q[i].pad)>> \o
      ((Run("byte", i, Upto(BodyOf(q[i]), n), q[i].body[n + 1]) \o PadOf(i, q[i].pad)) \o
        BodyOn(q, i, n + 1))

LEMMA BodyOnLemma ==
  ASSUME NEW q \in Seq(Requests), NEW i \in 1..Len(q)
  PROVE  /\ \A n \in 0..Len(q[i].body) : BodyOn(q, i, n) \in Seq(Symbol)
         /\ BodyEnds(q, i)
         /\ \A n \in 0..(Len(q[i].body) - 1) : BodyGoesOn(q, i, n)
<1> DEFINE r == q[i]
           b == BodyOf(r)
           z == Later(q, i)
           l == Len(r.body)
<1>1. r \in Requests /\ i \in Nat /\ i \in 0..Len(q)
  <2>1. Len(q) \in Nat
    BY LenProperties
  <2>2. i \in Nat /\ i \in 0..Len(q)
    BY <2>1
  <2> QED BY <2>2, ElementOfSeq
<1>2. z \in Seq(Symbol)
  BY <1>1, LaterLemma
<1> HIDE DEF r, z
<1>3. /\ b \in Seq(Seq(Kinds)) /\ Len(b) = l /\ r.pad \in {0, 1} /\ r.endPad \in {0, 1}
      /\ "STDIN" \in HeaderKind
      /\ \A n \in 1..l : b[n] \in Seq(Kinds) /\ Len(b[n]) = r.body[n]
                         /\ b[n] = [k \in 1..r.body[n] |-> "byte"]
      /\ l \in Nat
  BY <1>1, RequestLemma, BodyOfLemma DEF HeaderKind
<1> HIDE DEF b
<1>4. ASSUME NEW n \in 0..l
      PROVE  BodyOn(q, i, n) \in Seq(Symbol)
             /\ BodyOn(q, i, n) = From("STDIN", i, b, n, r.pad, r.endPad) \o z
  <2>1. From("STDIN", i, b, n, r.pad, r.endPad) \in Seq(Symbol)
    <3>1. n \in 0..Len(b)
      BY <1>3
    <3> QED BY <3>1, <1>1, <1>3, FromLemma
  <2>2. BodyOn(q, i, n) = From("STDIN", i, b, n, r.pad, r.endPad) \o z
    BY DEF BodyOn, b, r, z
  <2> QED BY <2>1, <2>2, <1>2, ConcatProperties
<1>5. BodyEnds(q, i)
  <2>1. EndIs("STDIN", i, b, r.pad, r.endPad, z)
    BY <1>1, <1>2, <1>3, EndLemma
  <2>2. l \in 0..l
    BY <1>3
  <2> QED BY <2>1, <2>2, <1>3, <1>4 DEF EndIs, BodyEnds, r, z
<1>6. ASSUME NEW n \in 0..(l - 1)
      PROVE  BodyGoesOn(q, i, n)
  <2>1. n \in 0..(Len(b) - 1) /\ n \in 0..l /\ n + 1 \in 0..l /\ n + 1 \in 1..l
    <3> HIDE DEF l
    <3> QED BY <1>3
  <2>2. NextIs("STDIN", i, b, n, r.pad, r.endPad, z)
    BY <2>1, <1>1, <1>2, <1>3, NextLemma
  <2>3. Symbols(b[n + 1], i, Upto(b, n)) = Run("byte", i, Upto(b, n), r.body[n + 1])
    <3>1. Upto(b, n) \in Nat
      <4>1. n \in 0..Len(b)
        BY <2>1, <1>3
      <4> QED BY <4>1, <1>3, UptoLemma
    <3>2. /\ b[n + 1] \in Seq(Kinds) /\ Len(b[n + 1]) = r.body[n + 1]
          /\ b[n + 1] = [k \in 1..r.body[n + 1] |-> "byte"]
      BY <2>1, <1>3
    <3>3. \A k \in 1..Len(b[n + 1]) : b[n + 1][k] = "byte"
      BY <3>2
    <3>4. "byte" \in Kinds
      BY DEF Kinds
    <3>5. PICK c : c = b[n + 1]
      OBVIOUS
    <3>6. c \in Seq(Kinds) /\ \A k \in 1..Len(c) : c[k] = "byte"
      BY ONLY <3>2, <3>3, <3>5
    <3>7. Symbols(c, i, Upto(b, n)) = Run("byte", i, Upto(b, n), Len(c))
      BY ONLY <3>1, <3>4, <3>6, <1>1, SymbolsRun
    <3> QED BY <3>2, <3>5, <3>7
  <2>4. Len(b[n + 1]) = r.body[n + 1]
    BY <2>1, <1>3
  <2>5. /\ BodyOn(q, i, n) = From("STDIN", i, b, n, r.pad, r.endPad) \o z
        /\ BodyOn(q, i, n + 1) = From("STDIN", i, b, n + 1, r.pad, r.endPad) \o z
    BY <2>1, <1>4
  <2>6. From("STDIN", i, b, n, r.pad, r.endPad) \o z =
          <<Sym("STDIN", i, 0, r.body[n + 1], r.pad)>> \o
            ((Run("byte", i, Upto(b, n), r.body[n + 1]) \o PadOf(i, r.pad)) \o
              (From("STDIN", i, b, n + 1, r.pad, r.endPad) \o z))
    BY ONLY <2>2, <2>3, <2>4 DEF NextIs
  <2> QED BY ONLY <2>5, <2>6 DEF BodyGoesOn, b, r
<1> QED BY <1>4, <1>5, <1>6 DEF r, l

ParamsEnd(q, i) ==
  ParamsOn(q, i, Len(q[i].params)) =
    <<Sym("PARAMS", i, 0, 0, q[i].endPad)>> \o (PadOf(i, q[i].endPad) \o BodyOn(q, i, 0))

ParamsGoOn(q, i, n) ==
  ParamsOn(q, i, n) =
    <<Sym("PARAMS", i, 0, Len(q[i].params[n + 1]), q[i].pad)>> \o
      ((Symbols(q[i].params[n + 1], i, Upto(q[i].params, n)) \o PadOf(i, q[i].pad)) \o
        ParamsOn(q, i, n + 1))

LEMMA ParamsOnLemma ==
  ASSUME NEW q \in Seq(Requests), NEW i \in 1..Len(q)
  PROVE  /\ \A n \in 0..Len(q[i].params) : ParamsOn(q, i, n) \in Seq(Symbol)
         /\ ParamsEnd(q, i)
         /\ \A n \in 0..(Len(q[i].params) - 1) : ParamsGoOn(q, i, n)
<1> DEFINE r == q[i]
           b == r.params
           z == BodyOn(q, i, 0)
           l == Len(b)
<1>1. r \in Requests /\ i \in Nat
  BY ElementOfSeq
<1>2. z \in Seq(Symbol)
  <2>1. 0 \in 0..Len(q[i].body)
    BY <1>1, RequestLemma
  <2> QED BY <2>1, BodyOnLemma
<1> HIDE DEF r, z
<1>3. /\ b \in Seq(Seq(Kinds)) /\ r.pad \in {0, 1} /\ r.endPad \in {0, 1}
      /\ "PARAMS" \in HeaderKind
      /\ l \in Nat
  BY <1>1, RequestLemma DEF HeaderKind
<1> HIDE DEF b
<1>4. ASSUME NEW n \in 0..l
      PROVE  ParamsOn(q, i, n) \in Seq(Symbol)
             /\ ParamsOn(q, i, n) = From("PARAMS", i, b, n, r.pad, r.endPad) \o z
  <2>1. From("PARAMS", i, b, n, r.pad, r.endPad) \in Seq(Symbol)
    BY <1>1, <1>3, FromLemma
  <2>2. ParamsOn(q, i, n) = From("PARAMS", i, b, n, r.pad, r.endPad) \o z
    BY DEF ParamsOn, b, r, z
  <2> QED BY <2>1, <2>2, <1>2, ConcatProperties
<1>5. ParamsEnd(q, i)
  <2>1. EndIs("PARAMS", i, b, r.pad, r.endPad, z)
    BY <1>1, <1>2, <1>3, EndLemma
  <2>2. l \in 0..l
    BY <1>3
  <2> QED BY <2>1, <2>2, <1>3, <1>4 DEF EndIs, ParamsEnd, r, z, b
<1>6. ASSUME NEW n \in 0..(l - 1)
      PROVE  ParamsGoOn(q, i, n)
  <2>1. n \in 0..(l - 1) /\ n \in 0..l /\ n + 1 \in 0..l
    <3>1. l \in Nat /\ n \in 0..(l - 1)
      BY <1>3
    <3> HIDE DEF l
    <3> QED BY <3>1
  <2>2. NextIs("PARAMS", i, b, n, r.pad, r.endPad, z)
    BY <2>1, <1>1, <1>2, <1>3, NextLemma
  <2>5. /\ ParamsOn(q, i, n) = From("PARAMS", i, b, n, r.pad, r.endPad) \o z
        /\ ParamsOn(q, i, n + 1) = From("PARAMS", i, b, n + 1, r.pad, r.endPad) \o z
    BY <2>1, <1>4
  <2> HIDE DEF l
  <2> QED BY ONLY <2>2, <2>5, Zenon DEF NextIs, ParamsGoOn, b, r
<1> QED BY <1>4, <1>5, <1>6 DEF r, l, b

(* A request, from its beginning on. *)
BeginIs(q, i) ==
  Later(q, i - 1) =
    <<Sym("BEGIN_REQUEST", i, 0, 1, q[i].pad)>> \o
      ((<<Sym("begin", i, 1, 0, 0)>> \o PadOf(i, q[i].pad)) \o ParamsOn(q, i, 0))

(* What is not a request. *)
OtherIs(q, i) ==
  \E x \in Seq(Symbol) :
    Later(q, i - 1) =
      <<IF q[i].kind = "values" THEN Sym("GET_VALUES", i, 0, 1, q[i].pad)
        ELSE Sym("ABORT_REQUEST", i, 0, 0, q[i].pad)>> \o x

LEMMA BeginLemma ==
  ASSUME NEW q \in Seq(Requests), NEW i \in 1..Len(q)
  PROVE  IF q[i].kind = "begin" THEN BeginIs(q, i) ELSE OtherIs(q, i)
<1> DEFINE r == q[i]
           z == Later(q, i)
<1>1. r \in Requests /\ i \in Nat /\ i \in 0..Len(q) /\ i - 1 \in 0..(Len(q) - 1) /\ i - 1 + 1 = i
  <2>1. Len(q) \in Nat
    BY LenProperties
  <2>2. i \in Nat /\ i \in 0..Len(q) /\ i - 1 \in 0..(Len(q) - 1) /\ i - 1 + 1 = i
    BY <2>1
  <2> QED BY <2>2, ElementOfSeq
<1>2. z \in Seq(Symbol)
  BY <1>1, LaterLemma
<1>3. Later(q, i - 1) = AsSent(i, r) \o z
  <2>1. PICK j : j = i - 1
    OBVIOUS
  <2>2. j \in 0..(Len(q) - 1) /\ j + 1 = i
    BY <2>1, <1>1
  <2>3. Later(q, j) = AsSent(j + 1, q[j + 1]) \o Later(q, j + 1)
    BY <2>2, LaterLemma
  <2> QED BY <2>1, <2>2, <2>3
<1> HIDE DEF r, z
<1>4. /\ <<"begin">> \in Seq(Kinds) /\ <<"pair">> \in Seq(Kinds) /\ <<>> \in Seq(Kinds)
      /\ Len(<<"begin">>) = 1 /\ Len(<<"pair">>) = 1 /\ Len(<<>>) = 0 /\ r.pad \in {0, 1}
      /\ {"BEGIN_REQUEST", "GET_VALUES", "ABORT_REQUEST", "PARAMS", "STDIN"} \subseteq HeaderKind
  BY <1>1, RequestLemma DEF Kinds, HeaderKind
<1>5. CASE r.kind = "begin"
  <2> DEFINE B == Record("BEGIN_REQUEST", i, <<"begin">>, 0, r.pad)
             P == Records("PARAMS", i, r.params, r.pad, r.endPad)
             S == Records("STDIN", i, BodyOf(r), r.pad, r.endPad)
             y == ParamsOn(q, i, 0)
  <2>1. AsSent(i, r) = (B \o P) \o S
    BY <1>5 DEF AsSent
  <2>2. 0 \in 0..Len(r.params) /\ 0 \in 0..Len(BodyOf(r)) /\ 0 \in 0..Len(r.body)
    BY <1>1, RequestLemma, BodyOfLemma
  <2>3. /\ P = From("PARAMS", i, r.params, 0, r.pad, r.endPad) /\ P \in Seq(Symbol)
    <3>1. r.params \in Seq(Seq(Kinds)) /\ r.pad \in {0, 1} /\ r.endPad \in {0, 1} /\ "PARAMS" \in HeaderKind
      BY <1>1, <1>4, RequestLemma
    <3>2. /\ Records("PARAMS", i, r.params, r.pad, r.endPad)
             = From("PARAMS", i, r.params, 0, r.pad, r.endPad)
          /\ From("PARAMS", i, r.params, 0, r.pad, r.endPad) \in Seq(Symbol)
      BY <1>1, <3>1, <2>2, FromLemma
    <3> QED BY <3>2
  <2>4. /\ S = From("STDIN", i, BodyOf(r), 0, r.pad, r.endPad) /\ S \in Seq(Symbol)
    <3>1. BodyOf(r) \in Seq(Seq(Kinds)) /\ r.pad \in {0, 1} /\ r.endPad \in {0, 1} /\ "STDIN" \in HeaderKind
      BY <1>1, <1>4, RequestLemma, BodyOfLemma
    <3>2. /\ Records("STDIN", i, BodyOf(r), r.pad, r.endPad)
             = From("STDIN", i, BodyOf(r), 0, r.pad, r.endPad)
          /\ From("STDIN", i, BodyOf(r), 0, r.pad, r.endPad) \in Seq(Symbol)
      BY <1>1, <3>1, <2>2, FromLemma
    <3> QED BY <3>2
  <2>5. y = P \o (S \o z)
    BY <2>3, <2>4 DEF ParamsOn, BodyOn, r, z
  <2>6. B \in Seq(Symbol)
    BY <1>1, <1>2, <1>4, RecordLemma
  <2>7. y \in Seq(Symbol)
    BY <2>2, ParamsOnLemma DEF r
  <2> HIDE DEF B, P, S, y
  <2>8. ((B \o P) \o S) \o z = B \o y
    <3>1. B \o P \in Seq(Symbol) /\ S \o z \in Seq(Symbol)
      BY <1>2, <2>3, <2>4, <2>6, ConcatProperties
    <3>2. PICK w \in Seq(Symbol) : w = S \o z
      BY <3>1
    <3>3. PICK v \in Seq(Symbol) : v = B \o P
      BY <3>1
    <3>4. Assoc(v, S, z)
      BY <1>2, <2>4, GroupLemma
    <3>5. Assoc(B, P, w)
      BY <2>3, <2>6, GroupLemma
    <3> QED BY ONLY <2>5, <3>2, <3>3, <3>4, <3>5, Zenon DEF Assoc
  <2>9. RecordIs("BEGIN_REQUEST", i, <<"begin">>, 0, r.pad, y)
    BY <1>1, <1>4, <2>7, RecordLemma
  <2>10. Symbols(<<"begin">>, i, 0) = <<Sym("begin", i, 1, 0, 0)>>
    BY DEF Symbols
  <2>11. Later(q, i - 1) = B \o y
    BY ONLY <1>3, <2>1, <2>8, Zenon
  <2>12. BeginIs(q, i)
    BY ONLY <1>4, <2>9, <2>10, <2>11, Zenon DEF RecordIs, BeginIs, B, y, r
  <2> QED BY <1>5, <2>12 DEF r
<1>6. CASE r.kind # "begin"
  <2> DEFINE K == IF r.kind = "values" THEN "GET_VALUES" ELSE "ABORT_REQUEST"
             c == IF r.kind = "values" THEN <<"pair">> ELSE <<>>
             x == (Symbols(c, i, 0) \o PadOf(i, r.pad)) \o z
  <2>1. AsSent(i, r) = Record(K, i, c, 0, r.pad)
    BY <1>1, <1>6, RequestLemma DEF AsSent
  <2>2. K \in HeaderKind /\ c \in Seq(Kinds)
    BY <1>4
  <2> HIDE DEF K, c
  <2>3. RecordIs(K, i, c, 0, r.pad, z) /\ Symbols(c, i, 0) \o PadOf(i, r.pad) \in Seq(Symbol)
    BY <1>1, <1>2, <1>4, <2>2, RecordLemma
  <2>4. x \in Seq(Symbol)
    BY <1>2, <2>3, ConcatProperties
  <2>5. Later(q, i - 1) = <<Sym(K, i, 0, Len(c), r.pad)>> \o x
    BY ONLY <1>3, <2>1, <2>3, Zenon DEF RecordIs
  <2>6. Sym(K, i, 0, Len(c), r.pad) =
          IF r.kind = "values" THEN Sym("GET_VALUES", i, 0, 1, r.pad)
          ELSE Sym("ABORT_REQUEST", i, 0, 0, r.pad)
    BY <1>4 DEF K, c
  <2> HIDE DEF x
  <2>7. OtherIs(q, i)
    BY <2>4, <2>5, <2>6 DEF OtherIs, r
  <2> QED BY <1>6, <2>7 DEF r
<1> QED BY <1>5, <1>6 DEF r

-----------------------------------------------------------------------------
(* Where the worker is in what was sent. *)

Still(s, full) == IsCut(s, full) /\ (~ eof => s = full)

(* What is to come, unless the web server leaves before. *)
Ahead(full) == Still(input, full)

Dry == input = <<>> /\ eof

(* In the middle of a request, because the program did not read its body,  *)
(* or the web server padded an empty record.                               *)
Stray ==
  /\ reader.ignored \/ \E n \in 1..Len(sent) : Padded(sent[n])
  /\ input # <<>>
  /\ \/ Head(input).kind = "padding"
     \/ /\ Head(input).kind = "STDIN"
        /\ Head(input).len = 0 =>
             IF Tail(input) = <<>> THEN eof ELSE Head(Tail(input)).kind = "padding"

(* At the beginning of a request, or of the record that ends the body      *)
(* before.                                                                 *)
AtRequest ==
  \/ Dry \/ Stray
  \/ \E j \in 0..Len(sent) :
       Ahead(Later(sent, j)) \/ Ahead(<<Sym("STDIN", j, 0, 0, 0)>> \o Later(sent, j))

Fresh ==
  /\ given = <<>> /\ reader.piece = <<>> /\ reader.len = 0 /\ reader.ret = 0
  /\ ~ reader.over /\ ~ reader.asked /\ ~ reader.refused

AtBegin ==
  /\ Fresh /\ reader.env = <<>>
  /\ \E j \in 1..Len(sent) :
       /\ sent[j].kind = "begin" /\ reader.want = 1 + sent[j].pad
       /\ Ahead((<<Sym("begin", j, 1, 0, 0)>> \o PadOf(j, sent[j].pad)) \o ParamsOn(sent, j, 0))

(* The first n records of parameters were taken. *)
TakenTo(n) ==
  LET r == sent[reader.req] IN
  /\ reader.req \in 1..Len(sent)
  /\ r.kind = "begin" /\ r.known
  /\ n \in 0..Len(r.params)
  /\ \A m \in 1..n : Len(r.params[m]) + r.pad <= MaxLength /\ "part" \notin Range(r.params[m])
  /\ reader.env = All("pair", reader.req, Upto(r.params, n))

AtParams == Fresh /\ \E n \in Nat : TakenTo(n) /\ Ahead(ParamsOn(sent, reader.req, n))

AtPairs ==
  LET i == reader.req IN
  Fresh /\ \E n \in Nat :
    /\ TakenTo(n) /\ n < Len(sent[i].params)
    /\ LET c == sent[i].params[n + 1] IN
       /\ reader.want = Len(c) + sent[i].pad /\ reader.want <= MaxLength
       /\ Ahead((Symbols(c, i, Upto(sent[i].params, n)) \o PadOf(i, sent[i].pad))
                  \o ParamsOn(sent, i, n + 1))

(* The program got the first x of the body, or has it in this call.        *)
Got(x) == given \o reader.piece = All("byte", reader.req, x)

GotSome == \E x \in 0..Length(sent[reader.req]) : Got(x)

Size(n) == Upto(BodyOf(sent[reader.req]), n)

(* Within record n, behind it and in front of its padding, or at record    *)
(* n + 1.                                                                  *)
InContent(n) ==
  LET i == reader.req IN
  /\ reader.asked /\ n \in 1..Len(sent[i].body)
  /\ reader.len \in 1..sent[i].body[n] /\ reader.pad = sent[i].pad
  /\ Got(Size(n) - reader.len)
  /\ Ahead((Run("byte", i, Size(n) - reader.len, reader.len) \o PadOf(i, reader.pad))
             \o BodyOn(sent, i, n))

AtPadding(n) ==
  LET i == reader.req IN
  /\ reader.asked /\ n \in 1..Len(sent[i].body)
  /\ reader.len = 0 /\ reader.pad = 1 /\ Got(Size(n)) /\ reader.ret \in 1..Len(reader.piece)
  /\ Ahead(PadOf(i, 1) \o BodyOn(sent, i, n))

AtRecord(n) ==
  LET i == reader.req IN
  /\ n \in 0..Len(sent[i].body) /\ (~ reader.asked => n = 0)
  /\ reader.len = 0 /\ Got(Size(n))
  /\ Ahead(BodyOn(sent, i, n))

(* The body was read to its end. *)
Ended ==
  LET i == reader.req IN
  /\ reader.asked /\ reader.phase = "work"
  /\ reader.len = 0 /\ Got(Length(sent[i]))
  /\ Ahead(PadOf(i, sent[i].endPad) \o Later(sent, i))

(* The connection ended within the body; a call failed; padding stands in  *)
(* front of the body, where it is not read.                                *)
Lost == Dry /\ reader.asked /\ GotSome

Broken ==
  /\ reader.phase = "work" /\ reader.over /\ ~ reader.keep
  /\ eof \/ Padded(sent[reader.req])
  /\ GotSome

Misplaced ==
  /\ reader.len = 0 /\ Got(0) /\ Padded(sent[reader.req])
  /\ IF input = <<>> THEN eof ELSE Head(input).kind = "padding"

Within ==
  \/ \E n \in Nat : InContent(n)
  \/ \E n \in Nat : AtRecord(n)
  \/ Misplaced

AtBody ==
  LET r == sent[reader.req] IN
  /\ TakenTo(Len(r.params)) /\ ~ reader.refused
  /\ reader.phase = "work" => reader.piece = <<>> /\ reader.ret = 0
  /\ reader.phase = "reading" => reader.want > 0 /\ reader.asked
  /\ reader.over => reader.phase = "work" /\ (HasBody \/ eof \/ Padded(r))
  /\ IF reader.phase = "padding" THEN \E n \in Nat : AtPadding(n)
     ELSE (~ reader.over /\ Within) \/ Ended \/ Lost \/ Broken

Excused == eof \/ reader.ignored \/ \E n \in 1..Len(sent) : Malformed(sent[n]) \/ Padded(sent[n])

Place ==
  /\ reader.phase = "idle" => AtRequest /\ ~ reader.refused
  /\ reader.phase = "header" => Fresh /\ reader.env = <<>> /\ AtRequest
  /\ reader.phase = "begin" => AtBegin
  /\ reader.phase = "values" => ~ reader.refused /\ \E n \in 1..Len(sent) : Malformed(sent[n])
  /\ reader.phase = "params" => AtParams
  /\ reader.phase = "pairs" => AtPairs
  /\ reader.phase \in {"work", "reading", "padding"} => AtBody
  /\ reader.phase = "closed" /\ reader.refused => Excused

InputInv == InputTypeOK /\ Place

LEMMA StillHead ==
  ASSUME NEW h \in Symbol, NEW b \in Seq(Symbol), input \in Seq(Symbol), Ahead(<<h>> \o b)
  PROVE  /\ input = <<>> => eof
         /\ input # <<>> => /\ Head(input) = h /\ Tail(input) \in Seq(Symbol)
                            /\ Still(Tail(input), b)
<1>1. IsCut(input, <<h>> \o b) /\ (~ eof => input = <<h>> \o b)
  BY DEF Ahead, Still
<1>2. <<h>> \o b # <<>>
  <2>1. PICK a : a = <<h>>
    OBVIOUS
  <2>2. a \in Seq(Symbol) /\ a # <<>>
    BY <2>1
  <2>3. a \o b # <<>>
    BY <2>2, ConcatEqualIffEmpty
  <2> QED BY <2>1, <2>3
<1>3. ASSUME input # <<>>
      PROVE  /\ Head(input) = h /\ Tail(input) \in Seq(Symbol)
             /\ IsCut(Tail(input), b) /\ (input = <<h>> \o b => Tail(input) = b)
  BY <1>1, <1>3, CutHead
<1> QED BY <1>1, <1>2, <1>3 DEF Still

LEMMA StillTakes ==
  ASSUME NEW a \in Seq(Symbol), NEW b \in Seq(Symbol), input \in Seq(Symbol), Ahead(a \o b),
         Len(a) <= Len(input)
  PROVE  /\ Took(Len(a)) = a /\ Rest(Len(a)) \in Seq(Symbol)
         /\ Still(Rest(Len(a)), b)
<1>1. IsCut(input, a \o b) /\ (~ eof => input = a \o b)
  BY DEF Ahead, Still
<1>2. /\ SubSeq(input, 1, Len(a)) = a
      /\ Past(input, Len(a)) \in Seq(Symbol) /\ IsCut(Past(input, Len(a)), b)
  BY <1>1, CutTakes
<1>3. Past(a \o b, Len(a)) = b
  BY PastLemma
<1>4. Rest(Len(a)) = Past(input, Len(a)) /\ Took(Len(a)) = SubSeq(input, 1, Len(a))
  BY DEF Rest, Past, Took
<1> QED BY <1>1, <1>2, <1>3, <1>4 DEF Still

LEMMA StillLess ==
  ASSUME NEW full \in Seq(Symbol), input \in Seq(Symbol), Ahead(full), NEW n \in 0..Len(input)
  PROVE  SubSeq(input, 1, n) \in Seq(Symbol) /\ IsCut(SubSeq(input, 1, n), full)
BY CutLess DEF Ahead, Still

LEMMA SentLemma ==
  ASSUME InputTypeOK
  PROVE  /\ Len(sent) \in Nat /\ sent \in Seq(Requests)
         /\ \A i \in 1..Len(sent) : sent[i] \in Requests /\ i \in Nat
BY ElementOfSeq, LenProperties DEF InputTypeOK

BeginOn(q, i) == (<<Sym("begin", i, 1, 0, 0)>> \o PadOf(i, q[i].pad)) \o ParamsOn(q, i, 0)

LEMMA BeginOnLemma ==
  ASSUME NEW q \in Seq(Requests), NEW i \in 1..Len(q)
  PROVE  /\ ParamsOn(q, i, 0) \in Seq(Symbol)
         /\ <<Sym("begin", i, 1, 0, 0)>> \o PadOf(i, q[i].pad) \in Seq(Symbol)
         /\ Len(<<Sym("begin", i, 1, 0, 0)>> \o PadOf(i, q[i].pad)) = 1 + q[i].pad
         /\ (<<Sym("begin", i, 1, 0, 0)>> \o PadOf(i, q[i].pad))[1] = Sym("begin", i, 1, 0, 0)
         /\ BeginOn(q, i) \in Seq(Symbol)
<1>1. q[i] \in Requests /\ i \in Nat
  BY ElementOfSeq
<1>2. ParamsOn(q, i, 0) \in Seq(Symbol)
  <2>1. 0 \in 0..Len(q[i].params)
    BY <1>1, RequestLemma
  <2> QED BY <2>1, ParamsOnLemma
<1>3. PICK a : a = <<Sym("begin", i, 1, 0, 0)>>
  OBVIOUS
<1>4. a \in Seq(Symbol) /\ Len(a) = 1 /\ a[1] = Sym("begin", i, 1, 0, 0)
  <2>1. Sym("begin", i, 1, 0, 0) \in Symbol
    BY <1>1, SymLemma DEF Kinds
  <2> QED BY <2>1, <1>3
<1>5. PICK p : p = PadOf(i, q[i].pad)
  OBVIOUS
<1>6. p \in Seq(Symbol) /\ Len(p) = q[i].pad
  BY <1>1, <1>5, RequestLemma, PadOfLemma
<1>7. /\ a \o p \in Seq(Symbol) /\ Len(a \o p) = Len(a) + Len(p)
      /\ \A k \in 1..Len(a) : (a \o p)[k] = a[k]
  BY ONLY <1>4, <1>6, JoinLemma
<1>8. (a \o p)[1] = Sym("begin", i, 1, 0, 0)
  <2>1. 1 \in 1..Len(a)
    BY <1>4
  <2> QED BY <2>1, <1>4, <1>7
<1>9. Len(a \o p) = 1 + q[i].pad
  BY <1>4, <1>6, <1>7
<1>10. (a \o p) \o ParamsOn(q, i, 0) \in Seq(Symbol)
  BY <1>2, <1>7, ConcatProperties
<1> QED BY <1>2, <1>3, <1>5, <1>7, <1>8, <1>9, <1>10 DEF BeginOn

(* The next request is in front of the worker. *)
LEMMA AtLater ==
  ASSUME InputTypeOK, NEW j \in 0..Len(sent), Ahead(Later(sent, j)), input # <<>>
  PROVE  \E i \in 1..Len(sent) :
           /\ i = j + 1 /\ Tail(input) \in Seq(Symbol)
           /\ \/ /\ sent[i].kind = "begin" /\ Head(input) = Sym("BEGIN_REQUEST", i, 0, 1, sent[i].pad)
                 /\ Still(Tail(input), BeginOn(sent, i))
              \/ /\ sent[i].kind = "values" /\ Head(input) = Sym("GET_VALUES", i, 0, 1, sent[i].pad)
              \/ /\ sent[i].kind = "other" /\ Head(input) = Sym("ABORT_REQUEST", i, 0, 0, sent[i].pad)
<1>1. /\ Len(sent) \in Nat /\ sent \in Seq(Requests) /\ input \in Seq(Symbol)
      /\ \A i \in 1..Len(sent) : sent[i] \in Requests /\ i \in Nat
  BY SentLemma DEF InputTypeOK
<1>2. j # Len(sent)
  <2> SUFFICES ASSUME j = Len(sent) PROVE FALSE
    OBVIOUS
  <2>1. Later(sent, j) = <<>>
    BY <1>1, LaterLemma
  <2>2. IsCut(input, <<>>)
    BY <2>1 DEF Ahead, Still
  <2>3. Len(input) \in Nat \ {0} /\ Len(<<>>) = 0
    BY <1>1, EmptySeq
  <2>4. Len(input) <= Len(<<>>)
    BY <2>2 DEF IsCut
  <2> QED BY <2>3, <2>4
<1>3. PICK i : i = j + 1
  OBVIOUS
<1>4. i \in 1..Len(sent) /\ i - 1 = j /\ i \in Nat
  BY <1>1, <1>2, <1>3
<1>5. sent[i] \in Requests
  BY <1>1, <1>4
<1>6. sent[i].kind \in {"begin", "values", "other"} /\ sent[i].pad \in {0, 1}
  BY <1>5, RequestLemma
<1>7. /\ Sym("BEGIN_REQUEST", i, 0, 1, sent[i].pad) \in Symbol
      /\ Sym("GET_VALUES", i, 0, 1, sent[i].pad) \in Symbol
      /\ Sym("ABORT_REQUEST", i, 0, 0, sent[i].pad) \in Symbol
  BY <1>4, <1>6, SymLemma DEF HeaderKind
<1>8. CASE sent[i].kind = "begin"
  <2>1. BeginIs(sent, i)
    BY <1>1, <1>4, <1>8, BeginLemma
  <2>2. Ahead(<<Sym("BEGIN_REQUEST", i, 0, 1, sent[i].pad)>> \o BeginOn(sent, i))
    BY <1>4, <2>1 DEF BeginIs, BeginOn
  <2>3. BeginOn(sent, i) \in Seq(Symbol)
    BY <1>1, <1>4, BeginOnLemma
  <2>4. /\ Head(input) = Sym("BEGIN_REQUEST", i, 0, 1, sent[i].pad)
        /\ Tail(input) \in Seq(Symbol) /\ Still(Tail(input), BeginOn(sent, i))
    BY <1>1, <1>7, <2>2, <2>3, StillHead
  <2> QED BY <1>3, <1>4, <1>8, <2>4
<1>9. CASE sent[i].kind # "begin"
  <2> DEFINE h == IF sent[i].kind = "values" THEN Sym("GET_VALUES", i, 0, 1, sent[i].pad)
                  ELSE Sym("ABORT_REQUEST", i, 0, 0, sent[i].pad)
  <2>1. OtherIs(sent, i)
    BY <1>1, <1>4, <1>9, BeginLemma
  <2>2. PICK x \in Seq(Symbol) : Later(sent, i - 1) = <<h>> \o x
    BY <2>1 DEF OtherIs
  <2>3. h \in Symbol
    BY <1>7
  <2> HIDE DEF h
  <2>4. Ahead(<<h>> \o x)
    BY <1>4, <2>2
  <2>5. Head(input) = h /\ Tail(input) \in Seq(Symbol)
    BY <1>1, <2>3, <2>4, StillHead
  <2> QED BY <1>3, <1>4, <1>6, <1>9, <2>5 DEF h
<1> QED BY <1>8, <1>9

(* The record that ends the body before is in front of it. *)
LEMMA AtEnd ==
  ASSUME InputTypeOK, NEW j \in 0..Len(sent),
         Ahead(<<Sym("STDIN", j, 0, 0, 0)>> \o Later(sent, j))
  PROVE  /\ input = <<>> => eof
         /\ input # <<>> => /\ Head(input) = Sym("STDIN", j, 0, 0, 0)
                            /\ Tail(input) \in Seq(Symbol) /\ Still(Tail(input), Later(sent, j))
<1>1. j \in Nat /\ Later(sent, j) \in Seq(Symbol) /\ input \in Seq(Symbol)
  BY SentLemma, LaterLemma DEF InputTypeOK
<1>2. Sym("STDIN", j, 0, 0, 0) \in Symbol
  BY <1>1, SymLemma DEF HeaderKind
<1> QED BY <1>1, <1>2, StillHead

(* The content of record n + 1 of the parameters, and the records behind.  *)
ContentOn(q, i, n) ==
  (Symbols(q[i].params[n + 1], i, Upto(q[i].params, n)) \o PadOf(i, q[i].pad)) \o ParamsOn(q, i, n + 1)

LEMMA ContentOnLemma ==
  ASSUME NEW q \in Seq(Requests), NEW i \in 1..Len(q), NEW n \in 0..(Len(q[i].params) - 1)
  PROVE  /\ Symbols(q[i].params[n + 1], i, Upto(q[i].params, n)) \in Seq(Symbol)
         /\ Len(Symbols(q[i].params[n + 1], i, Upto(q[i].params, n))) = Len(q[i].params[n + 1])
         /\ PadOf(i, q[i].pad) \in Seq(Symbol) /\ Len(PadOf(i, q[i].pad)) = q[i].pad
         /\ ParamsOn(q, i, n + 1) \in Seq(Symbol)
         /\ ContentOn(q, i, n) \in Seq(Symbol)
         /\ Len(q[i].params[n + 1]) \in Nat \ {0}
         /\ q[i].params[n + 1] \in Seq({"pair", "part"}) /\ q[i].params[n + 1] \in Seq(Kinds)
         /\ Upto(q[i].params, n) \in Nat
         /\ Upto(q[i].params, n + 1) = Upto(q[i].params, n) + Len(q[i].params[n + 1])
<1> DEFINE p == q[i].params
           l == Len(p)
           c == p[n + 1]
           u == Upto(p, n)
           a == Symbols(c, i, u)
           b == PadOf(i, q[i].pad)
<1>1. q[i] \in Requests /\ i \in Nat
  BY ElementOfSeq
<1>2. /\ p \in Seq(Seq(Kinds)) /\ l \in Nat /\ q[i].pad \in {0, 1}
      /\ \A k \in 1..l : p[k] \in Seq({"pair", "part"}) /\ Len(p[k]) \in Nat \ {0}
  BY <1>1, RequestLemma
<1>3. n \in 0..l /\ n + 1 \in 0..l /\ n + 1 \in 1..l /\ n + 1 - 1 = n
  <2>1. n \in 0..(l - 1)
    OBVIOUS
  <2> HIDE DEF l
  <2> QED BY <1>2, <2>1
<1> HIDE DEF l, p
<1>4. c \in Seq({"pair", "part"}) /\ Len(c) \in Nat \ {0} /\ c \in Seq(Kinds)
  BY <1>2, <1>3, ElementOfSeq DEF l
<1>5. u \in Nat /\ Upto(p, n + 1) = Upto(p, n) + Len(p[n + 1])
  <2>1. PICK m : m = n + 1
    OBVIOUS
  <2>2. m \in 1..Len(p) /\ n \in 0..Len(p) /\ m - 1 = n
    BY <1>3, <2>1 DEF l
  <2>3. Upto(p, m) = Upto(p, m - 1) + Len(p[m]) /\ Upto(p, n) \in 0..Total(p) /\ Total(p) \in Nat
    BY ONLY <1>2, <2>2, UptoLemma
  <2>4. Upto(p, m) = Upto(p, n) + Len(p[m])
    BY <2>2, <2>3
  <2>5. u \in Nat
    BY <2>3
  <2> QED BY <2>1, <2>4, <2>5
<1> HIDE DEF c, u
<1>6. a \in Seq(Symbol) /\ Len(a) = Len(c)
  BY <1>1, <1>4, <1>5, SymbolsLemma
<1>7. b \in Seq(Symbol) /\ Len(b) = q[i].pad
  BY <1>1, <1>2, PadOfLemma
<1>8. ParamsOn(q, i, n + 1) \in Seq(Symbol)
  BY <1>3, ParamsOnLemma DEF l, p
<1>9. (a \o b) \o ParamsOn(q, i, n + 1) \in Seq(Symbol)
  <2> HIDE DEF a, b
  <2>1. a \o b \in Seq(Symbol)
    BY <1>6, <1>7, ConcatProperties
  <2> QED BY <2>1, <1>8, ConcatProperties
<1> QED BY <1>4, <1>5, <1>6, <1>7, <1>8, <1>9 DEF ContentOn, c, u, p, l

(* A record of parameters is in front of the worker. *)
LEMMA AtRecordOfParams ==
  ASSUME InputTypeOK, NEW n \in Nat, TakenTo(n), Ahead(ParamsOn(sent, reader.req, n)),
         NEW i, i = reader.req
  PROVE  /\ i \in 1..Len(sent) /\ i \in Nat /\ sent[i] \in Requests /\ n \in 0..Len(sent[i].params)
         /\ Len(sent[i].params) \in Nat
         /\ input = <<>> => eof
         /\ input # <<>> => Tail(input) \in Seq(Symbol)
         /\ input # <<>> /\ n = Len(sent[i].params) =>
              /\ Head(input) = Sym("PARAMS", i, 0, 0, sent[i].endPad)
              /\ Still(Tail(input), PadOf(i, sent[i].endPad) \o BodyOn(sent, i, 0))
         /\ input # <<>> /\ n # Len(sent[i].params) =>
              /\ n \in 0..(Len(sent[i].params) - 1)
              /\ Head(input) = Sym("PARAMS", i, 0, Len(sent[i].params[n + 1]), sent[i].pad)
              /\ Still(Tail(input), ContentOn(sent, i, n))
<1>1. /\ Len(sent) \in Nat /\ sent \in Seq(Requests) /\ input \in Seq(Symbol)
      /\ \A k \in 1..Len(sent) : sent[k] \in Requests /\ k \in Nat
  BY SentLemma DEF InputTypeOK
<1>2. i \in 1..Len(sent) /\ n \in 0..Len(sent[i].params)
  BY DEF TakenTo
<1>3. sent[i] \in Requests /\ i \in Nat
  BY <1>1, <1>2
<1>4. Len(sent[i].params) \in Nat /\ sent[i].pad \in {0, 1} /\ sent[i].endPad \in {0, 1}
      /\ Len(sent[i].body) \in Nat
  BY <1>3, RequestLemma
<1>5. CASE n = Len(sent[i].params)
  <2> DEFINE h == Sym("PARAMS", i, 0, 0, sent[i].endPad)
             z == PadOf(i, sent[i].endPad) \o BodyOn(sent, i, 0)
  <2>1. ParamsEnd(sent, i)
    BY <1>1, <1>2, ParamsOnLemma
  <2>2. Ahead(<<h>> \o z)
    BY <1>5, <2>1 DEF ParamsEnd
  <2>3. h \in Symbol
    BY <1>3, <1>4, SymLemma DEF HeaderKind
  <2>4. z \in Seq(Symbol)
    <3>1. 0 \in 0..Len(sent[i].body)
      BY <1>4
    <3>2. BodyOn(sent, i, 0) \in Seq(Symbol)
      BY <1>1, <1>2, <3>1, BodyOnLemma
    <3>3. PadOf(i, sent[i].endPad) \in Seq(Symbol)
      BY <1>3, <1>4, PadOfLemma
    <3> QED BY <3>2, <3>3, ConcatProperties
  <2> HIDE DEF h, z
  <2>5. /\ input = <<>> => eof
        /\ input # <<>> => /\ Head(input) = h /\ Tail(input) \in Seq(Symbol)
                           /\ Still(Tail(input), z)
    BY <1>1, <2>2, <2>3, <2>4, StillHead
  <2> QED BY <1>2, <1>3, <1>4, <1>5, <2>5 DEF h, z
<1>6. CASE n # Len(sent[i].params)
  <2> DEFINE h == Sym("PARAMS", i, 0, Len(sent[i].params[n + 1]), sent[i].pad)
             z == ContentOn(sent, i, n)
  <2>1. n \in 0..(Len(sent[i].params) - 1)
    BY <1>2, <1>4, <1>6
  <2>2. ParamsGoOn(sent, i, n)
    BY <1>1, <1>2, <2>1, ParamsOnLemma
  <2>3. Ahead(<<h>> \o z)
    BY <2>2 DEF ParamsGoOn, ContentOn
  <2>4. z \in Seq(Symbol) /\ Len(sent[i].params[n + 1]) \in Nat
    BY <1>1, <1>2, <2>1, ContentOnLemma
  <2>5. h \in Symbol
    BY <1>3, <1>4, <2>4, SymLemma DEF HeaderKind
  <2> HIDE DEF h, z
  <2>6. /\ input = <<>> => eof
        /\ input # <<>> => /\ Head(input) = h /\ Tail(input) \in Seq(Symbol)
                           /\ Still(Tail(input), z)
    BY <1>1, <2>3, <2>4, <2>5, StillHead
  <2> QED BY <1>2, <1>3, <1>4, <1>6, <2>1, <2>6 DEF h, z
<1> QED BY <1>5, <1>6

-----------------------------------------------------------------------------
(* fcgi_read_request *)

LEMMA ClosedAt ==
  ASSUME InputInv, reader' \in Reader, reader'.phase = "closed", reader'.ignored = reader.ignored,
         UNCHANGED <<eof, sent, given, left>>, input' \in Seq(Symbol), Excused
  PROVE  InputInv'
<1>1. InputTypeOK'
  BY DEF InputInv, InputTypeOK
<1>2. Excused'
  BY DEF Excused
<1> QED BY <1>1, <1>2 DEF InputInv, Place

LEMMA RefusedLemma ==
  ASSUME InputInv, Refused, UNCHANGED <<eof, sent, given, left>>, input' \in Seq(Symbol), Excused
  PROVE  InputInv'
<1>1. reader' \in Reader /\ reader'.phase = "closed" /\ reader'.ignored = reader.ignored
  BY DEF InputInv, InputTypeOK, Refused, Reader
<1> QED BY <1>1, ClosedAt

LEMMA NoRequestLemma ==
  ASSUME InputInv, NoRequest
  PROVE  InputInv'
<1>1. InputTypeOK /\ Place
  BY DEF InputInv
<1>2. CASE reader.phase = "header"
  <2>1. AtRequest
    BY <1>1, <1>2 DEF Place
  <2>2. (input = <<>> /\ eof) \/ (input # <<>> /\ Head(input).kind = "padding")
    BY DEF NoRequest, HasNoHeader
  <2>3. CASE Dry \/ Stray
    BY <2>3, RefusedLemma DEF Dry, Stray, Excused, NoRequest, InputTypeOK, InputInv
  <2>4. ASSUME NEW j \in 0..Len(sent), Ahead(Later(sent, j)) PROVE Excused
    <3>1. CASE input # <<>>
      <4>1. Head(input).kind \in {"BEGIN_REQUEST", "GET_VALUES", "ABORT_REQUEST"}
        BY <1>1, <2>4, <3>1, AtLater DEF Sym
      <4> QED BY <2>2, <3>1, <4>1
    <3> QED BY <2>2, <3>1 DEF Excused
  <2>5. ASSUME NEW j \in 0..Len(sent), Ahead(<<Sym("STDIN", j, 0, 0, 0)>> \o Later(sent, j))
        PROVE  Excused
    <3>1. CASE input # <<>>
      <4>1. Head(input) = Sym("STDIN", j, 0, 0, 0)
        BY <1>1, <2>5, <3>1, AtEnd
      <4> QED BY <2>2, <3>1, <4>1 DEF Sym
    <3> QED BY <2>2, <3>1 DEF Excused
  <2>6. Dry \/ Stray \/ Excused
    BY <2>1, <2>4, <2>5 DEF AtRequest
  <2>7. CASE Excused
    BY <2>7, RefusedLemma DEF NoRequest, InputTypeOK, InputInv
  <2> QED BY <2>3, <2>6, <2>7
<1>3. CASE reader.phase = "params"
  <2>1. AtParams
    BY <1>1, <1>3 DEF Place
  <2>2. PICK n \in Nat : TakenTo(n) /\ Ahead(ParamsOn(sent, reader.req, n))
    BY <2>1 DEF AtParams
  <2>3. Excused
    <3>1. input # <<>> => Head(input).kind = "PARAMS"
      <4>1. PICK i : i = reader.req
        OBVIOUS
      <4> QED BY <1>1, <2>2, <4>1, AtRecordOfParams DEF Sym
    <3>2. input = <<>> => eof
      BY <3>1 DEF NoRequest, HasNoHeader
    <3> QED BY <3>1, <3>2 DEF NoRequest, HasNoHeader, Excused
  <2> QED BY <2>3, RefusedLemma DEF NoRequest, InputTypeOK, InputInv
<1> QED BY <1>2, <1>3 DEF NoRequest

LEMMA ReadRequestLemma ==
  ASSUME InputInv, ReadRequest
  PROVE  InputInv'
<1>1. InputTypeOK /\ AtRequest
  BY DEF InputInv, Place, ReadRequest
<1>2. /\ reader' = [Unread EXCEPT !.phase = "header", !.pad = reader.pad, !.ignored = reader.ignored]
      /\ given' = <<>> /\ UNCHANGED <<input, eof, sent, left>>
  BY DEF ReadRequest
<1>3. /\ reader'.phase = "header" /\ reader'.env = <<>> /\ reader'.piece = <<>> /\ reader'.len = 0
      /\ reader'.ret = 0 /\ reader'.over = FALSE /\ reader'.asked = FALSE /\ reader'.refused = FALSE
      /\ reader'.ignored = reader.ignored
  BY <1>2 DEF Unread
<1>4. InputTypeOK'
  <2>1. reader.pad \in {0, 1} /\ reader.ignored \in BOOLEAN
    BY <1>1 DEF InputTypeOK, Reader
  <2>2. <<>> \in Seq(Symbol)
    OBVIOUS
  <2>3. Unread \in Reader
    BY <2>2 DEF Unread, Reader
  <2>4. reader' \in Reader
    BY ONLY <1>2, <2>1, <2>3 DEF Reader
  <2> QED BY <1>1, <1>2, <2>2, <2>4 DEF InputTypeOK
<1>5. AtRequest'
  BY <1>1, <1>2, <1>3 DEF AtRequest, Dry, Stray, Ahead, Still
<1>6. Fresh'
  BY <1>2, <1>3 DEF Fresh
<1> QED BY <1>3, <1>4, <1>5, <1>6 DEF InputInv, Place

LEMMA TakesHeaderLemma ==
  ASSUME InputInv, TakesHeader
  PROVE  InputInv'
<1> DEFINE h == Head(input)
<1>1. /\ InputTypeOK /\ Fresh /\ reader.env = <<>> /\ AtRequest /\ reader.phase = "header"
      /\ input \in Seq(Symbol) /\ reader \in Reader
  BY DEF InputInv, Place, TakesHeader, InputTypeOK
<1>2. /\ input # <<>> /\ h.kind \in HeaderKind
      /\ input' = Tail(input) /\ UNCHANGED <<eof, sent, given, left>>
      /\ reader' = IF SkipsEmpty(h) THEN reader
                   ELSE IF TooLong(h) \/ h.kind \notin {"BEGIN_REQUEST", "GET_VALUES"}
                   THEN [reader EXCEPT !.phase = "closed", !.refused = TRUE]
                   ELSE [reader EXCEPT
                           !.phase = IF h.kind = "BEGIN_REQUEST" THEN "begin" ELSE "values",
                           !.want = h.len + h.pad]
  BY DEF TakesHeader, HasHeader
<1>3. h \in Symbol /\ Tail(input) \in Seq(Symbol)
  BY <1>1, <1>2, HeadTailProperties
<1>4. h.len \in Nat /\ h.pad \in {0, 1}
  BY <1>3 DEF Symbol
<1>5. InputTypeOK'
  <2> HIDE DEF h
  <2>1. reader \in Reader /\ h.len + h.pad \in Nat
    BY <1>1, <1>4
  <2>2. [reader EXCEPT !.phase = "closed", !.refused = TRUE] \in Reader
    BY <2>1 DEF Reader
  <2>3. [reader EXCEPT !.phase = IF h.kind = "BEGIN_REQUEST" THEN "begin" ELSE "values",
                       !.want = h.len + h.pad] \in Reader
    <3>1. PICK w \in Nat : w = h.len + h.pad
      BY <2>1
    <3>2. PICK x \in {"begin", "values"} : x = IF h.kind = "BEGIN_REQUEST" THEN "begin" ELSE "values"
      OBVIOUS
    <3>3. [reader EXCEPT !.phase = x, !.want = w] \in Reader
      BY <2>1 DEF Reader
    <3> QED BY <3>1, <3>2, <3>3
  <2>4. reader' \in Reader
    BY ONLY <1>2, <2>1, <2>2, <2>3
  <2> QED BY <1>1, <1>2, <1>3, <2>4 DEF InputTypeOK
<1>6. ASSUME Excused, ~ SkipsEmpty(h), TooLong(h) \/ h.kind \notin {"BEGIN_REQUEST", "GET_VALUES"}
      PROVE  InputInv'
  <2>1. Refused
    BY <1>2, <1>6 DEF Refused
  <2> QED BY <1>2, <1>3, <1>6, <2>1, RefusedLemma
<1>7. ASSUME SkipsEmpty(h), AtRequest'
      PROVE  InputInv'
  <2>1. reader' = reader /\ given' = given
    BY <1>2, <1>7
  <2>2. Fresh'
    BY <1>1, <2>1 DEF Fresh
  <2> QED BY <1>1, <1>5, <1>7, <2>1, <2>2 DEF InputInv, Place
<1>8. CASE Dry
  BY <1>2, <1>8 DEF Dry
<1>9. CASE Stray
  <2>1. h.kind = "STDIN" /\ Excused
    BY <1>2, <1>9 DEF Stray, HeaderKind, Excused
  <2>2. CASE h.len = 0
    <3>1. SkipsEmpty(h)
      BY <2>1, <2>2 DEF SkipsEmpty
    <3>2. IF Tail(input) = <<>> THEN eof ELSE Head(Tail(input)).kind = "padding"
      BY <1>9, <2>1, <2>2 DEF Stray
    <3>3. reader' = reader
      BY <1>2, <3>1
    <3>4. Dry' \/ Stray'
      BY <1>2, <1>9, <3>2, <3>3 DEF Dry, Stray
    <3> QED BY <1>7, <3>1, <3>4 DEF AtRequest
  <2>3. CASE h.len # 0
    BY <1>6, <2>1, <2>3 DEF SkipsEmpty
  <2> QED BY <2>2, <2>3
<1>10. ASSUME NEW j \in 0..Len(sent), Ahead(Later(sent, j)) PROVE InputInv'
  <2>1. PICK i \in 1..Len(sent) :
           /\ i = j + 1 /\ Tail(input) \in Seq(Symbol)
           /\ \/ /\ sent[i].kind = "begin" /\ h = Sym("BEGIN_REQUEST", i, 0, 1, sent[i].pad)
                 /\ Still(Tail(input), BeginOn(sent, i))
              \/ /\ sent[i].kind = "values" /\ h = Sym("GET_VALUES", i, 0, 1, sent[i].pad)
              \/ /\ sent[i].kind = "other" /\ h = Sym("ABORT_REQUEST", i, 0, 0, sent[i].pad)
    BY <1>1, <1>2, <1>10, AtLater
  <2> HIDE DEF h
  <2>2. CASE sent[i].kind # "begin"
    <3>1. Malformed(sent[i])
      BY <2>2 DEF Malformed
    <3>2. Excused
      BY <3>1 DEF Excused
    <3>3. ~ SkipsEmpty(h)
      BY <2>1 DEF Sym, SkipsEmpty
    <3>4. CASE TooLong(h) \/ h.kind \notin {"BEGIN_REQUEST", "GET_VALUES"}
      BY <1>6, <3>2, <3>3, <3>4
    <3>5. CASE ~ (TooLong(h) \/ h.kind \notin {"BEGIN_REQUEST", "GET_VALUES"})
      <4>1. h.kind # "BEGIN_REQUEST"
        BY <2>1, <2>2 DEF Sym
      <4>2. reader'.phase = "values" /\ reader'.refused = reader.refused
        BY <1>1, <1>2, <3>3, <3>5, <4>1 DEF Reader
      <4>3. \E n \in 1..Len(sent') : Malformed(sent'[n])
        BY <1>2, <3>1
      <4>4. (\E n \in 1..Len(sent) : Malformed(sent[n]))'
        BY <4>3 DEF Malformed
      <4> QED BY <1>1, <1>5, <4>2, <4>4 DEF InputInv, Place, Fresh
    <3> QED BY <3>4, <3>5
  <2>3. CASE sent[i].kind = "begin"
    <3>1. h = Sym("BEGIN_REQUEST", i, 0, 1, sent[i].pad) /\ Still(Tail(input), BeginOn(sent, i))
      BY <2>1, <2>3
    <3>2. sent[i].pad \in {0, 1}
      BY <1>1, SentLemma, RequestLemma
    <3>3. h.kind = "BEGIN_REQUEST" /\ h.len = 1 /\ h.pad = sent[i].pad
      BY <3>1 DEF Sym
    <3>4. ~ SkipsEmpty(h) /\ ~ TooLong(h)
      <4>1. MaxLength \in Nat /\ MaxLength >= 2
        BY InputAssumption
      <4> QED BY <3>2, <3>3, <4>1 DEF SkipsEmpty, TooLong
    <3>5. reader' = [reader EXCEPT !.phase = "begin", !.want = h.len + h.pad]
      BY <1>2, <3>3, <3>4
    <3>6. reader'.phase = "begin" /\ reader'.want = 1 + sent[i].pad
      BY <1>1, <3>3, <3>5 DEF Reader
    <3>7. Fresh' /\ reader'.env = <<>>
      BY <1>1, <1>2, <3>5 DEF Fresh, Reader
    <3>8. AtBegin'
      BY <1>2, <2>3, <3>1, <3>6, <3>7 DEF AtBegin, Ahead, Still, BeginOn
    <3> QED BY <1>5, <3>6, <3>8 DEF InputInv, Place
  <2> QED BY <2>2, <2>3
<1>11. ASSUME NEW j \in 0..Len(sent), Ahead(<<Sym("STDIN", j, 0, 0, 0)>> \o Later(sent, j))
       PROVE  InputInv'
  <2>1. h = Sym("STDIN", j, 0, 0, 0) /\ Still(Tail(input), Later(sent, j))
    BY <1>1, <1>2, <1>11, AtEnd
  <2>2. SkipsEmpty(h)
    BY <2>1 DEF SkipsEmpty, Sym
  <2>3. AtRequest'
    <3>1. Ahead(Later(sent, j))'
      BY <1>2, <2>1 DEF Ahead, Still
    <3> QED BY <1>2, <3>1 DEF AtRequest
  <2> QED BY <1>7, <2>2, <2>3
<1> QED BY <1>1, <1>8, <1>9, <1>10, <1>11 DEF AtRequest

LEMMA TakesBeginLemma ==
  ASSUME InputInv, TakesBegin
  PROVE  InputInv'
<1>1. /\ InputTypeOK /\ AtBegin /\ input \in Seq(Symbol) /\ reader \in Reader /\ sent \in Seq(Requests)
      /\ reader.phase = "begin"
  BY DEF InputInv, Place, TakesBegin, InputTypeOK
<1>2. PICK i \in 1..Len(sent) :
        /\ sent[i].kind = "begin" /\ reader.want = 1 + sent[i].pad
        /\ Ahead(BeginOn(sent, i))
  BY <1>1 DEF AtBegin, BeginOn
<1>3. PICK a : a = <<Sym("begin", i, 1, 0, 0)>> \o PadOf(i, sent[i].pad)
  OBVIOUS
<1>4. PICK b : b = ParamsOn(sent, i, 0)
  OBVIOUS
<1>5. /\ a \in Seq(Symbol) /\ b \in Seq(Symbol) /\ Len(a) = reader.want
      /\ a[1] = Sym("begin", i, 1, 0, 0) /\ Ahead(a \o b)
  BY <1>1, <1>2, <1>3, <1>4, BeginOnLemma DEF BeginOn
<1>6. Len(a) <= Len(input)
  BY <1>1, <1>5 DEF TakesBegin, Whole, Reader
<1>7. Took(Len(a)) = a /\ Rest(Len(a)) \in Seq(Symbol) /\ Still(Rest(Len(a)), b)
  BY <1>1, <1>5, <1>6, StillTakes
<1>8. sent[i] \in Requests /\ i \in Nat
  BY <1>1, SentLemma
<1>9. Head(input) = Sym("begin", i, 1, 0, 0)
  <2>1. Len(a) \in Nat \ {0}
    <3>1. sent[i].pad \in {0, 1}
      BY <1>8, RequestLemma
    <3> QED BY <1>2, <1>5, <3>1
  <2>2. Len(a) \in 0..Len(input) /\ 1 \in 1..Len(a)
    BY <1>1, <1>6, <2>1
  <2>3. \A k \in 1..Len(a) : SubSeq(input, 1, Len(a))[k] = input[k]
    <3>1. PICK n : n = Len(a)
      OBVIOUS
    <3>2. \A k \in 1..n : SubSeq(input, 1, n)[k] = input[k]
      BY <3>1, <2>2, <1>1, SplitLemma
    <3> QED BY <3>1, <3>2
  <2>4. input[1] = a[1]
    BY <2>2, <2>3, <1>7 DEF Took
  <2>5. input # <<>>
    BY <2>1, <2>2
  <2> QED BY <1>5, <2>4
<1>10. Head(input).req = i
  BY <1>9 DEF Sym
<1>11. /\ input' = Rest(reader.want) /\ UNCHANGED <<eof, sent, given, left>>
       /\ reader' = IF sent[i].known
                    THEN [reader EXCEPT !.phase = "params", !.want = 0, !.keep = sent[i].keep,
                                        !.req = i]
                    ELSE [reader EXCEPT !.phase = "closed", !.refused = TRUE]
  BY <1>10 DEF TakesBegin
<1>12. input' \in Seq(Symbol) /\ input' = Rest(Len(a))
  BY <1>5, <1>7, <1>11
<1>13. CASE ~ sent[i].known
  <2>1. Refused
    BY <1>11, <1>13 DEF Refused
  <2>2. Excused
    BY <1>13 DEF Excused, Malformed
  <2> QED BY <1>11, <1>12, <2>1, <2>2, RefusedLemma
<1>14. CASE sent[i].known
  <2>1. reader' = [reader EXCEPT !.phase = "params", !.want = 0, !.keep = sent[i].keep, !.req = i]
    BY <1>11, <1>14
  <2>2. sent[i].keep \in BOOLEAN
    BY <1>8, RequestLemma
  <2>3. InputTypeOK'
    <3>1. reader' \in Reader
      BY <1>1, <1>8, <2>1, <2>2 DEF Reader
    <3> QED BY <1>1, <1>11, <1>12, <3>1 DEF InputTypeOK
  <2>4. reader'.phase = "params" /\ reader'.req = i /\ reader'.env = reader.env
    BY <1>1, <2>1 DEF Reader
  <2>5. Fresh'
    BY <1>1, <1>11, <2>1 DEF AtBegin, Fresh, Reader
  <2>6. TakenTo(0)'
    <3>1. Len(sent[i].params) \in Nat /\ Upto(sent[i].params, 0) = 0
      BY <1>8, RequestLemma, UptoLemma
    <3>2. All("pair", i, 0) = <<>>
      BY <1>8, AllNone DEF Kinds
    <3>3. reader.env = <<>>
      BY <1>1 DEF AtBegin
    <3> QED BY <1>2, <1>11, <1>14, <2>4, <3>1, <3>2, <3>3 DEF TakenTo
  <2>7. Ahead(ParamsOn(sent, reader.req, 0))'
    BY <1>4, <1>7, <1>11, <1>12, <2>4 DEF Ahead, Still
  <2>8. AtParams'
    BY <2>5, <2>6, <2>7 DEF AtParams
  <2> QED BY <2>3, <2>4, <2>8 DEF InputInv, Place
<1> QED BY <1>13, <1>14

LEMMA TakesValuesLemma ==
  ASSUME InputInv, TakesValues
  PROVE  InputInv'
<1>1. Excused
  BY DEF InputInv, Place, TakesValues, Excused
<1>2. input' \in Seq(Symbol)
  <2>1. reader.want \in Nat /\ input \in Seq(Symbol) /\ reader.want <= Len(input)
    BY DEF InputInv, InputTypeOK, Reader, TakesValues, Whole
  <2>2. reader.want \in 0..Len(input)
    BY <2>1
  <2>3. Past(input, reader.want) \in Seq(Symbol)
    <3>1. PICK n : n = reader.want
      OBVIOUS
    <3> QED BY <3>1, <2>1, <2>2, SplitLemma
  <2> QED BY <2>3 DEF TakesValues, Rest, Past
<1> QED BY <1>1, <1>2, RefusedLemma DEF TakesValues

LEMMA CutOffLemma ==
  ASSUME InputInv, CutOff
  PROVE  InputInv'
<1>1. Excused
  BY DEF CutOff, Short, Excused
<1>2. input' \in Seq(Symbol)
  BY DEF CutOff, InputInv, InputTypeOK
<1> QED BY <1>1, <1>2, RefusedLemma DEF CutOff

LEMMA StillBegins ==
  ASSUME NEW h \in Symbol, NEW b \in Seq(Symbol), NEW s \in Seq(Symbol), Still(s, <<h>> \o b)
  PROVE  IF s = <<>> THEN eof ELSE Head(s) = h
<1>1. IsCut(s, <<h>> \o b) /\ (~ eof => s = <<h>> \o b)
  BY DEF Still
<1>2. <<h>> \o b # <<>>
  <2>1. PICK a : a = <<h>>
    OBVIOUS
  <2>2. a \in Seq(Symbol) /\ a # <<>>
    BY <2>1
  <2>3. a \o b # <<>>
    BY <2>2, ConcatEqualIffEmpty
  <2> QED BY <2>1, <2>3
<1>3. s # <<>> => Head(s) = h
  BY <1>1, CutEmpty
<1> QED BY <1>1, <1>2, <1>3

(* What is behind a header without padding, or its padding.                *)
LEMMA StillPadded ==
  ASSUME NEW i \in Nat, NEW pad \in {0, 1}, NEW b \in Seq(Symbol), NEW s \in Seq(Symbol),
         Still(s, PadOf(i, pad) \o b)
  PROVE  IF pad = 0 THEN Still(s, b)
         ELSE IF s = <<>> THEN eof ELSE Head(s).kind = "padding"
<1>1. CASE pad = 0
  <2>1. PadOf(i, pad) = <<>>
    BY <1>1 DEF PadOf
  <2>2. PadOf(i, pad) \o b = b
    BY <2>1, ConcatEmptySeq
  <2> QED BY <1>1, <2>2
<1>2. CASE pad = 1
  <2>1. PadOf(i, pad) = <<Sym("padding", i, 0, 0, 0)>>
    BY <1>2 DEF PadOf
  <2>2. Sym("padding", i, 0, 0, 0) \in Symbol
    BY SymLemma
  <2>3. Still(s, <<Sym("padding", i, 0, 0, 0)>> \o b)
    BY <2>1
  <2>4. IF s = <<>> THEN eof ELSE Head(s) = Sym("padding", i, 0, 0, 0)
    BY <2>2, <2>3, StillBegins
  <2> QED BY <1>2, <2>4 DEF Sym
<1> QED BY <1>1, <1>2

LEMMA TakesParamsLemma ==
  ASSUME InputInv, TakesParams
  PROVE  InputInv'
<1> DEFINE h == Head(input)
           i == reader.req
<1>1. /\ InputTypeOK /\ AtParams /\ input \in Seq(Symbol) /\ reader \in Reader
      /\ reader.phase = "params"
  BY DEF InputInv, Place, TakesParams, InputTypeOK
<1>2. /\ input # <<>> /\ input' = Tail(input) /\ UNCHANGED <<eof, sent, given, left>>
      /\ reader' = IF h.kind # "PARAMS" \/ h.len = 0 THEN [reader EXCEPT !.phase = "work"]
                   ELSE IF TooLong(h) THEN [reader EXCEPT !.phase = "closed", !.refused = TRUE]
                   ELSE [reader EXCEPT !.phase = "pairs", !.want = h.len + h.pad]
  BY DEF TakesParams, HasHeader
<1>3. PICK n \in Nat : TakenTo(n) /\ Ahead(ParamsOn(sent, i, n))
  BY <1>1 DEF AtParams
<1>4. /\ i \in 1..Len(sent) /\ i \in Nat /\ sent[i] \in Requests /\ n \in 0..Len(sent[i].params)
      /\ Len(sent[i].params) \in Nat
      /\ Tail(input) \in Seq(Symbol)
      /\ n = Len(sent[i].params) =>
           /\ h = Sym("PARAMS", i, 0, 0, sent[i].endPad)
           /\ Still(Tail(input), PadOf(i, sent[i].endPad) \o BodyOn(sent, i, 0))
      /\ n # Len(sent[i].params) =>
           /\ n \in 0..(Len(sent[i].params) - 1)
           /\ h = Sym("PARAMS", i, 0, Len(sent[i].params[n + 1]), sent[i].pad)
           /\ Still(Tail(input), ContentOn(sent, i, n))
  <2>1. PICK k : k = reader.req
    OBVIOUS
  <2> QED BY <1>1, <1>2, <1>3, <2>1, AtRecordOfParams
<1>5. Fresh /\ sent \in Seq(Requests)
  BY <1>1 DEF AtParams, InputTypeOK
<1>6. sent[i].pad \in {0, 1} /\ sent[i].endPad \in {0, 1} /\ Len(sent[i].body) \in Nat
  BY <1>4, RequestLemma
<1> HIDE DEF h, i
<1>7. CASE n = Len(sent[i].params)
  <2>1. h.len = 0
    BY <1>4, <1>7 DEF Sym
  <2>2. reader' = [reader EXCEPT !.phase = "work"]
    BY <1>2, <2>1
  <2>3. InputTypeOK'
    <3>1. reader' \in Reader
      BY <1>1, <2>2 DEF Reader
    <3> QED BY <1>1, <1>2, <1>4, <3>1 DEF InputTypeOK
  <2>4. /\ reader'.phase = "work" /\ reader'.req = i /\ reader'.env = reader.env
        /\ reader'.piece = <<>> /\ reader'.len = 0 /\ reader'.ret = 0
        /\ ~ reader'.over /\ ~ reader'.asked /\ ~ reader'.refused /\ given' = <<>>
    BY <1>1, <1>2, <1>5, <2>2 DEF Fresh, Reader, i
  <2>5. TakenTo(Len(sent[reader.req].params))'
    BY <1>2, <1>3, <1>7, <2>4 DEF TakenTo, i
  <2>6. Got(0)'
    <3>1. All("byte", i, 0) = <<>>
      BY <1>4, AllNone DEF Kinds
    <3>2. <<>> \o <<>> = <<>>
      OBVIOUS
    <3> QED BY <2>4, <3>1, <3>2 DEF Got
  <2>7. Within'
    <3>1. IF sent[i].endPad = 0 THEN Still(Tail(input), BodyOn(sent, i, 0))
          ELSE IF Tail(input) = <<>> THEN eof ELSE Head(Tail(input)).kind = "padding"
      <4>1. 0 \in 0..Len(sent[i].body)
        BY <1>6
      <4>2. BodyOn(sent, i, 0) \in Seq(Symbol)
        BY <1>4, <1>5, <4>1, BodyOnLemma
      <4>3. Still(Tail(input), PadOf(i, sent[i].endPad) \o BodyOn(sent, i, 0))
        BY <1>4, <1>7
      <4> QED BY <1>4, <1>6, <4>2, <4>3, StillPadded
    <3>2. CASE sent[i].endPad = 0
      <4>1. Ahead(BodyOn(sent, reader.req, 0))'
        BY <1>2, <2>4, <3>1, <3>2 DEF Ahead, Still
      <4>2. Size(0)' = 0
        <5>1. BodyOf(sent[i]) \in Seq(Seq(Kinds))
          BY <1>4, BodyOfLemma
        <5>2. Upto(BodyOf(sent[i]), 0) = 0
          BY <5>1, UptoLemma
        <5> QED BY <1>2, <2>4, <5>2 DEF Size
      <4>3. Got(Size(0))'
        BY <2>6, <4>2 DEF Got
      <4>4. AtRecord(0)'
        BY <1>2, <1>6, <2>4, <4>1, <4>3 DEF AtRecord
      <4> QED BY <4>4 DEF Within
    <3>3. CASE sent[i].endPad # 0
      <4>1. Padded(sent[i])
        BY <1>6, <3>3 DEF Padded
      <4>2. Misplaced'
        BY <1>2, <2>4, <2>6, <3>1, <3>3, <4>1 DEF Misplaced
      <4> QED BY <4>2 DEF Within
    <3> QED BY <3>2, <3>3
  <2>8. AtBody'
    BY <2>4, <2>5, <2>7 DEF AtBody
  <2> QED BY <2>3, <2>4, <2>8 DEF InputInv, Place
<1>8. CASE n # Len(sent[i].params)
  <2> DEFINE c == sent[i].params[n + 1]
  <2>1. /\ n \in 0..(Len(sent[i].params) - 1)
        /\ h = Sym("PARAMS", i, 0, Len(c), sent[i].pad) /\ Still(Tail(input), ContentOn(sent, i, n))
    BY <1>4, <1>8
  <2>2. Len(c) \in Nat \ {0}
    BY <1>4, <1>5, <2>1, ContentOnLemma
  <2>3. h.kind = "PARAMS" /\ h.len = Len(c) /\ h.pad = sent[i].pad
    BY <2>1 DEF Sym
  <2>4. n + 1 \in DOMAIN sent[i].params
    <3>1. sent[i].params \in Seq(Seq(Kinds))
      BY <1>4, RequestLemma
    <3>2. n + 1 \in 1..Len(sent[i].params)
      BY <1>4, <2>1
    <3> QED BY <3>1, <3>2, LenProperties
  <2> HIDE DEF c
  <2>5. CASE TooLong(h)
    <3>1. Refused
      BY <1>2, <2>2, <2>3, <2>5 DEF Refused
    <3>2. Malformed(sent[i])
      BY <2>3, <2>4, <2>5 DEF TooLong, Malformed, c
    <3>3. Excused
      BY <1>4, <3>2 DEF Excused
    <3> QED BY <1>2, <1>4, <3>1, <3>3, RefusedLemma
  <2>6. CASE ~ TooLong(h)
    <3>1. reader' = [reader EXCEPT !.phase = "pairs", !.want = h.len + h.pad]
      BY <1>2, <2>2, <2>3, <2>6
    <3>2. h.len + h.pad \in Nat /\ h.len + h.pad <= MaxLength
      BY <1>6, <2>2, <2>3, <2>6, InputAssumption DEF TooLong
    <3>3. InputTypeOK'
      <4>1. PICK w \in Nat : w = h.len + h.pad
        BY <3>2
      <4>2. reader' \in Reader
        BY <1>1, <3>1, <4>1 DEF Reader
      <4> QED BY <1>1, <1>2, <1>4, <4>2 DEF InputTypeOK
    <3>4. /\ reader'.phase = "pairs" /\ reader'.req = i /\ reader'.env = reader.env
          /\ reader'.want = h.len + h.pad
      BY <1>1, <3>1 DEF Reader, i
    <3>5. Fresh'
      BY <1>1, <1>2, <1>5, <3>1 DEF Fresh, Reader
    <3>6. TakenTo(n)'
      BY <1>2, <1>3, <3>4 DEF TakenTo, i
    <3>7. Ahead(ContentOn(sent, reader.req, n))'
      <4>1. PICK j : j = i
        OBVIOUS
      <4>2. Still(Tail(input), ContentOn(sent, j, n)) /\ reader'.req = j
        BY <2>1, <3>4, <4>1
      <4> QED BY <1>2, <4>2 DEF Ahead, Still
    <3>8. AtPairs'
      <4>1. n < Len(sent[i].params)
        BY <1>4, <2>1
      <4>2. reader'.want = Len(c) + sent[i].pad /\ reader'.want <= MaxLength
        BY <2>3, <3>2, <3>4
      <4> QED BY <1>2, <3>4, <3>5, <3>6, <3>7, <4>1, <4>2 DEF AtPairs, ContentOn, c
    <3> QED BY <3>3, <3>4, <3>8 DEF InputInv, Place
  <2> QED BY <2>5, <2>6
<1> QED BY <1>7, <1>8

(* A record of pairs, without its padding.                                 *)
LEMMA UnpaddedLemma ==
  ASSUME NEW s \in Seq(Symbol), s # <<>>, \A k \in 1..Len(s) : s[k].kind # "padding",
         NEW i \in Nat, NEW pad \in {0, 1}
  PROVE  Unpadded(s \o PadOf(i, pad)) = s
<1>1. CASE pad = 0
  <2>1. s \o PadOf(i, pad) = s
    BY <1>1, ConcatEmptySeq DEF PadOf
  <2>2. Len(s) \in 1..Len(s)
    BY EmptySeq
  <2> QED BY <2>1, <2>2 DEF Unpadded, Last
<1>2. CASE pad = 1
  <2>1. PICK x : x = Sym("padding", i, 0, 0, 0)
    OBVIOUS
  <2>2. x \in Symbol /\ x.kind = "padding" /\ PadOf(i, pad) = <<x>>
    <3>1. Sym("padding", i, 0, 0, 0) \in Symbol
      BY SymLemma
    <3> QED BY <1>2, <2>1, <3>1 DEF PadOf, Sym
  <2>3. s \o <<x>> = Append(s, x)
    BY <2>2, AppendIsConcat
  <2>4. Last(Append(s, x)) = x /\ Front(Append(s, x)) = s
    <3>1. Len(Append(s, x)) = Len(s) + 1 /\ Append(s, x)[Len(s) + 1] = x
      BY <2>2, AppendProperties
    <3>2. SubSeq(Append(s, x), 1, Len(s)) = s
      BY <2>2
    <3>3. Len(s) + 1 - 1 = Len(s)
      BY LenProperties
    <3> QED BY <3>1, <3>2, <3>3 DEF Last, Front
  <2> QED BY <2>2, <2>3, <2>4 DEF Unpadded
<1> QED BY <1>1, <1>2

LEMMA TakesPairsLemma ==
  ASSUME InputInv, TakesPairs
  PROVE  InputInv'
<1>1. /\ InputTypeOK /\ AtPairs /\ Fresh /\ input \in Seq(Symbol) /\ reader \in Reader
      /\ sent \in Seq(Requests) /\ reader.phase = "pairs" /\ reader.want \in Nat
  BY DEF InputInv, Place, TakesPairs, InputTypeOK, AtPairs, Reader
<1>2. PICK i : i = reader.req
  OBVIOUS
<1>3. PICK n \in Nat :
        /\ TakenTo(n) /\ n < Len(sent[i].params)
        /\ reader.want = Len(sent[i].params[n + 1]) + sent[i].pad /\ reader.want <= MaxLength
        /\ Ahead(ContentOn(sent, i, n))
  BY <1>1, <1>2 DEF AtPairs, ContentOn
<1>4. i \in 1..Len(sent) /\ i \in Nat /\ sent[i] \in Requests /\ sent[i].pad \in {0, 1}
      /\ Len(sent[i].params) \in Nat
  <2>1. i \in 1..Len(sent)
    BY <1>2, <1>3 DEF TakenTo
  <2> QED BY <1>1, <2>1, SentLemma, RequestLemma
<1>5. n \in 0..(Len(sent[i].params) - 1) /\ n + 1 \in 1..Len(sent[i].params)
  BY <1>3, <1>4
<1>6. PICK c : c = sent[i].params[n + 1]
  OBVIOUS
<1>7. PICK u : u = Upto(sent[i].params, n)
  OBVIOUS
<1>8. PICK p : p = PadOf(i, sent[i].pad)
  OBVIOUS
<1>9. PICK s : s = Symbols(c, i, u)
  OBVIOUS
<1>10. PICK b : b = ParamsOn(sent, i, n + 1)
  OBVIOUS
<1>11. /\ s \in Seq(Symbol) /\ Len(s) = Len(c) /\ p \in Seq(Symbol) /\ Len(p) = sent[i].pad
       /\ b \in Seq(Symbol) /\ Len(c) \in Nat \ {0} /\ c \in Seq({"pair", "part"}) /\ c \in Seq(Kinds)
       /\ u \in Nat /\ Upto(sent[i].params, n + 1) = u + Len(c)
       /\ Ahead((s \o p) \o b)
  BY <1>1, <1>3, <1>4, <1>5, <1>6, <1>7, <1>8, <1>9, <1>10, ContentOnLemma DEF ContentOn
<1>12. PICK a : a = s \o p
  OBVIOUS
<1>13. /\ a \in Seq(Symbol) /\ Len(a) = Len(s) + Len(p)
       /\ \A k \in 1..Len(s) : a[k] = s[k]
       /\ \A k \in 1..Len(p) : a[Len(s) + k] = p[k]
  <2>1. s \in Seq(Symbol) /\ p \in Seq(Symbol)
    BY <1>11
  <2> QED BY ONLY <2>1, <1>12, JoinLemma
<1>14. Len(a) = reader.want /\ Len(a) <= Len(input)
  BY <1>1, <1>3, <1>6, <1>11, <1>13 DEF TakesPairs, Whole
<1>15. Took(Len(a)) = a /\ Rest(Len(a)) \in Seq(Symbol) /\ Still(Rest(Len(a)), b)
  BY <1>1, <1>11, <1>12, <1>13, <1>14, StillTakes
<1>16. /\ input' = Rest(Len(a)) /\ UNCHANGED <<eof, sent, given, left>> /\ input' \in Seq(Symbol)
       /\ reader' = IF \E k \in DOMAIN a : a[k].kind = "part"
                    THEN [reader EXCEPT !.phase = "closed", !.refused = TRUE, !.keep = FALSE]
                    ELSE [reader EXCEPT !.phase = "params", !.want = 0, !.env = @ \o Unpadded(a)]
  BY <1>14, <1>15 DEF TakesPairs
<1>17. \A k \in 1..Len(c) : a[k] = Sym(c[k], i, u + k, 0, 0)
  BY <1>4, <1>9, <1>11, <1>13, SymbolsLemma, ZenonT(30)
<1>18. \A k \in 1..Len(c) : a[k].kind = c[k]
  <2> SUFFICES ASSUME NEW k \in 1..Len(c) PROVE a[k].kind = c[k]
    OBVIOUS
  <2>1. PICK x : x = c[k]
    OBVIOUS
  <2>2. a[k] = Sym(x, i, u + k, 0, 0)
    BY <1>17, <2>1
  <2> QED BY <2>1, <2>2 DEF Sym
<1>19. n + 1 \in DOMAIN sent[i].params
  BY <1>4, <1>5, RequestLemma, LenProperties
<1>20. CASE \E k \in DOMAIN a : a[k].kind = "part"
  <2>1. PICK k \in DOMAIN a : a[k].kind = "part"
    BY <1>20
  <2>2. k \in 1..Len(c)
    <3>1. k \in 1..Len(a)
      BY <2>1, <1>13, LenProperties
    <3>2. CASE k > Len(c)
      <4>1. sent[i].pad = 1 /\ Len(p) = 1 /\ k = Len(s) + 1
        <5>1. PICK m \in Nat, q \in {0, 1} : m = Len(c) /\ q = sent[i].pad
          BY <1>4, <1>11
        <5>2. Len(s) = m /\ Len(p) = q /\ Len(a) = m + q
          BY <1>11, <1>13, <5>1
        <5>3. k \in 1..m + q /\ k > m
          BY <3>1, <3>2, <5>1, <5>2
        <5>4. q = 1 /\ k = m + 1
          BY ONLY <5>1, <5>3
        <5> QED BY ONLY <5>1, <5>2, <5>4, Zenon
      <4>2. a[k] = p[1]
        BY <4>1, <1>13
      <4>3. p = <<Sym("padding", i, 0, 0, 0)>>
        BY <1>8, <4>1 DEF PadOf
      <4>4. a[k].kind = "padding"
        BY <4>2, <4>3 DEF Sym
      <4> QED BY <2>1, <4>4
    <3> QED BY <1>11, <1>13, <3>1, <3>2
  <2>3. c[k] = "part"
    BY <1>18, <2>1, <2>2
  <2>4. k \in DOMAIN c
    BY <1>11, <2>2, LenProperties
  <2>5. "part" \in Range(c)
    BY <2>3, <2>4 DEF Range
  <2>6. Malformed(sent[i])
    BY <1>6, <1>19, <2>5 DEF Malformed
  <2>7. Excused
    BY <1>4, <2>6 DEF Excused
  <2>8. reader' = [reader EXCEPT !.phase = "closed", !.refused = TRUE, !.keep = FALSE]
    BY <1>16, <1>20
  <2>9. reader' \in Reader /\ reader'.phase = "closed" /\ reader'.ignored = reader.ignored
    BY <1>1, <2>8 DEF Reader
  <2> QED BY <1>16, <2>7, <2>9, ClosedAt
<1>21. CASE ~ \E k \in DOMAIN a : a[k].kind = "part"
  <2>1. \A k \in 1..Len(c) : c[k] = "pair"
    <3> SUFFICES ASSUME NEW k \in 1..Len(c) PROVE c[k] = "pair"
      OBVIOUS
    <3>1. k \in DOMAIN a
      BY <1>11, <1>13, LenProperties
    <3>2. c[k] # "part"
      BY <1>18, <1>21, <3>1
    <3>3. c[k] \in {"pair", "part"}
      BY <1>11, ElementOfSeq
    <3> QED BY <3>2, <3>3
  <2>2. s = Run("pair", i, u, Len(c))
    BY <1>4, <1>9, <1>11, <2>1, SymbolsRun DEF Kinds
  <2>3. Unpadded(a) = s
    <3>1. \A k \in 1..Len(s) : s[k].kind # "padding"
      BY <1>11, <1>13, <1>18, <2>1
    <3>2. s # <<>>
      BY <1>11, EmptySeq
    <3> QED BY <1>4, <1>8, <1>11, <1>12, <3>1, <3>2, UnpaddedLemma
  <2>4. reader' = [reader EXCEPT !.phase = "params", !.want = 0, !.env = @ \o s]
    BY <1>16, <1>21, <2>3
  <2>5. reader.env = All("pair", i, u) /\ n \in 0..Len(sent[i].params)
        /\ sent[i].kind = "begin" /\ sent[i].known
        /\ \A m \in 1..n : Len(sent[i].params[m]) + sent[i].pad <= MaxLength
                           /\ "part" \notin Range(sent[i].params[m])
    BY <1>2, <1>3, <1>7 DEF TakenTo
  <2>6. reader.env \o s = All("pair", i, Upto(sent[i].params, n + 1))
    <3>1. PICK l \in Nat : l = Len(c)
      BY <1>11
    <3>2. "pair" \in Kinds /\ 0 \in Nat /\ 0 + u = u /\ u + l \in Nat
      BY <1>11, <3>1 DEF Kinds
    <3>3. RunsJoin("pair", i, 0, u, l)
      BY <1>4, <1>11, <3>1, <3>2, RunsLemma
    <3>4. All("pair", i, u) = Run("pair", i, 0, u) /\ All("pair", i, u + l) = Run("pair", i, 0, u + l)
      BY <1>11, <3>2, AllLemma
    <3>5. Run("pair", i, 0, u) \o Run("pair", i, u, l) = Run("pair", i, 0, u + l)
      BY <3>2, <3>3 DEF RunsJoin
    <3> QED BY <1>11, <2>2, <2>5, <3>1, <3>4, <3>5
  <2>7. reader.env \o s \in Seq(Symbol) /\ reader.env \in Seq(Symbol)
    <3>1. reader.env \in Seq(Symbol)
      BY <1>1 DEF Reader
    <3> QED BY <1>11, <3>1, ConcatProperties
  <2>8. InputTypeOK'
    <3>1. PICK e \in Seq(Symbol) : e = reader.env \o s
      BY <2>7
    <3>2. reader' = [reader EXCEPT !.phase = "params", !.want = 0, !.env = e]
      BY <2>4, <3>1
    <3>3. reader' \in Reader
      BY ONLY <1>1, <3>2, e \in Seq(Symbol) DEF Reader
    <3> QED BY <1>1, <1>16, <3>3 DEF InputTypeOK
  <2>9. /\ reader'.phase = "params" /\ reader'.req = i /\ reader'.env = reader.env \o s
        /\ Fresh'
    BY <1>1, <1>2, <1>16, <2>4 DEF Reader, Fresh
  <2>10. TakenTo(n + 1)'
    <3>1. n + 1 \in 0..Len(sent[i].params)
      BY <1>4, <1>5
    <3>2. \A m \in 1..(n + 1) : Len(sent[i].params[m]) + sent[i].pad <= MaxLength
                                /\ "part" \notin Range(sent[i].params[m])
      <4> SUFFICES ASSUME NEW m \in 1..(n + 1)
                   PROVE  Len(sent[i].params[m]) + sent[i].pad <= MaxLength
                          /\ "part" \notin Range(sent[i].params[m])
        OBVIOUS
      <4>1. CASE m \in 1..n
        BY <2>5, <4>1
      <4>2. CASE m = n + 1
        <5>1. "part" \notin Range(c)
          BY <1>11, <2>1, LenProperties DEF Range
        <5> QED BY <1>3, <1>6, <4>2, <5>1
      <4> QED BY <4>1, <4>2
    <3> QED BY <1>4, <1>16, <2>5, <2>6, <2>9, <3>1, <3>2 DEF TakenTo
  <2>11. Ahead(ParamsOn(sent, reader.req, n + 1))'
    BY <1>10, <1>15, <1>16, <2>9 DEF Ahead, Still
  <2>12. AtParams'
    BY <2>9, <2>10, <2>11 DEF AtParams
  <2> QED BY <2>8, <2>9, <2>12 DEF InputInv, Place
<1> QED BY <1>20, <1>21

-----------------------------------------------------------------------------
(* fcgi_read *)

InBody == reader.phase \in {"work", "reading", "padding"}

LEMMA BodyFacts ==
  ASSUME InputInv, InBody, NEW i, i = reader.req
  PROVE  /\ AtBody /\ i \in 1..Len(sent) /\ i \in Nat /\ sent[i] \in Requests /\ sent \in Seq(Requests)
         /\ TakenTo(Len(sent[i].params)) /\ reader \in Reader
         /\ input \in Seq(Symbol) /\ given \in Seq(Symbol) /\ reader.piece \in Seq(Symbol)
         /\ sent[i].pad \in {0, 1} /\ sent[i].endPad \in {0, 1} /\ Len(sent[i].body) \in Nat
         /\ \A n \in 1..Len(sent[i].body) : sent[i].body[n] \in Nat \ {0}
<1>1. AtBody /\ InputTypeOK
  BY DEF InputInv, Place, InBody
<1>2. TakenTo(Len(sent[i].params)) /\ i \in 1..Len(sent)
  BY <1>1 DEF AtBody, TakenTo
<1>3. i \in Nat /\ sent[i] \in Requests /\ sent \in Seq(Requests)
  BY <1>1, <1>2, SentLemma
<1>4. reader \in Reader /\ reader.piece \in Seq(Symbol)
  BY <1>1 DEF InputTypeOK, Reader
<1> QED BY <1>1, <1>2, <1>3, <1>4, RequestLemma DEF InputTypeOK

LEMMA SizeLemma ==
  ASSUME NEW i, i = reader.req, sent[i] \in Requests
  PROVE  /\ Size(0) = 0 /\ Size(Len(sent[i].body)) = Length(sent[i]) /\ Length(sent[i]) \in Nat
         /\ \A n \in 0..Len(sent[i].body) : Size(n) \in 0..Length(sent[i])
         /\ \A n \in 1..Len(sent[i].body) : Size(n) = Size(n - 1) + sent[i].body[n]
<1> DEFINE bs == BodyOf(sent[i])
<1>1. /\ bs \in Seq(Seq(Kinds)) /\ Len(bs) = Len(sent[i].body)
      /\ \A n \in 1..Len(sent[i].body) : Len(bs[n]) = sent[i].body[n]
  BY BodyOfLemma
<1>2. Length(sent[i]) = Total(bs)
  BY DEF Length
<1>3. \A n : Size(n) = Upto(bs, n)
  BY DEF Size
<1> HIDE DEF bs
<1>4. /\ Total(bs) = Upto(bs, Len(bs)) /\ Upto(bs, 0) = 0
      /\ \A n \in 0..Len(bs) : Upto(bs, n) \in 0..Total(bs)
      /\ \A n \in 1..Len(bs) : Upto(bs, n) = Upto(bs, n - 1) + Len(bs[n])
      /\ Total(bs) \in Nat
  BY <1>1, UptoLemma
<1> QED BY <1>1, <1>2, <1>3, <1>4

(* What is in front of a run is a run.                                     *)
LEMMA FrontOfAll ==
  ASSUME NEW i \in Nat, NEW x \in Nat, NEW a \in Seq(Symbol), NEW b \in Seq(Symbol),
         a \o b = All("byte", i, x)
  PROVE  a = All("byte", i, Len(a)) /\ Len(a) \in 0..x
<1>1. /\ Len(a \o b) = Len(a) + Len(b)
      /\ \A k \in 1..Len(a) : (a \o b)[k] = a[k]
  <2>1. a \in Seq(Symbol) /\ b \in Seq(Symbol)
    OBVIOUS
  <2> QED BY ONLY <2>1, JoinLemma
<1>2. Len(a) \in Nat /\ Len(b) \in Nat
  BY LenProperties
<1>3. "byte" \in Kinds
  BY DEF Kinds
<1>4. PICK l \in Nat : l = Len(a)
  BY <1>2
<1>5. /\ All("byte", i, x) \in Seq(Symbol) /\ Len(All("byte", i, x)) = x
      /\ \A k \in 1..x : All("byte", i, x)[k] = Sym("byte", i, k, 0, 0)
  BY <1>3, AllIs
<1>6. /\ All("byte", i, l) \in Seq(Symbol) /\ Len(All("byte", i, l)) = l
      /\ \A k \in 1..l : All("byte", i, l)[k] = Sym("byte", i, k, 0, 0)
  BY <1>3, AllIs
<1>7. l <= x
  BY <1>1, <1>2, <1>4, <1>5
<1>8. \A k \in 1..l : a[k] = All("byte", i, l)[k]
  <2> SUFFICES ASSUME NEW k \in 1..l PROVE a[k] = All("byte", i, l)[k]
    OBVIOUS
  <2>1. k \in 1..x /\ k \in 1..Len(a)
    BY <1>4, <1>5, <1>7
  <2> QED BY <1>1, <1>5, <1>6, <2>1
<1>9. a = All("byte", i, l)
  <2>1. PICK y : y = All("byte", i, l)
    OBVIOUS
  <2>2. y \in Seq(Symbol) /\ Len(y) = Len(a) /\ \A k \in 1..Len(a) : a[k] = y[k]
    BY <1>4, <1>6, <1>8, <2>1
  <2>3. a = y
    BY <2>2, SeqEqual
  <2> QED BY <2>1, <2>3
<1> QED BY <1>4, <1>7, <1>9

LEMMA RejoinLemma ==
  ASSUME NEW S, NEW s \in Seq(S), NEW r \in 0..Len(s)
  PROVE  SubSeq(s, 1, r) \o Past(s, r) = s
<1>1. PICK a : a = SubSeq(s, 1, r)
  OBVIOUS
<1>2. PICK b : b = Past(s, r)
  OBVIOUS
<1>3. a \in Seq(S) /\ b \in Seq(S) /\ Len(a) = r /\ Len(b) = Len(s) - r
      /\ (\A k \in 1..r : a[k] = s[k]) /\ (\A k \in 1..(Len(s) - r) : b[k] = s[r + k])
  BY <1>1, <1>2, SplitLemma
<1>4. PICK z : z = a \o b
  OBVIOUS
<1>5. /\ z \in Seq(S) /\ Len(z) = Len(a) + Len(b)
      /\ \A k \in 1..Len(a) : z[k] = a[k]
      /\ \A k \in 1..Len(b) : z[Len(a) + k] = b[k]
  <2>1. a \in Seq(S) /\ b \in Seq(S)
    BY <1>3
  <2> QED BY ONLY <2>1, <1>4, JoinLemma
<1>6. Len(s) \in Nat /\ r \in Nat /\ r <= Len(s)
  BY LenProperties
<1>7. Len(z) = Len(s)
  BY <1>3, <1>5, <1>6
<1>8. \A k \in 1..Len(s) : z[k] = s[k]
  <2> SUFFICES ASSUME NEW k \in 1..Len(s) PROVE z[k] = s[k]
    OBVIOUS
  <2>1. CASE k <= r
    BY <1>3, <1>5, <1>6, <2>1
  <2>2. CASE k > r
    <3>1. PICK j : j = k - r
      OBVIOUS
    <3>2. j \in 1..(Len(s) - r) /\ k = r + j
      BY <1>6, <2>2, <3>1
    <3> QED BY <1>3, <1>5, <3>2
  <2>3. k <= r \/ k > r
    BY <1>6
  <2> QED BY <2>1, <2>2, <2>3
<1>9. z = s
  BY <1>5, <1>7, <1>8, SeqEqual
<1> QED BY <1>1, <1>2, <1>4, <1>9

(* What a call gives when it gives only the first of what it has.          *)
LEMMA GivesSome ==
  ASSUME given \in Seq(Symbol), reader.piece \in Seq(Symbol), NEW i \in Nat, NEW x \in Nat,
         i = reader.req, Got(x), NEW r \in 0..Len(reader.piece)
  PROVE  \E y \in 0..x : given \o SubSeq(reader.piece, 1, r) = All("byte", i, y)
<1>1. PICK s : s = reader.piece
  OBVIOUS
<1>2. PICK g : g = given
  OBVIOUS
<1>3. g \in Seq(Symbol) /\ s \in Seq(Symbol) /\ r \in 0..Len(s) /\ g \o s = All("byte", i, x)
  BY <1>1, <1>2 DEF Got
<1>4. PICK a : a = SubSeq(s, 1, r)
  OBVIOUS
<1>5. PICK b : b = Past(s, r)
  OBVIOUS
<1>6. a \in Seq(Symbol) /\ b \in Seq(Symbol) /\ Len(a) = r /\ Len(b) = Len(s) - r
      /\ (\A k \in 1..r : a[k] = s[k]) /\ (\A k \in 1..(Len(s) - r) : b[k] = s[r + k])
  BY <1>3, <1>4, <1>5, SplitLemma
<1>7. a \o b = s
  BY <1>3, <1>4, <1>5, RejoinLemma
<1>8. (g \o a) \o b = All("byte", i, x)
  <2>1. Assoc(g, a, b)
    BY <1>3, <1>6, GroupLemma
  <2> QED BY <1>3, <1>7, <2>1 DEF Assoc
<1>9. PICK f : f = g \o a
  OBVIOUS
<1>10. f \in Seq(Symbol)
  BY <1>3, <1>6, <1>9, ConcatProperties
<1>11. f = All("byte", i, Len(f)) /\ Len(f) \in 0..x
  BY <1>6, <1>8, <1>9, <1>10, FrontOfAll
<1> QED BY <1>1, <1>2, <1>4, <1>9, <1>11

LEMMA GivesNothing ==
  ASSUME given \in Seq(Symbol), reader.piece \in Seq(Symbol), NEW i \in Nat, NEW x \in Nat,
         i = reader.req, Got(x)
  PROVE  \E y \in 0..x : given \o <<>> = All("byte", i, y)
<1>1. 0 \in 0..Len(reader.piece)
  BY LenProperties
<1>2. SubSeq(reader.piece, 1, 0) = <<>>
  BY LenProperties
<1> QED BY <1>1, <1>2, GivesSome

LEMMA BodyStays ==
  ASSUME InputInv, InBody, UNCHANGED <<eof, sent, left>>,
         input' \in Seq(Symbol), given' \in Seq(Symbol), reader' \in Reader,
         reader'.req = reader.req, reader'.env = reader.env, reader'.refused = reader.refused,
         InBody',
         reader'.phase = "work" => reader'.piece = <<>> /\ reader'.ret = 0,
         reader'.phase = "reading" => reader'.want > 0 /\ reader'.asked,
         reader'.over => reader'.phase = "work" /\ (HasBody' \/ eof \/ Padded(sent[reader.req])),
         IF reader'.phase = "padding" THEN \E n \in Nat : AtPadding(n)'
         ELSE (~ reader'.over /\ Within') \/ Ended' \/ Lost' \/ Broken'
  PROVE  InputInv'
<1>1. InputTypeOK /\ AtBody
  BY DEF InputInv, Place, InBody
<1>2. InputTypeOK'
  BY <1>1 DEF InputTypeOK
<1>3. TakenTo(Len(sent[reader.req].params))'
  BY <1>1 DEF AtBody, TakenTo
<1>4. reader'.over => reader'.phase = "work" /\ (HasBody \/ eof \/ Padded(sent[reader.req]))'
  BY DEF Padded
<1>5. AtBody'
  BY <1>1, <1>3, <1>4 DEF AtBody
<1> QED BY <1>2, <1>5 DEF InputInv, Place, InBody

(* The program has the whole of the body when it got the last of it.       *)
LEMMA HasBodyIs ==
  ASSUME NEW i \in Nat, i = reader.req, sent[i] \in Requests, given \in Seq(Symbol),
         reader.piece = <<>>, Got(Length(sent[i]))
  PROVE  HasBody
<1>1. PICK x \in Nat : x = Length(sent[i])
  BY SizeLemma
<1>2. given \o <<>> = given
  BY ConcatEmptySeq
<1>3. Len(All("byte", i, x)) = x
  BY AllIs DEF Kinds
<1> QED BY <1>1, <1>2, <1>3 DEF Got, HasBody

LEMMA AsksLemma ==
  ASSUME InputInv, NEW n \in Asked, Asks(n)
  PROVE  InputInv'
<1>1. PICK i : i = reader.req
  OBVIOUS
<1>2. InBody /\ reader.phase = "work" /\ ~ reader.over
  BY DEF Asks, InBody
<1>3. /\ AtBody /\ i \in Nat /\ sent[i] \in Requests /\ reader \in Reader
      /\ input \in Seq(Symbol) /\ given \in Seq(Symbol)
  BY <1>1, <1>2, BodyFacts
<1>4. /\ n \in Nat \ {0} /\ UNCHANGED <<input, eof, sent, given, left>>
      /\ reader' = [reader EXCEPT !.phase = "reading", !.want = n, !.asked = TRUE]
  BY InputAssumption DEF Asks
<1>5. /\ reader' \in Reader /\ reader'.req = reader.req /\ reader'.env = reader.env
      /\ reader'.refused = reader.refused /\ reader'.phase = "reading" /\ reader'.want > 0
      /\ reader'.asked /\ reader'.over = reader.over /\ reader'.len = reader.len
      /\ reader'.pad = reader.pad /\ reader'.piece = reader.piece
  <2>1. reader \in Reader /\ n \in Nat /\ n > 0
    BY <1>3, <1>4
  <2>2. reader' = [reader EXCEPT !.phase = "reading", !.want = n, !.asked = TRUE]
    BY <1>4
  <2>3. reader' \in Reader
    BY ONLY <2>1, <2>2 DEF Reader
  <2> QED BY ONLY <2>1, <2>2, <2>3 DEF Reader
<1>6. \A x : Got(x) => Got(x)'
  BY <1>4, <1>5 DEF Got
<1>7. \A x : Size(x)' = Size(x)
  BY <1>4, <1>5 DEF Size
<1>8. ~ Ended
  <2> SUFFICES ASSUME Ended PROVE FALSE
    OBVIOUS
  <2>1. reader.asked /\ Got(Length(sent[i])) /\ reader.piece = <<>>
    BY <1>1, <1>2, <1>3 DEF Ended, AtBody
  <2>2. HasBody
    BY <1>1, <1>3, <2>1, HasBodyIs
  <2> QED BY <2>1, <2>2 DEF Asks
<1>9. ~ Broken
  BY <1>2 DEF Broken
<1>10. CASE Lost
  <2>1. Lost'
    <3>1. GotSome'
      BY <1>4, <1>5, <1>6, <1>10 DEF Lost, GotSome
    <3> QED BY <1>4, <1>5, <1>10, <3>1 DEF Lost, Dry
  <2> QED BY <1>2, <1>3, <1>4, <1>5, <2>1, BodyStays DEF InBody
<1>11. CASE Within
  <2>1. Within'
    <3>1. ASSUME NEW m \in Nat, InContent(m) PROVE Within'
      <4>1. InContent(m)'
        BY <1>4, <1>5, <1>6, <1>7, <3>1 DEF InContent, Ahead, Still
      <4> QED BY <4>1 DEF Within
    <3>2. ASSUME NEW m \in Nat, AtRecord(m) PROVE Within'
      <4>1. AtRecord(m)'
        BY <1>4, <1>5, <1>6, <1>7, <3>2 DEF AtRecord, Ahead, Still
      <4> QED BY <4>1 DEF Within
    <3>3. ASSUME Misplaced PROVE Within'
      <4>1. Misplaced'
        BY <1>4, <1>5, <1>6, <3>3 DEF Misplaced, Padded
      <4> QED BY <4>1 DEF Within
    <3> QED BY <1>11, <3>1, <3>2, <3>3 DEF Within
  <2> QED BY <1>2, <1>3, <1>4, <1>5, <2>1, BodyStays DEF InBody
<1> QED BY <1>2, <1>3, <1>8, <1>9, <1>10, <1>11 DEF AtBody

(* What is read of the body next is a header, or there is none.            *)
LEMMA AtRecordOfBody ==
  ASSUME InputInv, InBody, NEW i, i = reader.req, NEW n \in Nat, AtRecord(n)
  PROVE  /\ n \in 0..Len(sent[i].body)
         /\ input = <<>> => eof
         /\ input # <<>> => Tail(input) \in Seq(Symbol)
         /\ input # <<>> /\ n = Len(sent[i].body) =>
              /\ Head(input) = Sym("STDIN", i, 0, 0, sent[i].endPad)
              /\ Still(Tail(input), PadOf(i, sent[i].endPad) \o Later(sent, i))
         /\ input # <<>> /\ n # Len(sent[i].body) =>
              /\ n + 1 \in 1..Len(sent[i].body)
              /\ Head(input) = Sym("STDIN", i, 0, sent[i].body[n + 1], sent[i].pad)
              /\ Still(Tail(input), (Run("byte", i, Size(n), sent[i].body[n + 1])
                                       \o PadOf(i, sent[i].pad)) \o BodyOn(sent, i, n + 1))
<1>1. /\ i \in 1..Len(sent) /\ i \in Nat /\ sent[i] \in Requests /\ sent \in Seq(Requests)
      /\ input \in Seq(Symbol)
      /\ sent[i].pad \in {0, 1} /\ sent[i].endPad \in {0, 1} /\ Len(sent[i].body) \in Nat
      /\ \A k \in 1..Len(sent[i].body) : sent[i].body[k] \in Nat \ {0}
  BY BodyFacts
<1>2. n \in 0..Len(sent[i].body) /\ Ahead(BodyOn(sent, i, n))
  BY DEF AtRecord
<1>3. CASE n = Len(sent[i].body)
  <2> DEFINE h == Sym("STDIN", i, 0, 0, sent[i].endPad)
             z == PadOf(i, sent[i].endPad) \o Later(sent, i)
  <2>1. BodyEnds(sent, i)
    BY <1>1, BodyOnLemma
  <2>2. Ahead(<<h>> \o z)
    BY <1>2, <1>3, <2>1 DEF BodyEnds
  <2>3. h \in Symbol
    BY <1>1, SymLemma DEF HeaderKind
  <2>4. z \in Seq(Symbol)
    <3>1. Later(sent, i) \in Seq(Symbol)
      BY <1>1, LaterLemma
    <3>2. PadOf(i, sent[i].endPad) \in Seq(Symbol)
      BY <1>1, PadOfLemma
    <3> QED BY <3>1, <3>2, ConcatProperties
  <2> HIDE DEF h, z
  <2>5. /\ input = <<>> => eof
        /\ input # <<>> => /\ Head(input) = h /\ Tail(input) \in Seq(Symbol)
                           /\ Still(Tail(input), z)
    BY <1>1, <2>2, <2>3, <2>4, StillHead
  <2> QED BY <1>2, <1>3, <2>5 DEF h, z
<1>4. CASE n # Len(sent[i].body)
  <2> DEFINE h == Sym("STDIN", i, 0, sent[i].body[n + 1], sent[i].pad)
             z == (Run("byte", i, Size(n), sent[i].body[n + 1]) \o PadOf(i, sent[i].pad))
                    \o BodyOn(sent, i, n + 1)
  <2>1. n \in 0..(Len(sent[i].body) - 1) /\ n + 1 \in 1..Len(sent[i].body)
        /\ n + 1 \in 0..Len(sent[i].body)
    BY <1>1, <1>2, <1>4
  <2>2. BodyGoesOn(sent, i, n)
    BY <1>1, <2>1, BodyOnLemma
  <2>3. Ahead(<<h>> \o z)
    BY <1>2, <2>2 DEF BodyGoesOn, Size
  <2>4. PICK l : l = sent[i].body[n + 1]
    OBVIOUS
  <2>5. l \in Nat \ {0}
    BY <1>1, <2>1, <2>4
  <2>6. h \in Symbol
    BY <1>1, <2>4, <2>5, SymLemma DEF HeaderKind
  <2>7. z \in Seq(Symbol)
    <3>1. PICK s : s = Size(n)
      OBVIOUS
    <3>2. s \in Nat
      BY <1>1, <1>2, <3>1, SizeLemma
    <3>3. Run("byte", i, s, l) \in Seq(Symbol)
      BY <1>1, <2>5, <3>2, RunLemma DEF Kinds
    <3>4. PadOf(i, sent[i].pad) \in Seq(Symbol)
      BY <1>1, PadOfLemma
    <3>5. BodyOn(sent, i, n + 1) \in Seq(Symbol)
      BY <1>1, <2>1, BodyOnLemma
    <3>6. Run("byte", i, s, l) \o PadOf(i, sent[i].pad) \in Seq(Symbol)
      BY <3>3, <3>4, ConcatProperties
    <3>7. (Run("byte", i, s, l) \o PadOf(i, sent[i].pad)) \o BodyOn(sent, i, n + 1) \in Seq(Symbol)
      BY <3>5, <3>6, ConcatProperties
    <3> QED BY <2>4, <3>1, <3>7
  <2> HIDE DEF h, z
  <2>8. /\ input = <<>> => eof
        /\ input # <<>> => /\ Head(input) = h /\ Tail(input) \in Seq(Symbol)
                           /\ Still(Tail(input), z)
    BY <1>1, <2>3, <2>6, <2>7, StillHead
  <2> QED BY <1>2, <1>4, <2>1, <2>8 DEF h, z
<1> QED BY <1>3, <1>4

LEMMA GotSomeHere ==
  ASSUME InputInv, InBody, NEW x \in Nat, Got(x), x <= Length(sent[reader.req])
  PROVE  GotSome
<1>1. Length(sent[reader.req]) \in Nat
  BY BodyFacts, SizeLemma
<1> QED BY <1>1 DEF GotSome

LEMMA WithinGotSome ==
  ASSUME InputInv, InBody, Within \/ Ended \/ Lost \/ Broken
  PROVE  GotSome
<1>1. PICK i : i = reader.req
  OBVIOUS
<1>2. /\ i \in Nat /\ sent[i] \in Requests /\ Len(sent[i].body) \in Nat
      /\ reader \in Reader
      /\ \A k \in 1..Len(sent[i].body) : sent[i].body[k] \in Nat \ {0}
  BY <1>1, BodyFacts
<1>3. /\ Length(sent[i]) \in Nat
      /\ \A n \in 0..Len(sent[i].body) : Size(n) \in 0..Length(sent[i])
      /\ \A n \in 1..Len(sent[i].body) : Size(n) = Size(n - 1) + sent[i].body[n]
  BY <1>1, <1>2, SizeLemma
<1>4. ASSUME NEW n \in Nat, InContent(n) PROVE GotSome
  <2>1. n \in 1..Len(sent[i].body) /\ reader.len \in 1..sent[i].body[n] /\ Got(Size(n) - reader.len)
    BY <1>1, <1>4 DEF InContent
  <2>2. PICK l \in Nat : l = reader.len
    BY <1>2 DEF Reader
  <2>3. PICK b \in Nat : b = sent[i].body[n]
    BY <1>2, <2>1
  <2>4. n \in 0..Len(sent[i].body) /\ n - 1 \in 0..Len(sent[i].body)
    BY <1>2, <2>1
  <2>5. PICK s \in Nat : s = Size(n)
    BY <1>3, <2>4
  <2>6. PICK t \in Nat : t = Size(n - 1)
    BY <1>3, <2>4
  <2>7. s = t + b /\ s <= Length(sent[i]) /\ l <= b
    BY <1>3, <2>1, <2>2, <2>3, <2>4, <2>5, <2>6
  <2>8. s - l \in 0..Length(sent[i])
    BY <1>3, <2>7
  <2> QED BY <1>1, <2>1, <2>2, <2>5, <2>8 DEF GotSome
<1>5. ASSUME NEW n \in Nat, AtRecord(n) PROVE GotSome
  BY <1>1, <1>3, <1>5 DEF AtRecord, GotSome
<1>6. CASE Misplaced
  BY <1>1, <1>3, <1>6 DEF Misplaced, GotSome
<1>7. CASE Ended
  BY <1>1, <1>3, <1>7 DEF Ended, GotSome
<1> QED BY <1>4, <1>5, <1>6, <1>7 DEF Within, Lost, Broken

(* A call that fails gives nothing and the connection is not kept.         *)
LEMMA FailsLemma ==
  ASSUME InputInv, reader.phase = "reading", Returns([reader EXCEPT !.keep = FALSE], <<>>),
         UNCHANGED <<eof, sent, left>>, input' \in Seq(Symbol), eof \/ Padded(sent[reader.req])
  PROVE  InputInv'
<1>1. PICK i : i = reader.req
  OBVIOUS
<1>2. InBody
  BY DEF InBody
<1>3. /\ AtBody /\ i \in Nat /\ sent[i] \in Requests /\ reader \in Reader
      /\ given \in Seq(Symbol) /\ reader.piece \in Seq(Symbol)
  BY <1>1, <1>2, BodyFacts
<1>4. GotSome
  BY <1>2, <1>3, WithinGotSome DEF AtBody
<1>5. Length(sent[i]) \in Nat
  BY <1>1, <1>3, SizeLemma
<1>6. PICK x \in 0..Length(sent[i]) : Got(x)
  BY <1>1, <1>4 DEF GotSome
<1>7. PICK y \in 0..x : given \o <<>> = All("byte", i, y)
  <2>1. x \in Nat
    BY <1>5, <1>6
  <2> QED BY <1>1, <1>3, <1>6, <2>1, GivesNothing
<1>8. /\ given' = given \o <<>>
      /\ reader' = [[reader EXCEPT !.keep = FALSE]
                      EXCEPT !.phase = "work", !.want = 0, !.ret = 0, !.piece = <<>>, !.over = TRUE]
  BY DEF Returns
<1>9. /\ reader' \in Reader /\ reader'.req = reader.req /\ reader'.env = reader.env
      /\ reader'.refused = reader.refused /\ reader'.phase = "work" /\ reader'.piece = <<>>
      /\ reader'.ret = 0 /\ reader'.over /\ ~ reader'.keep
  <2>1. reader \in Reader /\ <<>> \in Seq(Symbol)
    BY <1>3
  <2>2. reader' = [[reader EXCEPT !.keep = FALSE]
                     EXCEPT !.phase = "work", !.want = 0, !.ret = 0, !.piece = <<>>, !.over = TRUE]
    BY <1>8
  <2>3. reader' \in Reader
    BY ONLY <2>1, <2>2 DEF Reader
  <2> QED BY ONLY <2>1, <2>2, <2>3 DEF Reader
<1>10. given' \in Seq(Symbol)
  BY <1>3, <1>8, ConcatEmptySeq
<1>11. Got(y)'
  BY <1>1, <1>7, <1>8, <1>9, <1>10, ConcatEmptySeq DEF Got
<1>12. Broken'
  <2>1. y \in 0..Length(sent[i])
    BY <1>5, <1>6, <1>7
  <2>2. GotSome'
    BY <1>1, <1>9, <1>11, <2>1 DEF GotSome
  <2> QED BY <1>9, <2>2 DEF Broken, Padded
<1> QED BY <1>2, <1>9, <1>10, <1>12, BodyStays DEF InBody

LEMMA NoRecordLemma ==
  ASSUME InputInv, NoRecord
  PROVE  InputInv'
<1>1. PICK i : i = reader.req
  OBVIOUS
<1>2. InBody /\ reader.phase = "reading" /\ reader.len = 0
  BY DEF InBody, NoRecord
<1>3. AtBody /\ input \in Seq(Symbol)
  BY <1>1, <1>2, BodyFacts
<1>4. input' \in Seq(Symbol)
  <2>1. input # <<>> => Tail(input) \in Seq(Symbol)
    BY <1>3
  <2> QED BY <1>3, <2>1 DEF NoRecord, HasHeader
<1>5. eof \/ Padded(sent[i])
  <2>1. ASSUME NEW n \in Nat, InContent(n) PROVE FALSE
    BY <1>2, <2>1 DEF InContent
  <2>2. ASSUME NEW n \in Nat, AtRecord(n) PROVE eof
    <3>1. CASE input = <<>>
      BY <1>1, <1>2, <2>2, <3>1, AtRecordOfBody
    <3>2. CASE input # <<>>
      <4>1. Head(input).kind = "STDIN"
        BY <1>1, <1>2, <2>2, <3>2, AtRecordOfBody DEF Sym
      <4> QED BY <3>2, <4>1 DEF NoRecord, HasNoHeader
    <3> QED BY <3>1, <3>2
  <2> QED BY <1>1, <1>2, <1>3, <2>1, <2>2 DEF AtBody, Within, Misplaced, Ended, Lost, Dry, Broken
<1> QED BY <1>1, <1>2, <1>4, <1>5, FailsLemma DEF NoRecord

LEMMA ContentFailsLemma ==
  ASSUME InputInv, ContentFails
  PROVE  InputInv'
<1>1. input \in Seq(Symbol)
  BY DEF InputInv, InputTypeOK
<1> QED BY <1>1, FailsLemma DEF ContentFails

(* The call goes on, or returns with what it has.                          *)
Gives(rd) ==
  /\ given' \in Seq(Symbol) /\ reader' \in Reader
  /\ reader'.req = rd.req /\ reader'.env = rd.env /\ reader'.refused = rd.refused
  /\ reader'.asked = rd.asked /\ reader'.len = rd.len /\ reader'.pad = rd.pad
  /\ given' \o reader'.piece = given \o rd.piece
  /\ reader'.phase \in {"work", "reading"}
  /\ reader'.phase = "work" => reader'.piece = <<>> /\ reader'.ret = 0
  /\ reader'.phase = "reading" => reader'.want > 0 /\ reader'.over = rd.over
  /\ reader'.phase = "work" /\ reader'.over => rd.piece = <<>>

LEMMA ReturnsGives ==
  ASSUME NEW rd \in Reader, given \in Seq(Symbol), Returns(rd, rd.piece)
  PROVE  Gives(rd) /\ reader'.phase = "work"
<1>1. /\ reader' = [rd EXCEPT !.phase = "work", !.want = 0, !.ret = 0, !.piece = <<>>,
                              !.over = (rd.piece = <<>>)]
      /\ given' = given \o rd.piece
  BY DEF Returns
<1>2. rd.piece \in Seq(Symbol) /\ <<>> \in Seq(Symbol)
  BY DEF Reader
<1>3. given' \in Seq(Symbol) /\ given' \o <<>> = given \o rd.piece
  <2>1. given \o rd.piece \in Seq(Symbol)
    BY <1>2, ConcatProperties
  <2> QED BY <1>1, <2>1, ConcatEmptySeq
<1>4. PICK v \in BOOLEAN : v = (rd.piece = <<>>)
  OBVIOUS
<1>5. reader' = [rd EXCEPT !.phase = "work", !.want = 0, !.ret = 0, !.piece = <<>>, !.over = v]
  BY <1>1, <1>4
<1>6. rd \in Reader /\ v \in BOOLEAN /\ <<>> \in Seq(Symbol)
  BY <1>2
<1>7. reader' \in Reader
  BY ONLY <1>5, <1>6 DEF Reader
<1>8. /\ reader'.req = rd.req /\ reader'.env = rd.env /\ reader'.refused = rd.refused
      /\ reader'.asked = rd.asked /\ reader'.len = rd.len /\ reader'.pad = rd.pad
      /\ reader'.phase = "work" /\ reader'.piece = <<>> /\ reader'.ret = 0 /\ reader'.over = v
  BY ONLY <1>5, <1>6 DEF Reader
<1> QED BY <1>3, <1>4, <1>7, <1>8 DEF Gives

LEMMA GoesOnGives ==
  ASSUME NEW rd \in Reader, given \in Seq(Symbol), GoesOn(rd)
  PROVE  Gives(rd)
<1>1. CASE rd.want = 0
  BY <1>1, ReturnsGives DEF GoesOn
<1>2. CASE rd.want # 0
  <2>1. reader' = [rd EXCEPT !.phase = "reading"] /\ given' = given
    BY <1>2 DEF GoesOn
  <2>2. rd \in Reader
    OBVIOUS
  <2>3. reader' \in Reader
    BY ONLY <2>1, <2>2 DEF Reader
  <2>4. /\ reader'.req = rd.req /\ reader'.env = rd.env /\ reader'.refused = rd.refused
        /\ reader'.asked = rd.asked /\ reader'.len = rd.len /\ reader'.pad = rd.pad
        /\ reader'.phase = "reading" /\ reader'.piece = rd.piece /\ reader'.over = rd.over
        /\ reader'.want = rd.want /\ rd.want \in Nat
    BY ONLY <2>1, <2>2 DEF Reader
  <2>5. reader'.want > 0
    BY <1>2, <2>4
  <2> QED BY <2>1, <2>3, <2>4, <2>5 DEF Gives
<1> QED BY <1>1, <1>2

(* What was given and what the call has stays the first of the body.       *)
LEMMA GivesStays ==
  ASSUME InputInv, InBody, NEW rd, Gives(rd), UNCHANGED <<eof, sent, left>>,
         input' \in Seq(Symbol), rd.req = reader.req, rd.env = reader.env,
         rd.refused = reader.refused, rd.asked, ~ rd.over,
         reader'.phase = "work" /\ reader'.over =>
           HasBody' \/ eof \/ Padded(sent[reader.req]),
         (~ reader'.over /\ Within') \/ Ended' \/ Lost'
  PROVE  InputInv'
<1>1. /\ given' \in Seq(Symbol) /\ reader' \in Reader
      /\ reader'.req = reader.req /\ reader'.env = reader.env /\ reader'.refused = reader.refused
      /\ reader'.asked = rd.asked
      /\ reader'.phase \in {"work", "reading"}
      /\ reader'.phase = "work" => reader'.piece = <<>> /\ reader'.ret = 0
      /\ reader'.phase = "reading" => reader'.want > 0 /\ reader'.over = rd.over
  BY DEF Gives
<1>2. reader'.over => reader'.phase = "work"
  BY <1>1
<1>3. reader'.phase # "padding" /\ InBody'
  BY <1>1 DEF InBody
<1> QED BY <1>1, <1>2, <1>3, BodyStays

LEMMA NextRecordLemma ==
  ASSUME InputInv, NextRecord
  PROVE  InputInv'
<1> DEFINE h == Head(input)
<1>1. PICK i : i = reader.req
  OBVIOUS
<1>2. InBody /\ reader.phase = "reading" /\ reader.len = 0
  BY DEF InBody, NextRecord
<1>3. /\ AtBody /\ input \in Seq(Symbol) /\ given \in Seq(Symbol) /\ reader \in Reader
      /\ i \in Nat /\ sent[i] \in Requests /\ reader.piece \in Seq(Symbol)
      /\ sent[i].pad \in {0, 1} /\ sent[i].endPad \in {0, 1} /\ Len(sent[i].body) \in Nat
      /\ \A k \in 1..Len(sent[i].body) : sent[i].body[k] \in Nat \ {0}
  BY <1>1, <1>2, BodyFacts
<1>4. input # <<>> /\ h.kind = "STDIN" /\ input' = Tail(input) /\ UNCHANGED <<eof, sent, left>>
  BY DEF NextRecord, HasHeader
<1>5. ~ reader.over /\ reader.want > 0 /\ reader.asked
  BY <1>2, <1>3 DEF AtBody
<1>6. PICK n \in Nat : AtRecord(n)
  <2>1. ASSUME NEW n \in Nat, InContent(n) PROVE FALSE
    BY <1>2, <2>1 DEF InContent
  <2>2. ~ Misplaced /\ ~ Ended /\ ~ Lost /\ ~ Broken
    BY <1>2, <1>4 DEF Misplaced, Ended, Lost, Dry, Broken
  <2> QED BY <1>2, <1>3, <2>1, <2>2 DEF AtBody, Within
<1>7. /\ n \in 0..Len(sent[i].body) /\ Tail(input) \in Seq(Symbol)
      /\ n = Len(sent[i].body) =>
           /\ h = Sym("STDIN", i, 0, 0, sent[i].endPad)
           /\ Still(Tail(input), PadOf(i, sent[i].endPad) \o Later(sent, i))
      /\ n # Len(sent[i].body) =>
           /\ n + 1 \in 1..Len(sent[i].body)
           /\ h = Sym("STDIN", i, 0, sent[i].body[n + 1], sent[i].pad)
           /\ Still(Tail(input), (Run("byte", i, Size(n), sent[i].body[n + 1])
                                    \o PadOf(i, sent[i].pad)) \o BodyOn(sent, i, n + 1))
  BY <1>1, <1>2, <1>4, <1>6, AtRecordOfBody
<1>8. /\ Size(Len(sent[i].body)) = Length(sent[i]) /\ Length(sent[i]) \in Nat
      /\ \A k \in 0..Len(sent[i].body) : Size(k) \in Nat
      /\ \A k \in 1..Len(sent[i].body) : Size(k) = Size(k - 1) + sent[i].body[k]
  BY <1>1, <1>3, SizeLemma
<1>9. given \o reader.piece = All("byte", i, Size(n))
  BY <1>1, <1>6 DEF AtRecord, Got
<1>10. PICK rd : rd = [reader EXCEPT !.len = h.len, !.pad = h.pad]
  OBVIOUS
<1>11. IF h.len = 0 THEN Returns(rd, rd.piece) ELSE GoesOn(rd)
  BY <1>10 DEF NextRecord
<1> HIDE DEF h
<1>12. ASSUME h.len \in Nat, h.pad \in {0, 1}
       PROVE  /\ rd \in Reader /\ rd.req = reader.req /\ rd.env = reader.env
              /\ rd.refused = reader.refused /\ rd.asked /\ ~ rd.over
              /\ rd.piece = reader.piece /\ rd.len = h.len /\ rd.pad = h.pad
              /\ rd.want = reader.want
  <2>1. PICK x \in Nat : x = h.len
    BY <1>12
  <2>2. PICK y \in {0, 1} : y = h.pad
    BY <1>12
  <2>3. rd = [reader EXCEPT !.len = x, !.pad = y] /\ reader \in Reader
    BY <1>3, <1>10, <2>1, <2>2
  <2>4. rd \in Reader
    BY ONLY <2>3, x \in Nat, y \in {0, 1} DEF Reader
  <2>5. /\ rd.req = reader.req /\ rd.env = reader.env
        /\ rd.refused = reader.refused /\ rd.asked = reader.asked /\ rd.over = reader.over
        /\ rd.piece = reader.piece /\ rd.len = x /\ rd.pad = y
        /\ rd.want = reader.want
    BY ONLY <2>3 DEF Reader
  <2> QED BY <1>5, <2>1, <2>2, <2>4, <2>5
<1>13. CASE n = Len(sent[i].body)
  <2>1. h.len = 0 /\ h.pad \in {0, 1}
    BY <1>3, <1>7, <1>13 DEF Sym
  <2>2. /\ rd \in Reader /\ rd.req = reader.req /\ rd.env = reader.env
        /\ rd.refused = reader.refused /\ rd.asked /\ ~ rd.over
        /\ rd.piece = reader.piece /\ rd.len = 0
    BY <1>12, <2>1
  <2>3. Gives(rd) /\ reader'.phase = "work"
    <3>1. Returns(rd, rd.piece)
      BY <1>11, <2>1
    <3> QED BY <1>3, <2>2, <3>1, ReturnsGives
  <2>4. /\ reader'.req = i /\ reader'.asked /\ reader'.len = 0 /\ reader'.piece = <<>>
        /\ given' \in Seq(Symbol)
        /\ given' \o reader'.piece = All("byte", i, Length(sent[i]))
    BY <1>1, <1>8, <1>9, <1>13, <2>2, <2>3 DEF Gives
  <2>5. HasBody'
    <3>1. PICK x \in Nat : x = Length(sent[i])
      BY <1>8
    <3>2. given' \o <<>> = given'
      BY <2>4, ConcatEmptySeq
    <3>3. Len(All("byte", i, x)) = x
      BY <1>3, AllIs DEF Kinds
    <3>4. Len(given') = Length(sent[i])
      BY <2>4, <3>1, <3>2, <3>3
    <3> QED BY <1>4, <2>4, <3>4 DEF HasBody, Length
  <2>6. Ended'
    <3>1. Got(Length(sent[i]))'
      BY <1>4, <2>4 DEF Got, Length
    <3>2. Ahead(PadOf(i, sent[i].endPad) \o Later(sent, i))'
      BY <1>4, <1>7, <1>13 DEF Ahead, Still
    <3> QED BY <1>4, <2>3, <2>4, <3>1, <3>2 DEF Ended
  <2> QED BY <1>2, <1>4, <1>7, <2>2, <2>3, <2>5, <2>6, GivesStays
<1>14. CASE n # Len(sent[i].body)
  <2>1. PICK m : m = n + 1
    OBVIOUS
  <2>2. /\ m \in 1..Len(sent[i].body) /\ m - 1 = n
        /\ h = Sym("STDIN", i, 0, sent[i].body[m], sent[i].pad)
        /\ Still(Tail(input), (Run("byte", i, Size(n), sent[i].body[m])
                                 \o PadOf(i, sent[i].pad)) \o BodyOn(sent, i, m))
    BY <1>7, <1>14, <2>1
  <2>3. PICK l : l = sent[i].body[m]
    OBVIOUS
  <2>4. l \in Nat \ {0}
    BY <1>3, <2>2, <2>3
  <2>5. h.len = l /\ h.pad = sent[i].pad
    BY <2>2, <2>3 DEF Sym
  <2>6. /\ rd \in Reader /\ rd.req = reader.req /\ rd.env = reader.env
        /\ rd.refused = reader.refused /\ rd.asked /\ ~ rd.over
        /\ rd.piece = reader.piece /\ rd.len = l /\ rd.pad = sent[i].pad
        /\ rd.want = reader.want
    BY <1>3, <1>12, <2>4, <2>5
  <2>7. GoesOn(rd)
    BY <1>11, <2>4, <2>5
  <2>8. Gives(rd)
    BY <1>3, <2>6, <2>7, GoesOnGives
  <2>9. reader'.phase = "reading"
    BY <1>5, <2>6, <2>7 DEF GoesOn, Reader
  <2>10. /\ reader'.req = i /\ reader'.asked /\ reader'.len = l /\ reader'.pad = sent[i].pad
         /\ given' \o reader'.piece = All("byte", i, Size(n)) /\ ~ reader'.over
    BY <1>1, <1>9, <2>6, <2>8, <2>9 DEF Gives
  <2>11. Size(m) - l = Size(n) /\ Size(m)' = Size(m)
    <3>1. m \in Nat /\ m \in 0..Len(sent[i].body)
      BY <1>3, <2>2
    <3>2. Size(m) = Size(n) + l /\ Size(n) \in Nat
      BY <1>7, <1>8, <2>2, <2>3
    <3>3. Size(m)' = Size(m)
      BY <1>1, <1>4, <2>10 DEF Size
    <3> QED BY <2>4, <3>2, <3>3
  <2>12. InContent(m)'
    <3>1. PICK s : s = Size(n)
      OBVIOUS
    <3>2. Got(s)'
      BY <2>10, <3>1 DEF Got
    <3>3. Ahead((Run("byte", i, s, l) \o PadOf(i, sent[i].pad)) \o BodyOn(sent, i, m))'
      BY <1>4, <2>2, <2>3, <3>1 DEF Ahead, Still
    <3>4. m \in 1..Len(sent[i].body) /\ l \in 1..sent[i].body[m]
      BY <2>2, <2>3, <2>4
    <3>5. Got(Size(m) - reader.len)'
      BY <2>10, <2>11, <3>1, <3>2
    <3>6. Ahead((Run("byte", reader.req, Size(m) - reader.len, reader.len)
                   \o PadOf(reader.req, reader.pad)) \o BodyOn(sent, reader.req, m))'
      BY <1>4, <2>10, <2>11, <3>1, <3>3
    <3> QED BY <1>4, <2>10, <3>4, <3>5, <3>6 DEF InContent
  <2>13. Within'
    <3>1. m \in Nat
      BY <2>2
    <3> QED BY <2>12, <3>1 DEF Within
  <2> QED BY <1>2, <1>4, <1>7, <2>6, <2>8, <2>9, <2>10, <2>13, GivesStays
<1> QED BY <1>13, <1>14

LEMMA RecordPaddingLemma ==
  ASSUME InputInv, RecordPadding
  PROVE  InputInv'
<1>1. PICK i : i = reader.req
  OBVIOUS
<1>2. InBody /\ reader.phase = "padding" /\ UNCHANGED <<eof, sent, left>>
  BY DEF InBody, RecordPadding
<1>3. /\ AtBody /\ input \in Seq(Symbol) /\ given \in Seq(Symbol) /\ reader \in Reader
      /\ i \in 1..Len(sent) /\ i \in Nat /\ sent[i] \in Requests /\ sent \in Seq(Requests)
      /\ reader.piece \in Seq(Symbol) /\ Len(sent[i].body) \in Nat
  BY <1>1, <1>2, BodyFacts
<1>4. PICK n \in Nat : AtPadding(n)
  BY <1>2, <1>3 DEF AtBody
<1>5. /\ reader.asked /\ n \in 1..Len(sent[i].body) /\ n \in 0..Len(sent[i].body)
      /\ reader.len = 0 /\ Got(Size(n)) /\ reader.ret \in 1..Len(reader.piece)
      /\ Ahead(PadOf(i, 1) \o BodyOn(sent, i, n))
  BY <1>1, <1>3, <1>4 DEF AtPadding
<1>6. ~ reader.over
  BY <1>2, <1>3 DEF AtBody
<1>7. Size(n) \in Nat /\ Length(sent[i]) \in Nat /\ Size(n) <= Length(sent[i])
  BY <1>1, <1>3, <1>5, SizeLemma
<1>8. CASE Whole(1) /\ input' = Tail(input) /\ GoesOn(reader)
  <2>1. Gives(reader)
    BY <1>3, <1>8, GoesOnGives
  <2>2. input # <<>>
    BY <1>3, <1>8, EmptySeq DEF Whole
  <2>3. Still(Tail(input), BodyOn(sent, i, n)) /\ Tail(input) \in Seq(Symbol)
    <3>1. Sym("padding", i, 0, 0, 0) \in Symbol
      BY <1>3, SymLemma
    <3>2. BodyOn(sent, i, n) \in Seq(Symbol)
      BY <1>3, <1>5, BodyOnLemma
    <3>3. PadOf(i, 1) = <<Sym("padding", i, 0, 0, 0)>>
      BY DEF PadOf
    <3>4. Ahead(<<Sym("padding", i, 0, 0, 0)>> \o BodyOn(sent, i, n))
      BY <1>5, <3>3
    <3> QED BY <1>3, <2>2, <3>1, <3>2, <3>4, StillHead
  <2>4. /\ reader'.req = i /\ reader'.asked /\ reader'.len = 0
        /\ given' \o reader'.piece = given \o reader.piece
        /\ reader'.phase \in {"work", "reading"}
        /\ reader'.phase = "work" /\ reader'.over => reader.piece = <<>>
        /\ reader'.phase = "reading" => ~ reader'.over
    BY <1>1, <1>5, <1>6, <2>1 DEF Gives
  <2>5. ~ reader'.over
    <3>1. reader.piece # <<>>
      BY <1>5, EmptySeq
    <3> QED BY <2>4, <3>1
  <2>6. AtRecord(n)'
    <3>1. Size(n)' = Size(n)
      BY <1>1, <1>2, <2>4 DEF Size
    <3>2. Got(Size(n))'
      BY <1>1, <1>5, <2>4, <3>1 DEF Got
    <3>3. Ahead(BodyOn(sent, reader.req, n))'
      BY <1>2, <1>8, <2>3, <2>4 DEF Ahead, Still
    <3> QED BY <1>2, <1>5, <2>4, <3>2, <3>3 DEF AtRecord
  <2>7. Within'
    BY <2>6 DEF Within
  <2>8. InputInv /\ input' \in Seq(Symbol)
    BY <1>8, <2>3
  <2>9. PICK rd : rd = reader
    OBVIOUS
  <2> QED BY <1>2, <1>5, <1>6, <2>1, <2>5, <2>7, <2>8, <2>9, GivesStays
<1>9. CASE /\ Short(1) /\ input' = input
           /\ Returns([reader EXCEPT !.keep = FALSE], SubSeq(reader.piece, 1, reader.ret))
  <2>1. Dry /\ eof
    <3>1. Len(input) < 1 /\ eof /\ Len(input) \in Nat
      BY <1>3, <1>9, LenProperties DEF Short
    <3>2. input = <<>>
      BY <1>3, <3>1, EmptySeq
    <3> QED BY <3>1, <3>2 DEF Dry
  <2>2. PICK r \in 0..Len(reader.piece) : r = reader.ret
    BY <1>5
  <2>3. PICK t : t = SubSeq(reader.piece, 1, r)
    OBVIOUS
  <2>4. PICK x \in Nat : x = Size(n)
    BY <1>7
  <2>5. PICK y \in 0..x : given \o t = All("byte", i, y)
    <3>1. Got(x)
      BY <1>5, <2>4
    <3>2. \E y \in 0..x : given \o SubSeq(reader.piece, 1, r) = All("byte", i, y)
      BY <1>1, <1>3, <3>1, GivesSome
    <3> QED BY <2>3, <3>2
  <2>6. PICK v \in BOOLEAN : v = (t = <<>>)
    OBVIOUS
  <2>7. /\ given' = given \o t
        /\ reader' = [[reader EXCEPT !.keep = FALSE]
                        EXCEPT !.phase = "work", !.want = 0, !.ret = 0, !.piece = <<>>, !.over = v]
    BY <1>9, <2>2, <2>3, <2>6 DEF Returns
  <2>8. reader \in Reader /\ v \in BOOLEAN /\ <<>> \in Seq(Symbol)
    BY <1>3
  <2>9. reader' = [[reader EXCEPT !.keep = FALSE]
                     EXCEPT !.phase = "work", !.want = 0, !.ret = 0, !.piece = <<>>, !.over = v]
    BY <2>7
  <2>10. reader' \in Reader
    BY ONLY <2>8, <2>9 DEF Reader
  <2>11. /\ reader'.req = reader.req /\ reader'.env = reader.env
         /\ reader'.refused = reader.refused /\ reader'.phase = "work" /\ reader'.piece = <<>>
         /\ reader'.ret = 0 /\ reader'.asked = reader.asked
    BY ONLY <2>8, <2>9 DEF Reader
  <2>12. given' = All("byte", i, y) /\ given' \in Seq(Symbol)
    <3>1. y \in Nat
      BY <2>4
    <3>2. All("byte", i, y) \in Seq(Symbol)
      BY <1>3, <3>1, AllIs DEF Kinds
    <3> QED BY <2>5, <2>7, <3>2
  <2>13. Lost'
    <3>1. Got(y)'
      <4>1. given' \o <<>> = given'
        BY <2>12, ConcatEmptySeq
      <4> QED BY <1>1, <2>11, <2>12, <4>1 DEF Got
    <3>2. y \in 0..Length(sent[i])
      BY <1>7, <2>4
    <3>3. GotSome'
      BY <1>1, <1>2, <2>11, <3>1, <3>2 DEF GotSome, Length
    <3>4. Dry'
      BY <1>2, <1>9, <2>1 DEF Dry
    <3> QED BY <1>5, <2>11, <3>3, <3>4 DEF Lost
  <2> QED BY <1>2, <1>3, <1>9, <2>1, <2>10, <2>11, <2>12, <2>13, BodyStays DEF InBody
<1> QED BY <1>8, <1>9 DEF RecordPadding

LEMMA ContentTakes ==
  ASSUME NEW i \in Nat, NEW from \in Nat, NEW l \in Nat, NEW p \in Seq(Symbol),
         NEW b \in Seq(Symbol), input \in Seq(Symbol),
         Ahead((Run("byte", i, from, l) \o p) \o b), NEW k \in 0..l, k <= Len(input)
  PROVE  /\ Took(k) = Run("byte", i, from, k) /\ Rest(k) \in Seq(Symbol)
         /\ Still(Rest(k), (Run("byte", i, from + k, l - k) \o p) \o b)
<1>1. PICK m : m = l - k
  OBVIOUS
<1>2. PICK f : f = from + k
  OBVIOUS
<1>3. k \in Nat /\ m \in Nat /\ f \in Nat /\ k + m = l
  BY <1>1, <1>2
<1>4. PICK a : a = Run("byte", i, from, k)
  OBVIOUS
<1>5. PICK d : d = Run("byte", i, f, m)
  OBVIOUS
<1>6. a \in Seq(Symbol) /\ Len(a) = k /\ d \in Seq(Symbol)
  <2>1. "byte" \in Kinds
    BY DEF Kinds
  <2>2. Run("byte", i, from, k) \in Seq(Symbol) /\ Len(Run("byte", i, from, k)) = k
    BY <1>3, <2>1, RunLemma
  <2>3. Run("byte", i, f, m) \in Seq(Symbol)
    BY <1>3, <2>1, RunLemma
  <2> QED BY <1>4, <1>5, <2>2, <2>3
<1>7. a \o d = Run("byte", i, from, l)
  <2>1. RunsJoin("byte", i, from, k, m)
    BY <1>3, RunsLemma DEF Kinds
  <2> QED BY <1>2, <1>3, <1>4, <1>5, <2>1 DEF RunsJoin
<1>8. d \o p \in Seq(Symbol) /\ (d \o p) \o b \in Seq(Symbol)
  <2>1. d \o p \in Seq(Symbol)
    BY <1>6, ConcatProperties
  <2> QED BY <2>1, ConcatProperties
<1>9. PICK e : e = d \o p
  OBVIOUS
<1>10. PICK g : g = e \o b
  OBVIOUS
<1>11. e \in Seq(Symbol) /\ g \in Seq(Symbol)
  BY <1>8, <1>9, <1>10
<1>12. (Run("byte", i, from, l) \o p) \o b = a \o g
  <2>1. Assoc(a, d, p)
    BY <1>6, GroupLemma
  <2>2. Assoc(a, e, b)
    BY <1>6, <1>11, GroupLemma
  <2> QED BY <1>7, <1>9, <1>10, <2>1, <2>2 DEF Assoc
<1>13. Ahead(a \o g)
  BY <1>12
<1>14. Took(Len(a)) = a /\ Rest(Len(a)) \in Seq(Symbol) /\ Still(Rest(Len(a)), g)
  BY <1>6, <1>11, <1>13, StillTakes
<1> QED BY <1>1, <1>2, <1>4, <1>5, <1>6, <1>9, <1>10, <1>14

LEMMA ContentLemma ==
  ASSUME InputInv, Content
  PROVE  InputInv'
<1>1. PICK i : i = reader.req
  OBVIOUS
<1>2. InBody /\ reader.phase = "reading" /\ UNCHANGED <<eof, sent, left>>
  BY DEF InBody, Content
<1>3. /\ AtBody /\ input \in Seq(Symbol) /\ given \in Seq(Symbol) /\ reader \in Reader
      /\ i \in 1..Len(sent) /\ i \in Nat /\ sent[i] \in Requests /\ sent \in Seq(Requests)
      /\ reader.piece \in Seq(Symbol) /\ Len(sent[i].body) \in Nat /\ sent[i].pad \in {0, 1}
      /\ \A k \in 1..Len(sent[i].body) : sent[i].body[k] \in Nat \ {0}
  BY <1>1, <1>2, BodyFacts
<1>4. ~ reader.over /\ reader.want > 0 /\ reader.asked
  BY <1>2, <1>3 DEF AtBody
<1>5. PICK l \in Nat : l = reader.len /\ l > 0
  BY <1>3 DEF Reader, Content
<1>6. PICK w \in Nat : w = reader.want /\ w > 0
  BY <1>3, <1>4 DEF Reader
<1>7. PICK c \in Nat : c = Len(input)
  BY <1>3, LenProperties
<1>8. PICK k : k = Least(Least(l, w), c)
  OBVIOUS
<1>9. /\ k \in 0..l /\ k <= w /\ k <= c /\ k \in Nat /\ l - k \in Nat /\ w - k \in Nat
      /\ k = 0 => eof /\ c = 0
  <2>1. c >= Least(l, w) \/ (c < Least(l, w) /\ eof)
    BY <1>5, <1>6, <1>7 DEF Content, Whole, Short
  <2> QED BY <1>5, <1>6, <1>8, <2>1 DEF Least
<1>10. PICK t : t = Took(k)
  OBVIOUS
<1>11. /\ t \in Seq(Symbol) /\ Len(t) = k /\ Rest(k) \in Seq(Symbol)
  <2>1. k \in 0..Len(input)
    BY <1>7, <1>9
  <2>2. SubSeq(input, 1, k) \in Seq(Symbol) /\ Len(SubSeq(input, 1, k)) = k
        /\ Past(input, k) \in Seq(Symbol)
    BY <1>3, <2>1, SplitLemma
  <2> QED BY <1>10, <2>2 DEF Took, Rest, Past
<1>12. PICK s : s = reader.piece \o t
  OBVIOUS
<1>13. s \in Seq(Symbol) /\ Len(s) = Len(reader.piece) + k
  <2>1. PICK g : g = reader.piece
    OBVIOUS
  <2>2. g \in Seq(Symbol) /\ t \in Seq(Symbol)
    BY <1>3, <1>11, <2>1
  <2>3. g \o t \in Seq(Symbol) /\ Len(g \o t) = Len(g) + Len(t)
    BY ONLY <2>2, JoinLemma
  <2> QED BY <1>11, <1>12, <2>1, <2>3
<1>14. PICK rd : rd = [reader EXCEPT !.len = l - k, !.want = w - k, !.ret = k, !.piece = s]
  OBVIOUS
<1>15. /\ rd \in Reader /\ rd.req = reader.req /\ rd.env = reader.env
       /\ rd.refused = reader.refused /\ rd.asked = reader.asked /\ rd.over = reader.over
       /\ rd.pad = reader.pad /\ rd.len = l - k /\ rd.want = w - k /\ rd.ret = k /\ rd.piece = s
  <2>1. PICK x \in Nat : x = l - k
    BY <1>9
  <2>2. PICK y \in Nat : y = w - k
    BY <1>9
  <2>3. reader \in Reader /\ k \in Nat /\ s \in Seq(Symbol)
        /\ rd = [reader EXCEPT !.len = x, !.want = y, !.ret = k, !.piece = s]
    BY <1>3, <1>9, <1>13, <1>14, <2>1, <2>2
  <2>4. rd \in Reader
    BY ONLY <2>3, x \in Nat, y \in Nat DEF Reader
  <2>5. /\ rd.req = reader.req /\ rd.env = reader.env
        /\ rd.refused = reader.refused /\ rd.asked = reader.asked /\ rd.over = reader.over
        /\ rd.pad = reader.pad /\ rd.len = x /\ rd.want = y /\ rd.ret = k /\ rd.piece = s
    BY ONLY <2>3 DEF Reader
  <2> QED BY <2>1, <2>2, <2>4, <2>5
<1>16. /\ input' = Rest(k)
       /\ IF k = 0 \/ rd.len > 0 THEN Returns(rd, rd.piece)
          ELSE IF PaddingNext(rd) THEN reader' = [rd EXCEPT !.phase = "padding"] /\ UNCHANGED given
          ELSE GoesOn(rd)
  <2>1. k = Least(Least(reader.len, reader.want), Len(input))
    BY <1>5, <1>6, <1>7, <1>8
  <2>2. rd = [reader EXCEPT !.len = @ - k, !.want = @ - k, !.ret = k, !.piece = @ \o Took(k)]
    BY <1>3, <1>5, <1>6, <1>10, <1>12, <1>14 DEF Reader
  <2> QED BY <2>1, <2>2 DEF Content
<1>17. input' \in Seq(Symbol)
  BY <1>11, <1>16
<1>18. /\ ~ Ended /\ ~ Misplaced /\ ~ Broken
       /\ \A m \in Nat : ~ AtRecord(m)
  BY <1>2, <1>5 DEF Ended, Misplaced, Broken, AtRecord
<1>19. CASE Lost
  <2>1. input = <<>> /\ eof /\ k = 0
    <3>1. c = 0
      BY <1>7, <1>19, EmptySeq DEF Lost, Dry
    <3> QED BY <1>9, <1>19, <3>1 DEF Lost, Dry
  <2>2. Gives(rd) /\ reader'.phase = "work"
    BY <1>3, <1>15, <1>16, <2>1, ReturnsGives
  <2>3. t = <<>> /\ s = reader.piece
    <3>1. t = <<>>
      BY <1>11, <2>1, EmptySeq
    <3> QED BY <1>3, <1>12, <3>1, ConcatEmptySeq
  <2>4. Lost'
    <3>1. PICK x \in 0..Length(sent[i]) : Got(x)
      BY <1>1, <1>19 DEF Lost, GotSome
    <3>2. reader'.req = i /\ reader'.asked /\ given' \o reader'.piece = given \o reader.piece
      BY <1>1, <1>4, <1>15, <2>2, <2>3 DEF Gives
    <3>3. Got(x)'
      BY <1>1, <3>1, <3>2 DEF Got
    <3>4. GotSome'
      BY <1>2, <3>1, <3>2, <3>3 DEF GotSome, Length
    <3>5. input' = <<>>
      <4>1. Rest(0) = SubSeq(input, 0 + 1, Len(input))
        BY DEF Rest
      <4>2. Len(input) = 0
        BY <2>1, EmptySeq
      <4>3. Past(input, 0) \in Seq(Symbol) /\ Len(Past(input, 0)) = Len(input) - 0
        <5>1. 0 \in 0..Len(input)
          BY <4>2
        <5> QED BY <1>3, <5>1, SplitLemma
      <4>4. Rest(0) = Past(input, 0)
        BY DEF Rest, Past
      <4> QED BY <1>16, <2>1, <4>2, <4>3, <4>4, EmptySeq
    <3> QED BY <1>2, <2>1, <3>2, <3>4, <3>5 DEF Lost, Dry
  <2> QED BY <1>2, <1>4, <1>15, <1>17, <2>1, <2>2, <2>4, GivesStays
<1>20. ASSUME NEW m \in Nat, InContent(m)
       PROVE  InputInv'
  <2>1. /\ m \in 1..Len(sent[i].body) /\ m \in 0..Len(sent[i].body)
        /\ reader.len \in 1..sent[i].body[m] /\ reader.pad = sent[i].pad
        /\ Got(Size(m) - l)
        /\ Ahead((Run("byte", i, Size(m) - l, l) \o PadOf(i, sent[i].pad)) \o BodyOn(sent, i, m))
    BY <1>1, <1>3, <1>5, <1>20 DEF InContent
  <2>2. PICK f \in Nat : f = Size(m) - l
    <3>1. m - 1 \in 0..Len(sent[i].body) /\ m \in 0..Len(sent[i].body)
      BY <1>3, <2>1
    <3>2. /\ Size(m) \in Nat /\ Size(m - 1) \in Nat
          /\ Size(m) = Size(m - 1) + sent[i].body[m]
      <4>1. Length(sent[i]) \in Nat
        BY <1>1, <1>3, SizeLemma
      <4>2. Size(m) \in 0..Length(sent[i]) /\ Size(m - 1) \in 0..Length(sent[i])
            /\ Size(m) = Size(m - 1) + sent[i].body[m]
        BY <1>1, <1>3, <2>1, <3>1, SizeLemma
      <4> QED BY <4>1, <4>2
    <3>3. sent[i].body[m] \in Nat
      BY <1>3, <2>1
    <3> QED BY <1>5, <2>1, <3>2, <3>3
  <2>3. PICK p : p = PadOf(i, sent[i].pad)
    OBVIOUS
  <2>4. PICK b : b = BodyOn(sent, i, m)
    OBVIOUS
  <2>5. p \in Seq(Symbol) /\ b \in Seq(Symbol)
    BY <1>3, <2>1, <2>3, <2>4, PadOfLemma, BodyOnLemma
  <2>6. /\ Took(k) = Run("byte", i, f, k)
        /\ Still(Rest(k), (Run("byte", i, f + k, l - k) \o p) \o b)
    <3>1. Ahead((Run("byte", i, f, l) \o p) \o b)
      BY <2>1, <2>2, <2>3, <2>4
    <3> QED BY <1>3, <1>7, <1>9, <2>5, <3>1, ContentTakes, ZenonT(30)
  <2>7. given \o s = All("byte", i, f + k)
    <3>1. PICK g : g = reader.piece
      OBVIOUS
    <3>2. g \in Seq(Symbol) /\ given \o g = All("byte", i, f)
      BY <1>1, <1>3, <2>1, <2>2, <3>1 DEF Got
    <3>3. Assoc(given, g, t)
      BY <1>3, <1>11, <3>2, GroupLemma
    <3>4. given \o s = All("byte", i, f) \o Run("byte", i, f, k)
      BY <1>10, <1>12, <2>6, <3>1, <3>2, <3>3 DEF Assoc
    <3>5. RunsJoin("byte", i, 0, f, k)
      BY <1>3, <1>9, RunsLemma DEF Kinds
    <3>6. All("byte", i, f) = Run("byte", i, 0, f)
      BY AllLemma
    <3>7. All("byte", i, f + k) = Run("byte", i, 0, f + k)
      <4>1. f + k \in Nat
        BY <1>9
      <4> QED BY <4>1, AllLemma
    <3>8. 0 + f = f
      OBVIOUS
    <3> QED BY <3>4, <3>5, <3>6, <3>7, <3>8 DEF RunsJoin
  <2>8. PICK z : z = l - k
    OBVIOUS
  <2>9. z \in Nat /\ f + k = Size(m) - z /\ Size(m) \in Nat /\ z <= l
    <3>1. Size(m) \in Nat
      <4>1. Length(sent[i]) \in Nat
        BY <1>1, <1>3, SizeLemma
      <4>2. Size(m) \in 0..Length(sent[i])
        BY <1>1, <1>3, <2>1, SizeLemma
      <4> QED BY <4>1, <4>2
    <3> QED BY <1>9, <2>2, <2>8, <3>1
  <2>10. CASE k = 0
    <3>1. Gives(rd) /\ reader'.phase = "work"
      BY <1>3, <1>15, <1>16, <2>10, ReturnsGives
    <3>2. eof /\ input = <<>>
      BY <1>3, <1>7, <1>9, <2>10, EmptySeq
    <3>3. reader'.req = i /\ reader'.asked
          /\ given' \o reader'.piece = All("byte", i, f + k)
      BY <1>1, <1>4, <1>15, <2>7, <3>1 DEF Gives
    <3>4. Lost'
      <4>1. f + k \in 0..Length(sent[i])
        <5>1. Length(sent[i]) \in Nat
          BY <1>1, <1>3, SizeLemma
        <5>2. Size(m) \in 0..Length(sent[i])
          BY <1>1, <1>3, <2>1, SizeLemma
        <5> QED BY <1>9, <2>9, <5>1, <5>2
      <4>2. Got(f + k)'
        BY <3>3 DEF Got
      <4>3. GotSome'
        BY <1>2, <3>3, <4>1, <4>2 DEF GotSome, Length
      <4>4. input' = <<>>
        <5>1. Past(input, 0) \in Seq(Symbol) /\ Len(Past(input, 0)) = Len(input) - 0
          <6>1. 0 \in 0..Len(input)
            BY <1>7, <1>9, <2>10
          <6> QED BY <1>3, <6>1, SplitLemma
        <5>2. Rest(0) = Past(input, 0)
          BY DEF Rest, Past
        <5>3. Len(input) = 0
          BY <1>7, <1>9, <2>10
        <5> QED BY <1>16, <2>10, <5>1, <5>2, <5>3, EmptySeq
      <4> QED BY <1>2, <3>2, <3>3, <4>3, <4>4 DEF Lost, Dry
    <3> QED BY <1>2, <1>4, <1>15, <1>17, <3>1, <3>2, <3>4, GivesStays
  <2>11. s # <<>> \/ k = 0
    BY <1>3, <1>9, <1>13, EmptySeq, LenProperties
  <2>12. ASSUME Gives(rd), k # 0
         PROVE  /\ ~ reader'.over /\ reader'.req = i /\ reader'.asked /\ reader'.len = z
                /\ reader'.pad = sent[i].pad /\ given' \o reader'.piece = All("byte", i, f + k)
                /\ Size(m)' = Size(m)
    <3>1. /\ reader'.req = i /\ reader'.asked /\ reader'.len = z
          /\ reader'.pad = sent[i].pad /\ given' \o reader'.piece = All("byte", i, f + k)
      BY <1>1, <1>4, <1>15, <2>1, <2>7, <2>8, <2>12 DEF Gives
    <3>2. ~ reader'.over
      BY <1>4, <1>15, <2>11, <2>12 DEF Gives
    <3>3. Size(m)' = Size(m)
      BY <1>1, <1>2, <3>1 DEF Size
    <3> QED BY <3>1, <3>2, <3>3
  <2>13. CASE k # 0 /\ z > 0
    <3>1. Gives(rd) /\ reader'.phase = "work"
      BY <1>3, <1>15, <1>16, <2>8, <2>13, ReturnsGives
    <3>2. /\ ~ reader'.over /\ reader'.req = i /\ reader'.asked /\ reader'.len = z
          /\ reader'.pad = sent[i].pad /\ given' \o reader'.piece = All("byte", i, f + k)
          /\ Size(m)' = Size(m)
      BY <2>12, <2>13, <3>1
    <3>3. InContent(m)'
      <4>1. Got(Size(m) - reader.len)'
        BY <2>9, <3>2 DEF Got
      <4>2. Ahead((Run("byte", reader.req, Size(m) - reader.len, reader.len)
                     \o PadOf(reader.req, reader.pad)) \o BodyOn(sent, reader.req, m))'
        <5>1. Still(Rest(k), (Run("byte", i, Size(m) - z, z) \o PadOf(i, sent[i].pad))
                                \o BodyOn(sent, i, m))
          BY <2>3, <2>4, <2>6, <2>8, <2>9
        <5>2. PICK q : q = Size(m)
          OBVIOUS
        <5>3. Still(Rest(k), (Run("byte", i, q - z, z) \o PadOf(i, sent[i].pad))
                                \o BodyOn(sent, i, m))
          BY <5>1, <5>2
        <5>4. Size(m)' = q
          BY <3>2, <5>2
        <5> QED BY <1>2, <1>16, <3>2, <5>3, <5>4 DEF Ahead, Still
      <4>3. z \in 1..sent[i].body[m]
        <5>1. sent[i].body[m] \in Nat
          BY <1>3, <2>1
        <5> QED BY <1>5, <2>1, <2>9, <2>13, <5>1
      <4> QED BY <1>2, <2>1, <3>2, <4>1, <4>2, <4>3 DEF InContent
    <3>4. Within'
      BY <3>3 DEF Within
    <3> QED BY <1>2, <1>4, <1>15, <1>17, <3>1, <3>2, <3>4, GivesStays
  <2>14. ASSUME z = 0
         PROVE  Still(Rest(k), p \o b) /\ given \o s = All("byte", i, Size(m))
    <3>1. PICK o : o = Run("byte", i, f + k, z)
      OBVIOUS
    <3>2. o = <<>>
      BY <2>14, <3>1 DEF Run
    <3>3. o \o p = p
      BY <2>5, <3>2, ConcatEmptySeq
    <3>4. Still(Rest(k), (o \o p) \o b)
      BY <2>6, <2>8, <3>1
    <3>5. Still(Rest(k), p \o b)
      BY <3>3, <3>4
    <3>6. f + k = Size(m)
      BY <2>9, <2>14
    <3> QED BY <2>7, <3>5, <3>6
  <2>15. CASE k # 0 /\ z = 0 /\ sent[i].pad = 1
    <3>1. reader' = [rd EXCEPT !.phase = "padding"] /\ given' = given
      BY <1>15, <1>16, <2>1, <2>8, <2>15 DEF PaddingNext
    <3>2. rd \in Reader /\ reader' = [rd EXCEPT !.phase = "padding"]
      BY <1>15, <3>1
    <3>3. reader' \in Reader
      BY ONLY <3>2 DEF Reader
    <3>4. /\ reader'.req = rd.req /\ reader'.env = rd.env /\ reader'.refused = rd.refused
          /\ reader'.asked = rd.asked /\ reader'.over = rd.over /\ reader'.len = rd.len
          /\ reader'.pad = rd.pad /\ reader'.ret = rd.ret /\ reader'.piece = rd.piece
          /\ reader'.phase = "padding"
      BY ONLY <3>2 DEF Reader
    <3>5. /\ reader'.req = i /\ reader'.asked /\ ~ reader'.over /\ reader'.len = 0
          /\ reader'.pad = 1 /\ reader'.ret = k /\ reader'.piece = s
      BY <1>1, <1>4, <1>15, <2>1, <2>8, <2>15, <3>4
    <3>6. AtPadding(m)'
      <4>1. PICK q : q = Size(m)
        OBVIOUS
      <4>2. Size(m)' = q
        BY <1>1, <1>2, <3>5, <4>1 DEF Size
      <4>3. Got(Size(m))'
        BY <2>14, <2>15, <3>1, <3>5, <4>1, <4>2 DEF Got
      <4>4. Ahead(PadOf(reader.req, 1) \o BodyOn(sent, reader.req, m))'
        BY <1>2, <1>16, <2>3, <2>4, <2>14, <2>15, <3>5 DEF Ahead, Still
      <4>5. k \in 1..Len(s)
        <5>1. Len(reader.piece) \in Nat
          BY <1>3, LenProperties
        <5> QED BY <1>9, <1>13, <2>15, <5>1
      <4> QED BY <1>2, <2>1, <3>5, <4>3, <4>4, <4>5 DEF AtPadding
    <3>7. given' \in Seq(Symbol)
      BY <1>3, <3>1
    <3> QED BY <1>2, <1>15, <1>17, <3>3, <3>4, <3>5, <3>6, <3>7, BodyStays DEF InBody
  <2>16. CASE k # 0 /\ z = 0 /\ sent[i].pad = 0
    <3>1. Gives(rd)
      <4>1. GoesOn(rd)
        BY <1>15, <1>16, <2>1, <2>8, <2>16 DEF PaddingNext
      <4> QED BY <1>3, <1>15, <4>1, GoesOnGives
    <3>2. /\ ~ reader'.over /\ reader'.req = i /\ reader'.asked /\ reader'.len = 0
          /\ Size(m)' = Size(m) /\ given' \o reader'.piece = All("byte", i, f + k)
      BY <2>12, <2>16, <3>1
    <3>3. AtRecord(m)'
      <4>1. Got(Size(m))'
        BY <2>9, <2>16, <3>2 DEF Got
      <4>2. p \o b = b
        <5>1. p = <<>>
          BY <2>3, <2>16 DEF PadOf
        <5> QED BY <2>5, <5>1, ConcatEmptySeq
      <4>3. Still(Rest(k), BodyOn(sent, i, m))
        BY <2>4, <2>14, <2>16, <4>2
      <4>4. Ahead(BodyOn(sent, reader.req, m))'
        BY <1>2, <1>16, <3>2, <4>3 DEF Ahead, Still
      <4> QED BY <1>2, <2>1, <3>2, <4>1, <4>4 DEF AtRecord
    <3>4. Within'
      BY <3>3 DEF Within
    <3> QED BY <1>2, <1>4, <1>15, <1>17, <3>1, <3>2, <3>4, GivesStays
  <2> QED BY <1>3, <2>9, <2>10, <2>13, <2>15, <2>16
<1> QED BY <1>2, <1>3, <1>18, <1>19, <1>20 DEF AtBody, Within

-----------------------------------------------------------------------------
(* The end of the request, and the web server. *)

LEMMA FinishRequestLemma ==
  ASSUME InputInv, reader.phase = "work", reader.asked => reader.over \/ HasBody,
         UNCHANGED <<input, eof, sent, given, left>>,
         NEW x \in {"idle", "closed"}, x = "idle" => reader.keep,
         reader' = [reader EXCEPT !.phase = x, !.ignored = @ \/ (~reader.asked /\ ~HasBody)]
  PROVE  InputInv'
<1>1. PICK i : i = reader.req
  OBVIOUS
<1>2. InBody
  BY DEF InBody
<1>3. /\ AtBody /\ input \in Seq(Symbol) /\ given \in Seq(Symbol) /\ reader \in Reader
      /\ i \in 1..Len(sent) /\ i \in Nat /\ sent[i] \in Requests /\ sent \in Seq(Requests)
      /\ Len(sent[i].body) \in Nat /\ sent[i].pad \in {0, 1} /\ sent[i].endPad \in {0, 1}
      /\ \A k \in 1..Len(sent[i].body) : sent[i].body[k] \in Nat \ {0}
  BY <1>1, <1>2, BodyFacts
<1>4. PICK v \in BOOLEAN : v = (~reader.asked /\ ~HasBody)
  OBVIOUS
<1>5. PICK y \in BOOLEAN : y = (reader.ignored \/ v)
  OBVIOUS
<1>6. reader' = [reader EXCEPT !.phase = x, !.ignored = y]
  BY <1>3, <1>4, <1>5 DEF Reader
<1>7. reader' \in Reader
  <2>1. reader \in Reader /\ x \in {"idle", "closed"} /\ y \in BOOLEAN
    BY <1>3
  <2> QED BY ONLY <2>1, <1>6 DEF Reader
<1>8. reader'.phase = x /\ reader'.refused = reader.refused /\ reader'.ignored = y
  <2>1. reader \in Reader
    BY <1>3
  <2> QED BY ONLY <2>1, <1>6 DEF Reader
<1>9. InputTypeOK'
  BY <1>7 DEF InputInv, InputTypeOK
<1>10. ~ reader.refused /\ reader.piece = <<>>
  BY <1>3 DEF AtBody
<1>11. CASE x = "closed"
  BY <1>8, <1>9, <1>10, <1>11 DEF InputInv, Place
<1>12. CASE x = "idle"
  <2>1. SUFFICES AtRequest'
    BY <1>8, <1>9, <1>10, <1>12 DEF InputInv, Place
  <2>2. ~ Broken
    BY <1>12 DEF Broken
  <2>3. CASE Lost
    BY <2>3 DEF Lost, Dry, AtRequest
  <2>4. ASSUME Padded(sent[i]), IF input = <<>> THEN eof ELSE Head(input).kind = "padding"
        PROVE  AtRequest'
    <3>1. \E n \in 1..Len(sent) : Padded(sent[n])
      BY <1>3, <2>4
    <3>2. Dry' \/ Stray'
      BY <2>4, <3>1 DEF Dry, Stray, Padded
    <3> QED BY <3>2 DEF AtRequest
  <2>5. CASE Misplaced
    BY <1>1, <2>4, <2>5 DEF Misplaced
  <2>6. CASE Ended
    <3>1. Still(input, PadOf(i, sent[i].endPad) \o Later(sent, i))
      BY <1>1, <2>6 DEF Ended, Ahead
    <3>2. Later(sent, i) \in Seq(Symbol) /\ i \in 0..Len(sent)
      BY <1>3, LaterLemma
    <3>3. IF sent[i].endPad = 0 THEN Still(input, Later(sent, i))
          ELSE IF input = <<>> THEN eof ELSE Head(input).kind = "padding"
      BY <1>3, <3>1, <3>2, StillPadded
    <3>4. CASE sent[i].endPad = 0
      <4>1. Ahead(Later(sent, i))'
        BY <3>3, <3>4 DEF Ahead, Still
      <4> QED BY <3>2, <4>1 DEF AtRequest
    <3>5. CASE sent[i].endPad # 0
      <4>1. Padded(sent[i])
        BY <1>3, <3>5 DEF Padded
      <4> QED BY <2>4, <3>3, <3>5, <4>1
    <3> QED BY <3>4, <3>5
  <2>7. ASSUME Within, ~ reader.over
        PROVE  AtRequest'
    <3>1. reader.asked => HasBody
      BY <2>7
    <3>2. /\ Size(0) = 0 /\ Size(Len(sent[i].body)) = Length(sent[i]) /\ Length(sent[i]) \in Nat
          /\ \A n \in 0..Len(sent[i].body) : Size(n) \in 0..Length(sent[i])
          /\ \A n \in 1..Len(sent[i].body) : Size(n) = Size(n - 1) + sent[i].body[n]
      BY <1>1, <1>3, SizeLemma
    <3>3. ASSUME NEW z \in Nat, Got(z), HasBody
          PROVE  z = Length(sent[i])
      <4>1. given \o <<>> = given
        BY <1>3, ConcatEmptySeq
      <4>2. Len(All("byte", i, z)) = z
        BY <1>3, AllIs DEF Kinds
      <4> QED BY <1>1, <1>10, <3>3, <4>1, <4>2 DEF Got, HasBody
    <3>4. ASSUME NEW n \in Nat, InContent(n) PROVE FALSE
      <4>1. /\ reader.asked /\ n \in 1..Len(sent[i].body) /\ Got(Size(n) - reader.len)
            /\ reader.len \in 1..sent[i].body[n]
        BY <1>1, <3>4 DEF InContent
      <4>2. n \in 0..Len(sent[i].body) /\ n - 1 \in 0..Len(sent[i].body)
        BY <1>3, <4>1
      <4>3. PICK s \in Nat : s = Size(n) /\ s <= Length(sent[i])
        BY <3>2, <4>2
      <4>4. PICK t \in Nat : t = Size(n - 1)
        BY <3>2, <4>2
      <4>5. PICK b \in Nat : b = sent[i].body[n]
        BY <1>3, <4>1
      <4>6. PICK l \in Nat : l = reader.len /\ l \in 1..b
        BY <1>3, <4>1, <4>5 DEF Reader
      <4>7. s = t + b
        BY <3>2, <4>1, <4>3, <4>4, <4>5
      <4>8. s - l \in Nat /\ s - l < Length(sent[i])
        BY <3>2, <4>3, <4>6, <4>7
      <4>9. s - l = Length(sent[i])
        BY <3>1, <3>3, <4>1, <4>3, <4>6, <4>8
      <4> QED BY <3>2, <4>8, <4>9
    <3>5. ASSUME NEW n \in Nat, AtRecord(n) PROVE AtRequest'
      <4>1. n \in 0..Len(sent[i].body) /\ Got(Size(n)) /\ (~ reader.asked => n = 0)
        BY <1>1, <3>5 DEF AtRecord
      <4>2. CASE input = <<>>
        <5>1. eof
          BY <1>1, <1>2, <3>5, <4>2, AtRecordOfBody
        <5> QED BY <4>2, <5>1 DEF AtRequest, Dry
      <4>3. CASE input # <<>> /\ n = Len(sent[i].body)
        <5>1. /\ Head(input) = Sym("STDIN", i, 0, 0, sent[i].endPad)
              /\ Tail(input) \in Seq(Symbol)
              /\ Still(Tail(input), PadOf(i, sent[i].endPad) \o Later(sent, i))
          BY <1>1, <1>2, <3>5, <4>3, AtRecordOfBody
        <5>2. Later(sent, i) \in Seq(Symbol) /\ i \in 0..Len(sent)
          BY <1>3, LaterLemma
        <5>3. IF sent[i].endPad = 0 THEN Still(Tail(input), Later(sent, i))
              ELSE IF Tail(input) = <<>> THEN eof ELSE Head(Tail(input)).kind = "padding"
          <6>1. i \in Nat /\ sent[i].endPad \in {0, 1}
            BY <1>3, <5>2
          <6> QED BY ONLY <5>1, <5>2, <6>1, StillPadded
        <5>4. CASE sent[i].endPad = 0
          <6>1. Ahead(BodyOn(sent, i, n)) /\ BodyEnds(sent, i)
            BY <1>1, <1>3, <3>5, BodyOnLemma DEF AtRecord
          <6>2. PadOf(i, sent[i].endPad) \o Later(sent, i) = Later(sent, i)
            BY <5>2, <5>4, ConcatEmptySeq DEF PadOf
          <6>3. Ahead(<<Sym("STDIN", i, 0, 0, 0)>> \o Later(sent, i))
            BY <4>3, <5>4, <6>1, <6>2 DEF BodyEnds
          <6>4. Ahead(<<Sym("STDIN", i, 0, 0, 0)>> \o Later(sent, i))'
            BY <6>3 DEF Ahead, Still
          <6> QED BY <5>2, <6>4 DEF AtRequest
        <5>5. CASE sent[i].endPad # 0
          <6>1. Padded(sent[i])
            BY <1>3, <5>5 DEF Padded
          <6>2. \E k \in 1..Len(sent) : Padded(sent[k])
            BY <1>3, <6>1
          <6>3. Head(input).kind = "STDIN"
            BY <5>1 DEF Sym
          <6>4. Stray'
            BY <4>3, <5>3, <5>5, <6>2, <6>3 DEF Stray, Padded
          <6> QED BY <6>4 DEF AtRequest
        <5> QED BY <5>4, <5>5
      <4>4. CASE input # <<>> /\ n # Len(sent[i].body)
        <5>1. PICK m : m = n + 1
          OBVIOUS
        <5>2. m \in 1..Len(sent[i].body) /\ m - 1 = n /\ m \in 0..Len(sent[i].body)
          BY <1>3, <4>1, <4>4, <5>1
        <5>3. ~ HasBody
          <6> SUFFICES ASSUME HasBody PROVE FALSE
            OBVIOUS
          <6>1. PICK s \in Nat : s = Size(n)
            BY <3>2, <4>1
          <6>2. s = Length(sent[i])
            BY <3>3, <4>1, <6>1
          <6>3. PICK b \in Nat \ {0} : b = sent[i].body[m]
            BY <1>3, <5>2
          <6>4. Size(m) = s + b /\ Size(m) \in 0..Length(sent[i])
            BY <3>2, <5>2, <6>1, <6>3
          <6> QED BY <3>2, <6>2, <6>3, <6>4
        <5>4. reader'.ignored
          BY <1>4, <1>5, <1>8, <3>1, <5>3
        <5>5. Head(input) = Sym("STDIN", i, 0, sent[i].body[m], sent[i].pad)
          BY <1>1, <1>2, <3>5, <4>4, <5>1, AtRecordOfBody
        <5>6. Head(input).kind = "STDIN" /\ Head(input).len # 0
          <6>1. sent[i].body[m] # 0
            BY <1>3, <5>2
          <6> QED BY <5>5, <6>1 DEF Sym
        <5>7. Stray'
          BY <4>4, <5>4, <5>6 DEF Stray
        <5> QED BY <5>7 DEF AtRequest
      <4> QED BY <4>2, <4>3, <4>4
    <3> QED BY <2>5, <2>7, <3>4, <3>5 DEF Within
  <2> QED BY <1>3, <2>2, <2>3, <2>6, <2>7 DEF AtBody
<1> QED BY <1>11, <1>12

LEMMA NewConnectionLemma ==
  ASSUME NEW p \in {0, 1}
  PROVE  /\ [Unread EXCEPT !.pad = p] \in Reader
         /\ [Unread EXCEPT !.pad = p].phase = "idle" /\ ~ [Unread EXCEPT !.pad = p].refused
         /\ Later(<<>>, 0) = <<>> /\ IsCut(<<>>, <<>>)
<1>1. Unread \in Reader
  <2>1. <<>> \in Seq(Symbol)
    OBVIOUS
  <2> QED BY <2>1 DEF Unread, Reader
<1>2. [Unread EXCEPT !.pad = p] \in Reader
  BY <1>1 DEF Reader
<1>3. [Unread EXCEPT !.pad = p].phase = "idle" /\ [Unread EXCEPT !.pad = p].refused = FALSE
  BY DEF Unread
<1>4. Later(<<>>, 0) = <<>>
  <2>1. PICK q : q = <<>>
    OBVIOUS
  <2>2. q \in Seq(Requests) /\ Len(q) = 0
    BY <2>1
  <2> QED BY <2>1, <2>2, LaterLemma
<1> QED BY <1>2, <1>3, <1>4 DEF IsCut

LEMMA InputInitLemma ==
  ASSUME InputInit
  PROVE  InputInv
<1>1. Unread = [Unread EXCEPT !.pad = 0]
  BY DEF Unread
<1>2. /\ reader \in Reader /\ reader.phase = "idle" /\ ~ reader.refused
      /\ Later(<<>>, 0) = <<>> /\ IsCut(<<>>, <<>>)
  BY <1>1, NewConnectionLemma DEF InputInit
<1>3. InputTypeOK
  <2>1. <<>> \in Seq(Symbol) /\ <<>> \in Seq(Requests) /\ MaxSent \in 0..MaxSent
    BY InputAssumption
  <2> QED BY <1>2, <2>1 DEF InputInit, InputTypeOK
<1>4. AtRequest
  <2>1. Ahead(Later(sent, 0))
    BY <1>2 DEF InputInit, Ahead, Still
  <2>2. 0 \in 0..Len(sent)
    BY DEF InputInit
  <2> QED BY <2>1, <2>2 DEF AtRequest
<1> QED BY <1>2, <1>3, <1>4 DEF InputInv, Place

LEMMA AcceptLemma ==
  ASSUME InputInv, Accept
  PROVE  InputInv'
<1>1. PICK p \in {0, 1} : p = reader.pad
  BY DEF InputInv, InputTypeOK, Reader
<1>2. /\ reader' = [Unread EXCEPT !.pad = p]
      /\ input' = <<>> /\ eof' = FALSE /\ sent' = <<>> /\ given' = <<>> /\ left' = left
  BY <1>1 DEF Accept
<1>3. /\ reader' \in Reader /\ reader'.phase = "idle" /\ ~ reader'.refused
      /\ Later(<<>>, 0) = <<>> /\ IsCut(<<>>, <<>>)
  BY <1>2, NewConnectionLemma
<1>4. InputTypeOK'
  <2>1. <<>> \in Seq(Symbol) /\ <<>> \in Seq(Requests)
    OBVIOUS
  <2> QED BY <1>2, <1>3, <2>1 DEF InputInv, InputTypeOK
<1>5. AtRequest'
  <2>1. Ahead(Later(sent, 0))'
    BY <1>2, <1>3 DEF Ahead, Still
  <2>2. 0 \in 0..Len(sent')
    BY <1>2
  <2> QED BY <2>1, <2>2 DEF AtRequest
<1> QED BY <1>3, <1>4, <1>5 DEF InputInv, Place

(* What the web server sends next comes behind what it has sent.           *)
LEMMA BehindKeeps ==
  ASSUME NEW s \in Seq(Symbol), NEW w \in Seq(Symbol), s # <<>>
  PROVE  /\ s \o w # <<>> /\ Head(s \o w) = Head(s)
         /\ Tail(s) # <<>> => Tail(s \o w) # <<>> /\ Head(Tail(s \o w)) = Head(Tail(s))
<1>1. /\ s \o w \in Seq(Symbol) /\ Len(s \o w) = Len(s) + Len(w)
      /\ \A k \in 1..Len(s) : (s \o w)[k] = s[k]
  <2>1. s \in Seq(Symbol) /\ w \in Seq(Symbol)
    OBVIOUS
  <2> QED BY ONLY <2>1, JoinLemma
<1>2. PICK z : z = s \o w
  OBVIOUS
<1>3. PICK l \in Nat : l = Len(s)
  BY LenProperties
<1>4. PICK m \in Nat : m = Len(w)
  BY LenProperties
<1>5. l > 0
  BY <1>3, EmptySeq
<1>6. z \in Seq(Symbol) /\ Len(z) = l + m /\ \A k \in 1..l : z[k] = s[k]
  BY <1>1, <1>2, <1>3, <1>4
<1>7. z # <<>>
  BY <1>5, <1>6, EmptySeq
<1>8. Head(z) = z[1] /\ Head(s) = s[1]
  BY <1>6, <1>7
<1>9. 1 \in 1..l
  BY <1>5
<1>10. Head(z) = Head(s)
  BY <1>6, <1>8, <1>9
<1>11. ASSUME Tail(s) # <<>> PROVE Tail(z) # <<>> /\ Head(Tail(z)) = Head(Tail(s))
  <2>1. PICK t : t = Tail(s)
    OBVIOUS
  <2>2. PICK u : u = Tail(z)
    OBVIOUS
  <2>3. t \in Seq(Symbol) /\ Len(t) = l - 1 /\ \A k \in 1..(l - 1) : t[k] = s[k + 1]
    BY <1>3, <2>1, HeadTailProperties
  <2>4. u \in Seq(Symbol) /\ Len(u) = l + m - 1 /\ \A k \in 1..(l + m - 1) : u[k] = z[k + 1]
    BY <1>6, <1>7, <2>2, HeadTailProperties
  <2>5. t # <<>>
    BY <1>11, <2>1
  <2>6. l - 1 > 0
    BY <2>3, <2>5, EmptySeq
  <2>7. 1 \in 1..(l - 1) /\ 1 \in 1..(l + m - 1) /\ 1 + 1 \in 1..l
    BY <2>6
  <2>8. t[1] = s[1 + 1] /\ u[1] = z[1 + 1] /\ z[1 + 1] = s[1 + 1]
    BY <1>6, <2>3, <2>4, <2>7
  <2>9. u # <<>>
    BY <2>4, <2>6, EmptySeq
  <2>10. Head(u) = u[1] /\ Head(t) = t[1]
    BY <2>3, <2>4, <2>5, <2>9
  <2> QED BY <2>1, <2>2, <2>8, <2>9, <2>10
<1> QED BY <1>2, <1>7, <1>10, <1>11

LEMMA SendLemma ==
  ASSUME InputInv, NEW r \in Requests, Send(r)
  PROVE  InputInv'
<1>1. InputTypeOK /\ AtRequest /\ ~ reader.refused /\ ~ eof /\ reader.phase = "idle"
  BY DEF InputInv, Place, Send
<1>2. /\ Len(sent) \in Nat /\ sent \in Seq(Requests) /\ input \in Seq(Symbol)
      /\ \A k \in 1..Len(sent) : sent[k] \in Requests /\ k \in Nat
  BY <1>1, SentLemma DEF InputTypeOK
<1>3. PICK w : w = AsSent(Len(sent) + 1, r)
  OBVIOUS
<1>4. w \in Seq(Symbol)
  <2>1. PICK n \in Nat : n = Len(sent) + 1
    BY <1>2
  <2> QED BY <1>3, <2>1, AsSentLemma
<1>5. /\ sent' = Append(sent, r) /\ left' = left - 1 /\ left > 0
      /\ input' = input \o w /\ UNCHANGED <<eof, reader, given>>
  BY <1>3 DEF Send
<1>6. /\ sent' \in Seq(Requests) /\ Len(sent') = Len(sent) + 1
      /\ \A k \in 1..Len(sent) : sent'[k] = sent[k]
  BY <1>2, <1>5, AppendProperties
<1>7. InputTypeOK'
  <2>1. input' \in Seq(Symbol)
    BY <1>2, <1>4, <1>5, ConcatProperties
  <2>2. left' \in 0..MaxSent
    BY <1>1, <1>5, InputAssumption DEF InputTypeOK
  <2> QED BY <1>1, <1>5, <1>6, <2>1, <2>2 DEF InputTypeOK
<1>8. \A j \in 0..Len(sent) : j \in 0..Len(sent') /\ Later(sent', j) = Later(sent, j) \o w
  <2> SUFFICES ASSUME NEW j \in 0..Len(sent)
               PROVE  j \in 0..Len(sent') /\ Later(sent', j) = Later(sent, j) \o w
    OBVIOUS
  <2>1. Later(Append(sent, r), j) = Later(sent, j) \o w
    BY <1>2, <1>3, LaterAppends
  <2> QED BY <1>2, <1>5, <1>6, <2>1
<1>9. AtRequest'
  <2>1. CASE Dry
    BY <1>1, <2>1 DEF Dry
  <2>2. CASE Stray
    <3>1. input # <<>>
      BY <2>2 DEF Stray
    <3>2. /\ input' # <<>> /\ Head(input') = Head(input)
          /\ Tail(input) # <<>> => Tail(input') # <<>> /\ Head(Tail(input')) = Head(Tail(input))
      BY <1>2, <1>4, <1>5, <3>1, BehindKeeps
    <3>3. reader'.ignored \/ \E n \in 1..Len(sent') : Padded(sent'[n])
      <4>1. CASE reader.ignored
        BY <1>5, <4>1
      <4>2. CASE ~ reader.ignored
        <5>1. PICK n \in 1..Len(sent) : Padded(sent[n])
          BY <2>2, <4>2 DEF Stray
        <5>2. n \in 1..Len(sent') /\ sent'[n] = sent[n]
          BY <1>2, <1>6
        <5> QED BY <5>1, <5>2
      <4> QED BY <4>1, <4>2
    <3>4. \/ Head(input').kind = "padding"
          \/ /\ Head(input').kind = "STDIN"
             /\ Head(input').len = 0 =>
                  Tail(input') # <<>> /\ Head(Tail(input')).kind = "padding"
      BY <1>1, <2>2, <3>2 DEF Stray
    <3>5. Stray'
      BY <3>2, <3>3, <3>4 DEF Stray, Padded
    <3> QED BY <3>5 DEF AtRequest
  <2>3. ASSUME NEW j \in 0..Len(sent), Ahead(Later(sent, j)) PROVE AtRequest'
    <3>1. input' = Later(sent', j) /\ j \in 0..Len(sent')
      BY <1>1, <1>5, <1>8, <2>3 DEF Ahead, Still
    <3>2. Ahead(Later(sent, j))'
      <4>1. IsCut(input', input')
        BY <1>7, LenProperties DEF InputTypeOK, IsCut
      <4> QED BY <3>1, <4>1 DEF Ahead, Still
    <3> QED BY <3>1, <3>2 DEF AtRequest
  <2>4. ASSUME NEW j \in 0..Len(sent), Ahead(<<Sym("STDIN", j, 0, 0, 0)>> \o Later(sent, j))
        PROVE  AtRequest'
    <3>1. PICK h : h = <<Sym("STDIN", j, 0, 0, 0)>>
      OBVIOUS
    <3>2. PICK z : z = Later(sent, j)
      OBVIOUS
    <3>3. h \in Seq(Symbol) /\ z \in Seq(Symbol)
      <4>1. Sym("STDIN", j, 0, 0, 0) \in Symbol
        BY <1>2, SymLemma DEF HeaderKind
      <4> QED BY <1>2, <3>1, <3>2, <4>1, LaterLemma
    <3>4. input = h \o z
      BY <1>1, <2>4, <3>1, <3>2 DEF Ahead, Still
    <3>5. Assoc(h, z, w)
      BY <1>4, <3>3, GroupLemma
    <3>6. input' = h \o Later(sent', j) /\ j \in 0..Len(sent')
      BY <1>5, <1>8, <3>2, <3>4, <3>5 DEF Assoc
    <3>7. Ahead(<<Sym("STDIN", j, 0, 0, 0)>> \o Later(sent, j))'
      <4>1. IsCut(input', input')
        BY <1>7, LenProperties DEF InputTypeOK, IsCut
      <4> QED BY <3>1, <3>6, <4>1 DEF Ahead, Still
    <3> QED BY <3>6, <3>7 DEF AtRequest
  <2> QED BY <1>1, <2>1, <2>2, <2>3, <2>4 DEF AtRequest
<1> QED BY <1>1, <1>5, <1>7, <1>9 DEF InputInv, Place

LEMMA AheadLess ==
  ASSUME input \in Seq(Symbol), NEW full \in Seq(Symbol), Ahead(full), NEW n \in 0..Len(input),
         input' = SubSeq(input, 1, n), eof'
  PROVE  Ahead(full)'
BY StillLess DEF Ahead, Still

LEMMA LeaveLemma ==
  ASSUME InputInv, NEW n \in 0..Len(input), Leave(n)
  PROVE  InputInv'
<1>1. /\ InputTypeOK /\ Place /\ ~ eof /\ reader.phase # "closed"
      /\ input' = SubSeq(input, 1, n) /\ eof' = TRUE /\ UNCHANGED <<sent, reader, given, left>>
  BY DEF InputInv, Leave
<1>2. /\ Len(sent) \in Nat /\ sent \in Seq(Requests) /\ input \in Seq(Symbol)
      /\ \A k \in 1..Len(sent) : sent[k] \in Requests /\ k \in Nat
  BY <1>1, SentLemma DEF InputTypeOK
<1>3. InputTypeOK'
  <2>1. input' \in Seq(Symbol)
    BY <1>1, <1>2, SplitLemma
  <2> QED BY <1>1, <2>1 DEF InputTypeOK
<1>4. /\ input' # <<>> => input # <<>> /\ Head(input') = Head(input)
      /\ input' # <<>> /\ Tail(input') # <<>> =>
           Tail(input) # <<>> /\ Head(Tail(input)) = Head(Tail(input'))
  <2>1. PICK s : s = SubSeq(input, 1, n)
    OBVIOUS
  <2>2. PICK w : w = Past(input, n)
    OBVIOUS
  <2>3. s \in Seq(Symbol) /\ w \in Seq(Symbol) /\ s \o w = input
    BY <1>2, <2>1, <2>2, SplitLemma, RejoinLemma
  <2>4. s # <<>> => /\ s \o w # <<>> /\ Head(s \o w) = Head(s)
                    /\ Tail(s) # <<>> => Tail(s \o w) # <<>> /\ Head(Tail(s \o w)) = Head(Tail(s))
    BY <2>3, BehindKeeps
  <2> QED BY <1>1, <2>1, <2>3, <2>4
<1>5. AtRequest => AtRequest'
  <2> SUFFICES ASSUME AtRequest PROVE AtRequest'
    OBVIOUS
  <2>1. ~ Dry
    BY <1>1 DEF Dry
  <2>2. CASE Stray
    <3>1. CASE input' = <<>>
      BY <1>1, <3>1 DEF AtRequest, Dry
    <3>2. CASE input' # <<>>
      <4>1. Stray'
        BY <1>1, <1>4, <2>2, <3>2 DEF Stray, Padded
      <4> QED BY <4>1 DEF AtRequest
    <3> QED BY <3>1, <3>2
  <2>3. ASSUME NEW j \in 0..Len(sent), Ahead(Later(sent, j)) PROVE AtRequest'
    <3>1. PICK full : full = Later(sent, j)
      OBVIOUS
    <3>2. full \in Seq(Symbol)
      BY <1>2, <3>1, LaterLemma
    <3>3. Ahead(full)'
      BY <1>1, <1>2, <2>3, <3>1, <3>2, AheadLess
    <3>4. Later(sent', j) = full /\ j \in 0..Len(sent')
      BY <1>1, <3>1
    <3>5. Ahead(Later(sent, j))'
      BY <3>3, <3>4
    <3> QED BY <3>4, <3>5 DEF AtRequest
  <2>4. ASSUME NEW j \in 0..Len(sent), Ahead(<<Sym("STDIN", j, 0, 0, 0)>> \o Later(sent, j))
        PROVE  AtRequest'
    <3>1. PICK full : full = <<Sym("STDIN", j, 0, 0, 0)>> \o Later(sent, j)
      OBVIOUS
    <3>2. full \in Seq(Symbol)
      <4>1. Sym("STDIN", j, 0, 0, 0) \in Symbol
        BY <1>2, SymLemma DEF HeaderKind
      <4>2. Later(sent, j) \in Seq(Symbol)
        BY <1>2, LaterLemma
      <4>3. <<Sym("STDIN", j, 0, 0, 0)>> \in Seq(Symbol)
        BY <4>1
      <4> QED BY <3>1, <4>2, <4>3, ConcatProperties
    <3>3. Ahead(full)'
      BY <1>1, <1>2, <2>4, <3>1, <3>2, AheadLess
    <3>4. <<Sym("STDIN", j, 0, 0, 0)>> \o Later(sent', j) = full /\ j \in 0..Len(sent')
      BY <1>1, <3>1
    <3>5. Ahead(<<Sym("STDIN", j, 0, 0, 0)>> \o Later(sent, j))'
      BY <3>3, <3>4
    <3> QED BY <3>4, <3>5 DEF AtRequest
  <2> QED BY <2>1, <2>2, <2>3, <2>4 DEF AtRequest
<1>6. Fresh => Fresh'
  BY <1>1 DEF Fresh
<1>7. \A m \in Nat : TakenTo(m) => TakenTo(m)'
  BY <1>1 DEF TakenTo
<1>8. CASE reader.phase \in {"idle", "header", "values"}
  BY <1>1, <1>3, <1>5, <1>6, <1>8 DEF InputInv, Place, Malformed
<1>9. CASE reader.phase = "begin"
  <2>1. PICK j \in 1..Len(sent) :
          /\ sent[j].kind = "begin" /\ reader.want = 1 + sent[j].pad /\ Ahead(BeginOn(sent, j))
    BY <1>1, <1>9 DEF Place, AtBegin, BeginOn
  <2>2. PICK full : full = BeginOn(sent, j)
    OBVIOUS
  <2>3. full \in Seq(Symbol)
    BY <1>2, <2>2, BeginOnLemma
  <2>4. Ahead(full)'
    BY <1>1, <1>2, <2>1, <2>2, <2>3, AheadLess
  <2>5. AtBegin'
    BY <1>1, <1>6, <1>9, <2>1, <2>2, <2>4 DEF Place, AtBegin, BeginOn
  <2> QED BY <1>1, <1>3, <1>9, <2>5 DEF InputInv, Place
<1>10. CASE reader.phase = "params"
  <2>1. Fresh
    BY <1>1, <1>10 DEF Place, AtParams
  <2>2. PICK m \in Nat : TakenTo(m) /\ Ahead(ParamsOn(sent, reader.req, m))
    BY <1>1, <1>10 DEF Place, AtParams
  <2>3. PICK full : full = ParamsOn(sent, reader.req, m)
    OBVIOUS
  <2>4. full \in Seq(Symbol)
    <3>1. PICK i : i = reader.req
      OBVIOUS
    <3>2. i \in 1..Len(sent) /\ m \in 0..Len(sent[i].params)
      BY <2>2, <3>1 DEF TakenTo
    <3> QED BY <1>2, <2>3, <3>1, <3>2, ParamsOnLemma
  <2>5. Ahead(full)'
    BY <1>1, <1>2, <2>2, <2>3, <2>4, AheadLess
  <2>6. Ahead(ParamsOn(sent, reader.req, m))'
    BY <1>1, <2>3, <2>5
  <2>7. AtParams'
    BY <1>6, <1>7, <2>1, <2>2, <2>6 DEF AtParams
  <2> QED BY <1>1, <1>3, <1>10, <2>7 DEF InputInv, Place
<1>11. CASE reader.phase = "pairs"
  <2>1. PICK i : i = reader.req
    OBVIOUS
  <2>2. Fresh
    BY <1>1, <1>11 DEF Place, AtPairs
  <2>3. PICK m \in Nat :
          /\ TakenTo(m) /\ m < Len(sent[i].params)
          /\ reader.want = Len(sent[i].params[m + 1]) + sent[i].pad /\ reader.want <= MaxLength
          /\ Ahead(ContentOn(sent, i, m))
    BY <1>1, <1>11, <2>1 DEF Place, AtPairs, ContentOn
  <2>4. PICK full : full = ContentOn(sent, i, m)
    OBVIOUS
  <2>5. full \in Seq(Symbol)
    <3>1. i \in 1..Len(sent)
      BY <2>1, <2>3 DEF TakenTo
    <3>2. Len(sent[i].params) \in Nat
      BY <1>2, <3>1, RequestLemma
    <3>3. m \in 0..(Len(sent[i].params) - 1)
      BY <2>3, <3>2
    <3> QED BY <1>2, <2>4, <3>1, <3>3, ContentOnLemma
  <2>6. Ahead(full)'
    BY <1>1, <1>2, <2>3, <2>4, <2>5, AheadLess
  <2>7. AtPairs'
    <3>1. Fresh' /\ TakenTo(m)'
      BY <1>6, <1>7, <2>2, <2>3
    <3> QED BY <1>1, <2>1, <2>3, <2>4, <2>6, <3>1 DEF AtPairs, ContentOn
  <2> QED BY <1>1, <1>3, <1>11, <2>7 DEF InputInv, Place
<1>12. CASE InBody
  <2>1. PICK i : i = reader.req
    OBVIOUS
  <2>2. /\ AtBody /\ i \in 1..Len(sent) /\ i \in Nat /\ sent[i] \in Requests /\ reader \in Reader
        /\ given \in Seq(Symbol)
        /\ sent[i].pad \in {0, 1} /\ sent[i].endPad \in {0, 1} /\ Len(sent[i].body) \in Nat
        /\ \A k \in 1..Len(sent[i].body) : sent[i].body[k] \in Nat \ {0}
    BY <1>12, <2>1, BodyFacts
  <2>3. TakenTo(Len(sent[reader.req].params))'
    BY <1>1, <2>2 DEF AtBody, TakenTo
  <2>4. \A x : Got(x) => Got(x)'
    BY <1>1 DEF Got
  <2>5. \A x : Size(x)' = Size(x)
    BY <1>1 DEF Size
  <2>6. GotSome => GotSome'
    BY <1>1, <2>4 DEF GotSome
  <2>7. ASSUME NEW m \in Nat, m \in 0..Len(sent[i].body) PROVE BodyOn(sent, i, m) \in Seq(Symbol)
    BY <1>2, <2>2, <2>7, BodyOnLemma
  <2>8. ASSUME NEW m \in Nat, InContent(m) PROVE InContent(m)'
    <3>1. /\ m \in 1..Len(sent[i].body) /\ m \in 0..Len(sent[i].body)
          /\ reader.len \in 1..sent[i].body[m] /\ reader.pad = sent[i].pad
      BY <2>1, <2>2, <2>8 DEF InContent
    <3>2. PICK l \in Nat : l = reader.len
      BY <2>2 DEF Reader
    <3>3. PICK f \in Nat : f = Size(m) - reader.len
      <4>1. /\ Length(sent[i]) \in Nat /\ Size(m) \in 0..Length(sent[i])
            /\ Size(m - 1) \in 0..Length(sent[i]) /\ Size(m) = Size(m - 1) + sent[i].body[m]
        <5>1. m - 1 \in 0..Len(sent[i].body)
          BY <2>2, <3>1
        <5> QED BY <2>1, <2>2, <3>1, <5>1, SizeLemma
      <4>2. sent[i].body[m] \in Nat
        BY <2>2, <3>1
      <4> QED BY <3>1, <3>2, <4>1, <4>2
    <3>4. PICK full : full = (Run("byte", i, f, l) \o PadOf(i, reader.pad)) \o BodyOn(sent, i, m)
      OBVIOUS
    <3>5. full \in Seq(Symbol)
      <4>1. "byte" \in Kinds
        BY DEF Kinds
      <4>2. Run("byte", i, f, l) \in Seq(Symbol)
        BY <2>2, <4>1, RunLemma
      <4>3. PadOf(i, reader.pad) \in Seq(Symbol)
        BY <2>2, <3>1, PadOfLemma
      <4>4. Run("byte", i, f, l) \o PadOf(i, reader.pad) \in Seq(Symbol)
        BY <4>2, <4>3, ConcatProperties
      <4>5. BodyOn(sent, i, m) \in Seq(Symbol)
        BY <2>7, <3>1
      <4> QED BY <3>4, <4>4, <4>5, ConcatProperties
    <3>6. Ahead(full)
      BY <2>1, <2>8, <3>2, <3>3, <3>4 DEF InContent
    <3>7. Ahead(full)'
      BY <1>1, <1>2, <3>5, <3>6, AheadLess
    <3>8. Ahead((Run("byte", reader.req, Size(m) - reader.len, reader.len)
                   \o PadOf(reader.req, reader.pad)) \o BodyOn(sent, reader.req, m))'
      BY <1>1, <2>1, <2>5, <3>2, <3>3, <3>4, <3>7
    <3>9. Got(Size(m) - reader.len)'
      BY <1>1, <2>4, <2>5, <2>8 DEF InContent
    <3> QED BY <1>1, <2>8, <3>8, <3>9 DEF InContent
  <2>9. ASSUME NEW m \in Nat, AtRecord(m) PROVE AtRecord(m)'
    <3>1. m \in 0..Len(sent[i].body) /\ Ahead(BodyOn(sent, i, m))
      BY <2>1, <2>9 DEF AtRecord
    <3>2. PICK full : full = BodyOn(sent, i, m)
      OBVIOUS
    <3>3. Ahead(full)'
      BY <1>1, <1>2, <2>7, <3>1, <3>2, AheadLess
    <3>4. Ahead(BodyOn(sent, reader.req, m))'
      BY <1>1, <2>1, <3>2, <3>3
    <3>5. Got(Size(m))'
      BY <2>4, <2>5, <2>9 DEF AtRecord
    <3> QED BY <1>1, <2>9, <3>4, <3>5 DEF AtRecord
  <2>10. ASSUME NEW m \in Nat, AtPadding(m) PROVE AtPadding(m)'
    <3>1. m \in 1..Len(sent[i].body) /\ m \in 0..Len(sent[i].body)
          /\ Ahead(PadOf(i, 1) \o BodyOn(sent, i, m))
      BY <2>1, <2>2, <2>10 DEF AtPadding
    <3>2. PICK full : full = PadOf(i, 1) \o BodyOn(sent, i, m)
      OBVIOUS
    <3>3. full \in Seq(Symbol)
      <4>1. PadOf(i, 1) \in Seq(Symbol)
        BY <2>2, PadOfLemma
      <4> QED BY <2>7, <3>1, <3>2, <4>1, ConcatProperties
    <3>4. Ahead(full)'
      BY <1>1, <1>2, <3>1, <3>2, <3>3, AheadLess
    <3>5. Ahead(PadOf(reader.req, 1) \o BodyOn(sent, reader.req, m))'
      BY <1>1, <2>1, <3>2, <3>4
    <3>6. Got(Size(m))'
      BY <2>4, <2>5, <2>10 DEF AtPadding
    <3> QED BY <1>1, <2>10, <3>5, <3>6 DEF AtPadding
  <2>11. Misplaced => Misplaced'
    BY <1>1, <1>4, <2>4 DEF Misplaced, Padded
  <2>12. Ended => Ended'
    <3> SUFFICES ASSUME Ended PROVE Ended'
      OBVIOUS
    <3>1. PICK full : full = PadOf(i, sent[i].endPad) \o Later(sent, i)
      OBVIOUS
    <3>2. full \in Seq(Symbol)
      <4>1. PadOf(i, sent[i].endPad) \in Seq(Symbol)
        BY <2>2, PadOfLemma
      <4>2. Later(sent, i) \in Seq(Symbol)
        BY <1>2, <2>2, LaterLemma
      <4> QED BY <3>1, <4>1, <4>2, ConcatProperties
    <3>3. Ahead(full)
      BY <2>1, <3>1 DEF Ended
    <3>4. Ahead(full)'
      BY <1>1, <1>2, <3>2, <3>3, AheadLess
    <3>5. Ahead(PadOf(reader.req, sent[reader.req].endPad) \o Later(sent, reader.req))'
      BY <1>1, <2>1, <3>1, <3>4
    <3>6. Got(Length(sent[reader.req]))'
      BY <1>1, <2>4 DEF Ended, Length
    <3> QED BY <1>1, <3>5, <3>6 DEF Ended
  <2>13. ~ Lost /\ (Broken => Broken')
    BY <1>1, <2>6 DEF Lost, Dry, Broken, Padded
  <2>14. Within => Within'
    BY <2>8, <2>9, <2>11 DEF Within
  <2>15. IF reader'.phase = "padding" THEN \E m \in Nat : AtPadding(m)'
         ELSE (~ reader'.over /\ Within') \/ Ended' \/ Lost' \/ Broken'
    BY <1>1, <2>2, <2>10, <2>12, <2>13, <2>14 DEF AtBody
  <2>16. AtBody'
    BY <1>1, <2>2, <2>3, <2>15 DEF AtBody, HasBody, Length, Padded
  <2> QED BY <1>1, <1>3, <1>12, <2>16 DEF InputInv, Place, InBody
<1> QED BY <1>1, <1>8, <1>9, <1>10, <1>11, <1>12 DEF InputTypeOK, Reader, InBody

(* Only the wish to keep the connection is forgotten, or nothing at all.   *)
LEMMA KeepLemma ==
  ASSUME InputInv, NEW v \in BOOLEAN, v => reader.keep, reader' = [reader EXCEPT !.keep = v],
         UNCHANGED <<input, eof, sent, given, left>>
  PROVE  InputInv'
<1>1. InputTypeOK /\ Place /\ reader \in Reader
  BY DEF InputInv, InputTypeOK
<1>2. reader' \in Reader
  <2>1. reader \in Reader /\ v \in BOOLEAN /\ reader' = [reader EXCEPT !.keep = v]
    BY <1>1
  <2> QED BY ONLY <2>1 DEF Reader
<1>3. /\ reader'.phase = reader.phase /\ reader'.len = reader.len /\ reader'.pad = reader.pad
      /\ reader'.env = reader.env /\ reader'.req = reader.req /\ reader'.want = reader.want
      /\ reader'.ret = reader.ret /\ reader'.piece = reader.piece
      /\ reader'.over = reader.over /\ reader'.asked = reader.asked
      /\ reader'.refused = reader.refused /\ reader'.ignored = reader.ignored
      /\ reader'.keep = v
  <2>1. reader \in Reader /\ reader' = [reader EXCEPT !.keep = v]
    BY <1>1
  <2> QED BY ONLY <2>1 DEF Reader
<1>4. InputTypeOK'
  BY <1>1, <1>2 DEF InputTypeOK
<1>5. AtRequest => AtRequest'
  BY <1>3 DEF AtRequest, Dry, Stray, Ahead, Still, Padded
<1>6. Fresh => Fresh'
  BY <1>3 DEF Fresh
<1>7. \A m \in Nat : TakenTo(m) => TakenTo(m)'
  BY <1>3 DEF TakenTo
<1>8. \A full : Ahead(full) => Ahead(full)'
  BY DEF Ahead, Still
<1>9. AtBegin => AtBegin'
  BY <1>3, <1>6, <1>8 DEF AtBegin
<1>10. AtParams => AtParams'
  BY <1>3, <1>6, <1>7, <1>8 DEF AtParams
<1>11. AtPairs => AtPairs'
  BY <1>3, <1>6, <1>7, <1>8 DEF AtPairs
<1>12. CASE InBody
  <2>1. AtBody
    BY <1>12, BodyFacts
  <2>2. \A x : Got(x) => Got(x)'
    BY <1>3 DEF Got
  <2>3. \A x : Size(x)' = Size(x)
    BY <1>3 DEF Size
  <2>4. GotSome => GotSome'
    BY <1>3, <2>2 DEF GotSome
  <2>5. \A m \in Nat : InContent(m) => InContent(m)'
    BY <1>3, <1>8, <2>2, <2>3 DEF InContent
  <2>6. \A m \in Nat : AtRecord(m) => AtRecord(m)'
    BY <1>3, <1>8, <2>2, <2>3 DEF AtRecord
  <2>7. \A m \in Nat : AtPadding(m) => AtPadding(m)'
    BY <1>3, <1>8, <2>2, <2>3 DEF AtPadding
  <2>8. Misplaced => Misplaced'
    BY <1>3, <2>2 DEF Misplaced, Padded
  <2>9. Ended => Ended'
    BY <1>3, <1>8, <2>2 DEF Ended
  <2>10. Lost => Lost'
    BY <1>3, <2>4 DEF Lost, Dry
  <2>11. Broken => Broken'
    BY <1>3, <2>4 DEF Broken, Padded
  <2>12. Within => Within'
    BY <2>5, <2>6, <2>8 DEF Within
  <2>13. IF reader'.phase = "padding" THEN \E m \in Nat : AtPadding(m)'
         ELSE (~ reader'.over /\ Within') \/ Ended' \/ Lost' \/ Broken'
    BY <1>3, <2>1, <2>7, <2>9, <2>10, <2>11, <2>12 DEF AtBody
  <2>14. AtBody'
    <3>1. TakenTo(Len(sent[reader.req].params))'
      BY <1>3, <2>1 DEF AtBody, TakenTo
    <3>2. HasBody' = HasBody
      BY <1>3 DEF HasBody
    <3> QED BY <1>3, <2>1, <2>13, <3>1, <3>2 DEF AtBody, Padded
  <2> QED BY <1>3, <1>4, <1>12, <2>14 DEF InputInv, Place, InBody
<1>13. CASE ~ InBody
  BY <1>1, <1>3, <1>4, <1>5, <1>6, <1>9, <1>10, <1>11, <1>13
     DEF InputInv, Place, InBody, Excused, Malformed, Padded
<1> QED BY <1>12, <1>13

LEMMA SameLemma ==
  ASSUME InputInv, UNCHANGED inputVars
  PROVE  InputInv'
<1>1. PICK v \in BOOLEAN : v = reader.keep
  BY DEF InputInv, InputTypeOK, Reader
<1>2. reader \in Reader
  BY DEF InputInv, InputTypeOK
<1>3. reader' = [reader EXCEPT !.keep = v] /\ (v => reader.keep)
      /\ UNCHANGED <<input, eof, sent, given, left>>
  BY <1>1, <1>2 DEF inputVars, Reader
<1> QED BY <1>3, KeepLemma

-----------------------------------------------------------------------------
(* Requests are read whole. *)

LEMMA PlaceStep ==
  ASSUME InputInv, [ConnectionNext]_connectionVars
  PROVE  InputInv'
<1>1. CASE Beginning
  BY <1>1, ReadRequestLemma DEF Beginning
<1>2. CASE ReadsRequest
  BY <1>2, NoRequestLemma, TakesHeaderLemma, TakesBeginLemma, TakesValuesLemma,
     TakesParamsLemma, TakesPairsLemma, CutOffLemma DEF ReadsRequest
<1>3. CASE ReadsBody
  BY <1>3, AsksLemma, NoRecordLemma, NextRecordLemma, ContentLemma, ContentFailsLemma,
     RecordPaddingLemma DEF ReadsBody
<1>4. CASE Writing
  <2>1. PICK v \in BOOLEAN : v = (reader.keep /\ sound')
    OBVIOUS
  <2>2. reader' = [reader EXCEPT !.keep = v] /\ (v => reader.keep)
        /\ UNCHANGED <<input, eof, sent, given, left>>
    BY <1>4, <2>1 DEF Writing, KeptAfter
  <2> QED BY <2>2, KeepLemma
<1>5. CASE Finishing
  <2>1. PICK x \in {"idle", "closed"} : x = IF KeptAfter THEN "idle" ELSE "closed"
    OBVIOUS
  <2>2. /\ reader.phase = "work" /\ (reader.asked => reader.over \/ HasBody)
        /\ UNCHANGED <<input, eof, sent, given, left>>
        /\ reader' = [reader EXCEPT !.phase = x, !.ignored = @ \/ (~reader.asked /\ ~HasBody)]
    BY <1>5, <2>1 DEF Finishing, FinishRequest
  <2>3. x = "idle" => reader.keep
    BY <2>1 DEF KeptAfter
  <2> QED BY <2>2, <2>3, FinishRequestLemma
<1>6. CASE Accepting
  BY <1>6, AcceptLemma DEF Accepting
<1>7. CASE Peer
  BY <1>7, SendLemma, LeaveLemma DEF Peer, Server
<1>8. CASE UNCHANGED connectionVars
  BY <1>8, SameLemma DEF connectionVars
<1> QED BY <1>1, <1>2, <1>3, <1>4, <1>5, <1>6, <1>7, <1>8 DEF ConnectionNext, Reading

LEMMA PlaceWhole ==
  ASSUME InputInv
  PROVE  InputTypeOK /\ RequestsAreWhole
<1>1. InputTypeOK /\ Place
  BY DEF InputInv
<1>2. ASSUME InBody
      PROVE  LET r == sent[reader.req] IN
               /\ ~ Malformed(r)
               /\ reader.env = All("pair", reader.req, Total(r.params))
               /\ IsPrefix(given \o reader.piece, All("byte", reader.req, Length(r)))
               /\ reader.over => HasBody \/ eof \/ Padded(r)
  <2>1. PICK i : i = reader.req
    OBVIOUS
  <2>2. /\ AtBody /\ i \in 1..Len(sent) /\ i \in Nat /\ sent[i] \in Requests
        /\ TakenTo(Len(sent[i].params)) /\ Len(sent[i].body) \in Nat
    BY <1>2, <2>1, BodyFacts
  <2>3. ~ Malformed(sent[i])
    <3>1. /\ sent[i].kind = "begin" /\ sent[i].known
          /\ \A m \in 1..Len(sent[i].params) :
               Len(sent[i].params[m]) + sent[i].pad <= MaxLength
               /\ "part" \notin Range(sent[i].params[m])
      BY <2>1, <2>2 DEF TakenTo
    <3>2. \A m \in 1..Len(sent[i].params) : Len(sent[i].params[m]) \in Nat
      BY <2>2, RequestLemma
    <3>3. DOMAIN sent[i].params = 1..Len(sent[i].params)
      BY <2>2, RequestLemma, LenProperties
    <3>4. sent[i].pad \in {0, 1} /\ MaxLength \in Nat
      BY <2>2, RequestLemma, InputAssumption
    <3> QED BY <3>1, <3>2, <3>3, <3>4 DEF Malformed
  <2>4. reader.env = All("pair", i, Total(sent[i].params))
    <3>1. Total(sent[i].params) = Upto(sent[i].params, Len(sent[i].params))
      BY <2>2, RequestLemma, UptoLemma
    <3> QED BY <2>1, <2>2, <3>1 DEF TakenTo
  <2>5. PICK x \in 0..Length(sent[i]) : Got(x)
    <3>1. CASE reader.phase = "padding"
      <4>1. PICK n \in Nat : AtPadding(n)
        BY <2>2, <3>1 DEF AtBody
      <4>2. n \in 1..Len(sent[i].body) /\ Got(Size(n))
        BY <2>1, <4>1 DEF AtPadding
      <4>3. n \in 0..Len(sent[i].body)
        BY <2>2, <4>2
      <4> QED BY <2>1, <2>2, <4>2, <4>3, SizeLemma
    <3>2. CASE reader.phase # "padding"
      <4>1. GotSome
        BY <1>2, <2>2, <3>2, WithinGotSome DEF AtBody
      <4> QED BY <2>1, <4>1 DEF GotSome
    <3> QED BY <3>1, <3>2
  <2>6. IsPrefix(given \o reader.piece, All("byte", i, Length(sent[i])))
    <3>1. PICK l \in Nat : l = Length(sent[i])
      BY <2>1, <2>2, SizeLemma
    <3>2. x \in Nat /\ x <= l
      BY <2>5, <3>1
    <3>3. PICK a : a = All("byte", i, x)
      OBVIOUS
    <3>4. PICK b : b = All("byte", i, l)
      OBVIOUS
    <3>5. /\ a \in Seq(Symbol) /\ Len(a) = x /\ (\A k \in 1..x : a[k] = Sym("byte", i, k, 0, 0))
          /\ b \in Seq(Symbol) /\ Len(b) = l /\ (\A k \in 1..l : b[k] = Sym("byte", i, k, 0, 0))
      BY <2>2, <3>2, <3>3, <3>4, AllIs DEF Kinds
    <3>6. SubSeq(a, 1, x) = SubSeq(b, 1, x)
      <4>1. PICK c : c = SubSeq(a, 1, x)
        OBVIOUS
      <4>2. PICK d : d = SubSeq(b, 1, x)
        OBVIOUS
      <4>3. x \in 0..Len(a) /\ x \in 0..Len(b)
        BY <3>2, <3>5
      <4>4. /\ c \in Seq(Symbol) /\ Len(c) = x /\ (\A k \in 1..x : c[k] = a[k])
            /\ d \in Seq(Symbol) /\ Len(d) = x /\ (\A k \in 1..x : d[k] = b[k])
        BY <3>5, <4>1, <4>2, <4>3, SplitLemma
      <4>5. \A k \in 1..x : c[k] = d[k]
        <5> SUFFICES ASSUME NEW k \in 1..x PROVE c[k] = d[k]
          OBVIOUS
        <5>1. k \in 1..l
          BY <3>1, <3>2
        <5> QED BY <3>5, <4>4, <5>1
      <4>6. c = d
        BY <4>4, <4>5, SeqEqual
      <4> QED BY <4>1, <4>2, <4>6
    <3>7. given \o reader.piece = a
      BY <2>1, <2>5, <3>3 DEF Got
    <3> QED BY <3>1, <3>2, <3>4, <3>5, <3>6, <3>7 DEF IsPrefix
  <2> QED BY <2>1, <2>2, <2>3, <2>4, <2>6 DEF AtBody
<1>3. ASSUME reader.refused
      PROVE  eof \/ reader.ignored \/ \E n \in DOMAIN sent : Malformed(sent[n]) \/ Padded(sent[n])
  <2>1. reader.phase = "closed"
    BY <1>1, <1>3 DEF InputTypeOK, Reader, Place, Fresh, AtBegin, AtParams, AtPairs, AtBody
  <2>2. Excused
    BY <1>1, <1>3, <2>1 DEF Place
  <2>3. DOMAIN sent = 1..Len(sent)
    BY <1>1, LenProperties DEF InputTypeOK
  <2> QED BY <2>2, <2>3 DEF Excused
<1> QED BY <1>1, <1>2, <1>3 DEF RequestsAreWhole, InBody

(* Whatever the requests are, however much of them has come and whenever   *)
(* the web server leaves, a request is taken with its own parameters and   *)
(* body, and none is refused without a cause.                              *)
THEOREM ConnectionRequestsAreWhole == ConnectionSpec => [](InputTypeOK /\ RequestsAreWhole)
<1>1. ConnectionInit => InputInv
  BY InputInitLemma DEF ConnectionInit
<1>2. InputInv /\ [ConnectionNext]_connectionVars => InputInv'
  BY PlaceStep
<1>3. InputInv => InputTypeOK /\ RequestsAreWhole
  BY PlaceWhole
<1> QED BY <1>1, <1>2, <1>3, PTL DEF ConnectionSpec

(* ConnectionIsInStep has three parts, and this is all of it: what a       *)
(* request is made of is read whole, and the reply to it is sent whole     *)
(* before the connection is kept for the next one.                         *)
THEOREM ConnectionInStep == ConnectionSpec => []ConnectionIsInStep
<1>1. ConnectionSpec => [](InputTypeOK /\ RequestsAreWhole)
  BY ConnectionRequestsAreWhole
<1>2. ConnectionSpec => []KeptIsAnswered
  BY ConnectionKeptIsAnswered
<1>3. InputTypeOK /\ RequestsAreWhole /\ KeptIsAnswered <=> ConnectionIsInStep
  BY DEF ConnectionIsInStep
<1> QED BY <1>1, <1>2, <1>3, PTL
=============================================================================
