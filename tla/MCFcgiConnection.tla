--------------------------- MODULE MCFcgiConnection ---------------------------
EXTENDS FcgiConnection

(* Around the room in the buffer (8184), its size, twice its size, and the *)
(* longest record: lengths that end a record just before, at and after a   *)
(* boundary, with and without padding.                                     *)
Lengths == {1, 8, 13, 8160, 8175, 8183, 8184, 8185, 16367, 16368,
            65528, 65535, 65536, 131070}

Request(params, body, pad, endPad) ==
  [kind |-> "begin", known |-> TRUE, keep |-> TRUE, params |-> params,
   body |-> body, pad |-> pad, endPad |-> endPad]

Bare    == Request(<<>>, <<>>, 0, 0)
Get     == Request(<<<<"pair", "pair">>, <<"pair">>>>, <<>>, 1, 0)
Post    == Request(<<<<"pair">>>>, <<2, 1>>, 1, 0)
Big     == Request(<<>>, <<1, 2>>, 0, 0)
Cut     == Request(<<<<"pair", "part">>, <<"part">>>>, <<>>, 0, 0)
Long    == Request(<<<<"pair", "pair", "pair">>>>, <<>>, 1, 0)
AtEnd   == Request(<<<<"pair">>>>, <<1>>, 0, 1)

AllRequests ==
  {Bare, [Bare EXCEPT !.keep = FALSE], Get, Post, Big, Cut, Long, AtEnd, [Get EXCEPT !.keep = FALSE],
   [Bare   EXCEPT !.known = FALSE], [Bare   EXCEPT !.kind = "values"],
   [Bare   EXCEPT !.kind = "other"]}
=============================================================================
