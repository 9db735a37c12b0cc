------------------------------ MODULE MCHybi13 ------------------------------
(* Frames of every kind, in streams of up to three. *)
EXTENDS Hybi13

F(o, p, f) == [op |-> o, payload |-> p, fin |-> f]
Long == [i \in 1..126 |-> i % 7]

MCKeys == {<<1, 2, 4, 128>>}
MCSendable == {F(TEXT, <<>>, TRUE), F(TEXT, <<65, 195, 169>>, TRUE), F(TEXT, <<66>>, FALSE),
               F(CONTINUATION, <<67, 68, 69>>, FALSE), F(CONTINUATION, <<>>, TRUE),
               F(2, Long, FALSE), F(9, <<9, 8>>, TRUE), F(10, <<>>, TRUE)}
\* A text cut within a character, its two ends, a surrogate, an overlong form; close
\* frames with a code not for the wire and with a cut reason.
MCForeign == {F(TEXT, <<240, 144>>, FALSE), F(CONTINUATION, <<128, 128>>, TRUE),
              F(TEXT, <<237, 160, 128>>, TRUE),
              F(TEXT, <<224, 159, 191>>, TRUE), F(TEXT, <<65, 226>>, TRUE),
              F(CLOSE, <<3, 237>>, TRUE), F(CLOSE, <<3, 232, 195>>, TRUE)}

B(b, s, e, w, c) == [b0 |-> b, size |-> s, ext |-> e, unmask |-> w, code |-> c]
MCBroken == {B(129, 1, <<>>, TRUE, 1002), B(193, 0, <<>>, FALSE, 1002),
             B(131, 0, <<>>, FALSE, 1002), B(9, 0, <<>>, FALSE, 1002),
             B(137, 126, <<1, 0>>, FALSE, 1002), B(130, 126, <<0, 125>>, FALSE, 1011),
             B(130, 127, <<0, 0, 0, 0, 0, 0, 255, 255>>, FALSE, 1011),
             B(130, 127, <<0, 0, 0, 0, 0, 1, 0, 0>>, FALSE, 1009)}
MCCloseCodes == {999, 1000, 1004, 1005, 1006, 1015, 1016, 2999, 4999, 5000}
=============================================================================
