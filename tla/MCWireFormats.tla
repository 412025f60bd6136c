---------------------------- MODULE MCWireFormats ----------------------------
(* A small instance of WireFormats for TLC: octets of three bits, digits of    *)
(* two, numbers of seven.                                                      *)
EXTENDS WireFormats

-----------------------------------------------------------------------------
\* Frames: every length and every stream identifier.
MCFrameHeaders ==
    [length : 0..(Base3 - 1), type : {1, 5}, flags : {1, 5}, reserved : {0},
     streamId : {0, 1}] \cup
    [length : {0, 1}, type : {1, 5}, flags : {5}, reserved : {0, 1},
     streamId : 0..(HalfWord - 1)]

\* Known numbers, unknown ones, and some that differ from a known one only above
\* or in the top bit of an octet.
MCIds == {0, 1, 2, 3, 5, 9, 33}

\* Octets with and without the top bit.
MCValues == {0, 4, 585, 2048, 4095}
MCDefaults == <<64, 4095>>
MCFragments == {<<1>>}

-----------------------------------------------------------------------------
\* Numbers: nothing follows, or an octet that could end or continue a number.
MCFollowing == {<<>>, <<0>>, <<2 * Cont - 1>>}

\* Bits: every input of up to three octets.
MCInputs == UNION {[1..n -> Octet] : n \in 0..3}

-----------------------------------------------------------------------------
\* Strings.  Codes inside an octet, of a whole one, over two and over three octets,
\* behind one and two octets of ones, and of three whole octets.
MCEtable ==
    [a |-> <<0, 0>>, b |-> <<0, 1>>, c |-> <<1, 0>>, d |-> <<1, 1, 0>>,
     e |-> <<1, 1, 1, 0>>, f |-> <<1, 1, 1, 1, 0>>, g |-> <<1, 1, 1, 1, 1, 0, 0>>,
     h |-> <<1, 1, 1, 1, 1, 1, 1, 0>>, i |-> <<1, 1, 1, 1, 1, 1, 1, 1, 0>>]
MCEos == <<1, 1, 1, 1, 1, 1, 1, 1, 1>>

\* Every string of up to four symbols; strings with two long codes among enough short
\* ones to be sent coded, each at every place of an octet; and strings whose length
\* has no prefix: two that are coded, one that is not.
Same(s, n) == [k \in 1..n |-> s]
MCStrings ==
    SeqOf(DOMAIN MCEtable, 4)
      \cup {Same("a", m) \o <<x>> \o Same("a", 12 - m) \o <<y>> :
                m \in 0..12, x, y \in {"g", "h", "i"}}
      \cup {Same("a", 67), Same("d", 60) \o Same("a", 7), Same("i", 67)}

-----------------------------------------------------------------------------
\* Messages: headers this program adds itself, spelt in two ways, and another
\* one; values with white space before, in and behind them, with a colon, and
\* lengths.
MCChar ==
    {"SP", "HT", "CR", "LF", ":", "0", "1", "2", "3", "4", "5", "6", "7", "8", "9"} \cup Words
      \cup OwnNames \cup {"D", "L", "T", "GET", "/", "x", "y", "b"}
MCLower == "D" :> "date" @@ "L" :> "content-length" @@ "T" :> "transfer-encoding"
MCTextNames == {<<"date">>, <<"D">>, <<"L">>, <<"T">>}
MCTextValues == {<<>>, <<"HT", "x", "SP", ":", "SP">>, <<"1", "2">>, <<"1", "2", "SP">>}
MCFolds == {<<>>, <<"SP", "y">>}
MCBodies == {<<>>, <<"b", "LF", "b", "b", "b", "b", "b", "b", "b", "b", "b", "b">>}
MCFirsts ==
    {[kind |-> "response", code |-> c] : c \in {101, 200, 600}}
      \cup {[kind |-> "request", method |-> <<"GET">>, path |-> <<"/">>]}
=============================================================================
