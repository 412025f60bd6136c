----------------------------- MODULE MessageText -----------------------------
(***************************************************************************)
(* HTTP/1 messages as text (http1/HTTP1.cpp, the header lines of           *)
(* http1/Transport.cpp, Headers.cpp, Stream.cpp, StringUtils-inl.h).       *)
(*                                                                         *)
(* A text is a sequence of characters.  Those the parser looks at ("SP",   *)
(* "HT", "CR", "LF", ":", the digits) stand for themselves; a word it      *)
(* never looks into, such as the name of a header, is one character.       *)
(* Headers is a sequence of fields in the order of their insertion; what   *)
(* the unordered multimap makes of it when it is listed is Orders.         *)
(***************************************************************************)
EXTENDS Integers, Sequences, SequencesExt

CONSTANTS
    Char,     \* the characters
    Lower,    \* tolower, on the characters it changes
    SSizeMax, \* the largest ssize_t
    AnyOrder  \* bound: FALSE to list different names in the order of insertion only

White == {"SP", "HT"}
CRLF == <<"CR", "LF">>
Digits10 == <<"0", "1", "2", "3", "4", "5", "6", "7", "8", "9">>
Words == {"HTTP/1.1", "reason", "now", "Shitty"}

OwnNames == {"date", "server", "content-length", "transfer-encoding"}

\* tolower leaves what it makes, and the names above, as they are.
ASSUME TextAssumption ==
    /\ White \cup Range(CRLF) \cup {":"} \cup Range(Digits10) \cup Words
         \cup OwnNames \subseteq Char
    /\ Range(Lower) \subseteq Char \ (White \cup Range(CRLF) \cup {":"})
    /\ DOMAIN Lower \cap (Range(Lower) \cup OwnNames) = {}
    /\ SSizeMax \in Nat /\ AnyOrder \in BOOLEAN

IsDigit(c) == c \in Range(Digits10)
DecimalValue(c) == (CHOOSE i \in 1..10 : Digits10[i] = c) - 1

\* std::to_string(size_t)
Decimal[n \in Nat] ==
    IF n < 10 THEN <<Digits10[n + 1]>> ELSE Decimal[n \div 10] \o <<Digits10[(n % 10) + 1]>>

-----------------------------------------------------------------------------
\* StringUtils-inl.h

AsciiLower(s) == [i \in DOMAIN s |-> IF s[i] \in DOMAIN Lower THEN Lower[s[i]] ELSE s[i]]

\* Mutant: as if the standard's equality had been left in place.
SameSpelling(a, b) == a = b

\* CaseInsensitiveEqual
SameName(a, b) == AsciiLower(a) = AsciiLower(b)

\* trimTrailingLWS: i is where the loop stops, counted from 0; the string is cut
\* before that place, not behind it, unless the loop stopped at the last one.
TrimTrailingLWS(s) ==
    LET other == {k \in DOMAIN s : s[k] \notin White}
        i == IF other = {} THEN 0 ELSE Max(other) - 1
    IN  IF i + 1 # Len(s) THEN SubSeq(s, 1, i) ELSE s

TrimLeadingLWS(s) ==
    LET other == {k \in DOMAIN s : s[k] \notin White}
    IN  IF other = {} THEN <<>> ELSE SubSeq(s, Min(other), Len(s))

TrimLWS(s) == TrimLeadingLWS(TrimTrailingLWS(s))

-----------------------------------------------------------------------------
\* Headers.cpp and Stream.cpp

\* The elements of s at the places in keep, in their order.
Selected(s, keep) ==
    LET taken[i \in 0..Len(s)] ==
            IF i = 0 THEN <<>>
            ELSE IF i \in keep THEN Append(taken[i - 1], s[i]) ELSE taken[i - 1]
    IN  taken[Len(s)]

Field(name, value) == [name |-> name, value |-> value]

\* The places find may return: with several fields of a name it is any of them.
Find(kv, name) == {i \in DOMAIN kv : SameName(kv[i].name, name)}

HeadersAdd(kv, name, value) == Append(kv, Field(name, value))
HeadersRemove(kv, name) == Selected(kv, DOMAIN kv \ Find(kv, name))
HeadersSet(kv, name, value) == HeadersAdd(HeadersRemove(kv, name), name, value)

\* Headers(std::initializer_list<std::string>), of one string with a colon in it
FromString(name, s) == Field(TrimLWS(name), TrimLWS(s))

\* setDateHeader, setServerHeader, setContentLength: only if there is none.
SetIfAbsent(kv, name, value) ==
    IF Find(kv, name) = {} THEN HeadersAdd(kv, name, value) ELSE kv

SetGeneralServerHeaders(kv) ==
    SetIfAbsent(SetIfAbsent(kv, <<"date">>, <<"now">>), <<"server">>, <<"Shitty">>)

SetContentLength(kv, body) == SetIfAbsent(kv, <<"content-length">>, Decimal[Len(body)])

\* The orders in which the unordered multimap may list its fields: place i of the
\* listing is for the field at place p[i].  Neither different names nor several
\* fields of one name keep the order of their insertion.
Orders(kv) ==
    {p \in [DOMAIN kv -> DOMAIN kv] :
        /\ \A i, j \in DOMAIN kv : p[i] = p[j] => i = j
        /\ AnyOrder \/ \A i \in DOMAIN kv : SameName(kv[p[i]].name, kv[i].name)}
Listed(kv, p) == [i \in DOMAIN kv |-> kv[p[i]]]

-----------------------------------------------------------------------------
\* HTTP1.cpp: writing

\* listing is what the loop over the multimap meets.
RenderHeaders(listing) ==
    FlattenSeq([i \in DOMAIN listing |->
                   listing[i].name \o <<":", "SP">> \o listing[i].value \o CRLF]) \o CRLF

RequestLine(r) == r.method \o <<"SP">> \o r.path \o <<"SP", "HTTP/1.1">>

\* statusLine; StatusStrings::get throws for a code that is not in its table.
HasStatusString(code) == code \in 100..599
StatusLine(code) == <<"HTTP/1.1", "SP">> \o Decimal[code] \o <<"SP", "reason">>

\* Transport::sendHeaders, for a response without a body: the headers, in the
\* order p.
HeadersToSend(kv) == SetGeneralServerHeaders(kv)
SendHeaders(firstLine, kv, p) ==
    firstLine \o CRLF \o RenderHeaders(Listed(HeadersToSend(kv), p))

\* Transport::sendMessage
OutgoingHeaders(kv, body) == SetContentLength(SetGeneralServerHeaders(kv), body)
SendMessage(firstLine, kv, body, p) ==
    firstLine \o CRLF \o RenderHeaders(Listed(OutgoingHeaders(kv, body), p)) \o body

-----------------------------------------------------------------------------
\* HTTP1.cpp and Transport.cpp: reading

RemoveTrailingChar(s, c) == IF s # <<>> /\ Last(s) = c THEN Front(s) ELSE s
TrimNewline(s) == RemoveTrailingChar(RemoveTrailingChar(s, "LF"), "CR")

\* findEndOfLine: the length of the first line, or 0.
LineLength(buf) ==
    LET ends == {i \in DOMAIN buf : buf[i] = "LF"} IN IF ends = {} THEN 0 ELSE Min(ends)

GetLine(buf) == TrimNewline(SubSeq(buf, 1, LineLength(buf)))

Spaces(s) == {i \in DOMAIN s : s[i] = "SP"}
MalformedLine == [kind |-> "malformed"]

\* parseRequestLine
ParseRequestLine(s) ==
    IF Cardinality(Spaces(s)) < 2 THEN MalformedLine
    ELSE LET sp1 == Min(Spaces(s))
             sp2 == Min(Spaces(s) \ {sp1})
         IN  [kind |-> "request", method |-> SubSeq(s, 1, sp1 - 1),
              path |-> SubSeq(s, sp1 + 1, sp2 - 1)]

\* parseStatusLine
ParseStatusLine(s) ==
    IF Cardinality(Spaces(s)) < 2 THEN MalformedLine
    ELSE LET sp1 == Min(Spaces(s))
             code == SubSeq(s, sp1 + 1, Min(Spaces(s) \ {sp1}) - 1)
         IN  IF Len(code) # 3 \/ ~(\A i \in DOMAIN code : IsDigit(code[i])) THEN MalformedLine
             ELSE [kind |-> "response",
                   code |-> DecimalValue(code[1]) * 100 + DecimalValue(code[2]) * 10
                              + DecimalValue(code[3])]

\* Transport::headerLine: without a space behind it the colon stays in the value.
HeaderLine(line) ==
    LET colon == Min({i \in DOMAIN line : line[i] = ":"})
        start == IF colon < Len(line) /\ line[colon + 1] = "SP" THEN colon + 1 ELSE colon
    IN  Field(AsciiLower(SubSeq(line, 1, colon - 1)), TrimLWS(SubSeq(line, start, Len(line))))

\* std::stoul: white space, then as many digits as there are; -1 if there are none.
\* (A sign, which it also takes, is left out.)
Stoul(s) ==
    LET t == TrimLeadingLWS(s)
        n == Max({k \in 0..Len(t) : \A i \in 1..k : IsDigit(t[i])})
        value[k \in 0..n] ==
            IF k = 0 THEN 0 ELSE 10 * value[k - 1] + DecimalValue(t[k])
    IN  IF n = 0 THEN -1 ELSE value[n]

\* getContentLength: the lengths it may return, with -1 for a chunked body and
\* Throws for the exception.
Throws == -2
GetContentLength(kv) ==
    LET found == Find(kv, <<"content-length">>)
        length(i) == LET n == Stoul(kv[i].value) IN IF n \in 0..SSizeMax THEN n ELSE Throws
    IN  IF found # {} THEN {length(i) : i \in found}
        ELSE IF Find(kv, <<"transfer-encoding">>) # {} THEN {-1} ELSE {0}
=============================================================================
