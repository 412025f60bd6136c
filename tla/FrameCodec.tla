------------------------------ MODULE FrameCodec ------------------------------
(***************************************************************************)
(* The wire form of HTTP/2 frame headers and of settings (http2/Frame.cpp, *)
(* http2/Settings.cpp): what one side writes and the other reads back.     *)
(*                                                                         *)
(* An octet has Base values, 256 in the code; the fields keep their number *)
(* of octets: three for the length, four for the reserved bit and the      *)
(* stream identifier and for the value of a setting, two for its number.   *)
(* The buffers hold `char', which the compiler may make signed.            *)
(***************************************************************************)
EXTENDS Integers, Sequences

CONSTANTS
    Base,        \* 256 in the code
    LastName,    \* Settings::_Last; _First is 1
    Defaults     \* the initial values_ of a Settings

Half == Base \div 2
Base2 == Base * Base
Base3 == Base2 * Base
Word == Base3 * Base
HalfWord == Base3 * Half
Names == 1..LastName

ASSUME OctetAssumption ==
    /\ Base \in Nat /\ Base % 2 = 0
    /\ LastName \in Nat \ {0} /\ LastName + 1 < Half
    /\ Defaults \in [Names -> 0..(Word - 1)]

VARIABLE signed   \* char is signed in this build

\* The octet of x whose unit is u.
OctetOf(x, u) == (x \div u) % Base

\* FrameHeader::writeTo
ReservedAndStreamId(h) == h.reserved * HalfWord + h.streamId
HeaderWriteTo(h) ==
    LET word == ReservedAndStreamId(h) IN
    <<OctetOf(h.length, Base2), OctetOf(h.length, Base), OctetOf(h.length, 1),
      h.type, h.flags,
      OctetOf(word, Base3), OctetOf(word, Base2), OctetOf(word, Base), OctetOf(word, 1)>>

\* A HeadersFrame as ServerStream::sendResponse fills it: END_STREAM and
\* END_HEADERS are bits 0 and 2; nothing sets a padding.
HeadersFrame(streamId, fragment) ==
    [header |-> [length |-> Len(fragment), type |-> 1, flags |-> 1 + 4, reserved |-> 0,
                 streamId |-> streamId],
     payload |-> fragment]

\* A frame: its header, then its payload.
FrameWriteTo(f) == HeaderWriteTo(f.header) \o f.payload

\* One setting: its number has two octets, its value four.
Entry(id, value) ==
    <<OctetOf(id, Base), OctetOf(id, 1), OctetOf(value, Base3), OctetOf(value, Base2),
      OctetOf(value, Base), OctetOf(value, 1)>>

\* Settings::writeTo: six octets for each setting, one after the other.
SettingsWriteTo(entries) ==
    [j \in 1..(6 * Len(entries)) |->
        LET e == entries[((j - 1) \div 6) + 1] IN Entry(e[1], e[2])[((j - 1) % 6) + 1]]

\* A char below zero: the conversion to an unsigned integer extends its sign.
Negative(o) == signed /\ o >= Half

\* An octet after the OR with the octets below it: one that is negative has
\* covered it with ones.
Covered(o, below) == IF \E b \in below : Negative(b) THEN Base - 1 ELSE o

\* static_cast<uint32_t>(o3) << 24 | ... | static_cast<uint32_t>(o0) << 0
Joined(o3, o2, o1, o0) ==
    Covered(o3, {o2, o1, o0}) * Base3 + Covered(o2, {o1, o0}) * Base2
      + Covered(o1, {o0}) * Base + o0

\* Mutant: the reserved bit is left in the stream identifier.
ReadUnmasked(s) ==
    LET word == Joined(s[6], s[7], s[8], s[9]) IN
    [length |-> Joined(0, s[1], s[2], s[3]) % Base3, type |-> s[4], flags |-> s[5],
     reserved |-> word \div HalfWord, streamId |-> word]

\* readFrameHeader: the length has 24 bits, whatever is above is cut off.
ReadFrameHeader(s) ==
    LET word == Joined(s[6], s[7], s[8], s[9]) IN
    [length |-> Joined(0, s[1], s[2], s[3]) % Base3, type |-> s[4], flags |-> s[5],
     reserved |-> word \div HalfWord, streamId |-> word % HalfWord]

\* The setting of six octets behind the first `at' of s.
SettingId(s, at) == Joined(0, 0, s[at + 1], s[at + 2]) % Base2
SettingValue(s, at) == Joined(s[at + 3], s[at + 4], s[at + 5], s[at + 6])

\* Mutant: a number out of range is taken for the last setting.
AssignUnchecked(values, s, at) ==
    [values EXCEPT ![IF SettingId(s, at) \in Names THEN SettingId(s, at) ELSE LastName]
        = SettingValue(s, at)]

\* The body of the loop of createFromBuffer: a number out of range is skipped.
Assign(values, s, at) ==
    IF SettingId(s, at) \in Names
    THEN [values EXCEPT ![SettingId(s, at)] = SettingValue(s, at)] ELSE values

\* The exception "malformed SETTINGS".
Malformed == <<>>

\* Settings::createFromBuffer: six octets at a time, starting from the defaults.
CreateFromBuffer(s) ==
    LET after[i \in 0..(Len(s) \div 6)] ==
            IF i = 0 THEN Defaults ELSE Assign(after[i - 1], s, 6 * (i - 1))
    IN  IF Len(s) % 6 # 0 THEN Malformed ELSE after[Len(s) \div 6]
=============================================================================
