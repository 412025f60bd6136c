------------------------------ MODULE FrameWire ------------------------------
(***************************************************************************)
(* An HTTP/2 frame, or the payload of a SETTINGS frame, on the wire: its   *)
(* octets are written at one end and read at the other (FrameCodec), by a  *)
(* build with signed or with unsigned char.                                *)
(***************************************************************************)
EXTENDS FrameCodec, FiniteSetsExt

CONSTANTS
    FrameHeaders, \* headers of frames
    Fragments,    \* header block fragments of the server's responses
    Ids,          \* numbers a peer gives settings, known to this server or not
    Values,       \* values of settings
    MaxEntries    \* bound: settings in a SETTINGS frame of the peer

FrameHeader ==
    [length : 0..(Base3 - 1), type : 0..(Base - 1), flags : 0..(Base - 1),
     reserved : {0, 1}, streamId : 0..(HalfWord - 1)]

ASSUME FrameAssumption ==
    /\ FrameHeaders \subseteq FrameHeader
    /\ Fragments \subseteq Seq(0..(Base - 1)) /\ \A f \in Fragments : Len(f) < Base3
    /\ Ids \subseteq 0..(Base2 - 1) /\ Values \subseteq 0..(Word - 1)
    /\ MaxEntries \in Nat

VARIABLES
    item,    \* what is sent: a frame, or the settings of a SETTINGS frame
    step,    \* start, written or read
    wire,    \* its octets
    result   \* what is made of them

frameVars == <<signed, item, step, wire, result>>

\* Frames of the peer by their header; and the server's answer, with its payload.
WireFrames ==
    {[header |-> h, payload |-> <<>>] : h \in FrameHeaders} \cup
    {HeadersFrame(h.streamId, f) : h \in FrameHeaders, f \in Fragments}

\* The server's own settings, and those of a peer: any in any order, with some
\* octets too many perhaps.
WireSettings ==
    {[entries |-> [n \in Names |-> <<n, v[n]>>], stray |-> 0] : v \in [Names -> Values]} \cup
    [entries : UNION {[1..n -> Ids \X Values] : n \in 0..MaxEntries}, stray : 0..5]

FrameInit ==
    /\ signed \in BOOLEAN
    /\ item \in [frame : WireFrames] \cup [settings : WireSettings]
    /\ step = "start" /\ wire = <<>> /\ result = <<>>

IsFrame == DOMAIN item = {"frame"}
IsSettings == DOMAIN item = {"settings"}

Writes(octets) ==
    /\ step = "start" /\ step' = "written"
    /\ wire' = octets
    /\ UNCHANGED <<signed, item, result>>

Reads(value) ==
    /\ step = "written" /\ step' = "read"
    /\ result' = value
    /\ UNCHANGED <<signed, item, wire>>

WriteFrame == IsFrame /\ Writes(FrameWriteTo(item.frame))

WriteSettings ==
    /\ IsSettings
    /\ Writes(SettingsWriteTo(item.settings.entries) \o [i \in 1..item.settings.stray |-> 0])

ReadHeader == IsFrame /\ Reads(ReadFrameHeader(wire))

ReadSettings == IsSettings /\ Reads(CreateFromBuffer(wire))

FrameNext == WriteFrame \/ WriteSettings \/ ReadHeader \/ ReadSettings

FrameSpec == FrameInit /\ [][FrameNext]_frameVars

-----------------------------------------------------------------------------
\* No octet of x is sign-extended.
Plain(x) == \A u \in {1, Base, Base2, Base3} : ~Negative(OctetOf(x, u))

\* A frame header is read back as it was written: always where char is unsigned,
\* and where it is signed as long as no octet reaches half its range.  (With
\* eight bits: a body of 128 octets is read as one of 16777088.)  The length of a
\* HEADERS frame is that of what follows its header.
HeaderRoundTrip ==
    IsFrame /\ step = "read" =>
        LET h == item.frame.header IN
        /\ result.type = h.type /\ result.flags = h.flags
        /\ Plain(h.length) => result.length = h.length
        /\ Plain(ReservedAndStreamId(h)) =>
              result.streamId = h.streamId /\ result.reserved = h.reserved
        /\ item.frame.payload # <<>> /\ Plain(h.length) => result.length = Len(wire) - 9

\* From any SETTINGS frame each setting gets the last value the frame gives it,
\* and otherwise its default, whatever numbers are mixed in: no sign extension
\* turns another number into one of a setting.  So what Settings::writeTo writes is
\* what createFromBuffer reads, as far as no octet is sign-extended.  (An earlier
\* frame's value is forgotten: Settings.cpp:13 starts from the defaults.)
LastSettingWins ==
    IsSettings /\ step = "read" =>
        IF item.settings.stray # 0 THEN result = Malformed
        ELSE \A n \in Names :
            LET entries == item.settings.entries
                at == {i \in DOMAIN entries : entries[i][1] = n}
            IN  IF at = {} THEN result[n] = Defaults[n]
                ELSE LET v == entries[Max(at)][2] IN Plain(v) => result[n] = v
=============================================================================
