----------------------------- MODULE WireFormats -----------------------------
(***************************************************************************)
(* The wire formats together: one item at a time is on the wire, in one of *)
(* the formats, while the others rest.                                     *)
(***************************************************************************)
EXTENDS FrameWire, NumberWire, BitReader, StringWire, MessageWire

VARIABLE format   \* which one is used

wireVars == <<format, frameVars, numberVars, readerVars, stringVars, messageVars>>

NoFrame == signed = FALSE /\ item = <<>> /\ step = "rests" /\ wire = <<>> /\ result = <<>>
NoNumber == given = <<>> /\ coded = <<>> /\ decoded = <<>>
NoBits == reader = ReaderInit(<<>>) /\ discarded = 0
NoString ==
    /\ hoisted = FALSE /\ string = <<>> /\ stage = "rests" /\ taken = 0 /\ coder = NothingCoded
    /\ sent = <<>> /\ bbr = <<>> /\ seen = <<>> /\ dest = <<>>
NoMessage == message = <<>> /\ text = <<>> /\ arrival = <<>> /\ read = <<>>

WireInit ==
    \/ format = "frame" /\ FrameInit /\ NoNumber /\ NoBits /\ NoString /\ NoMessage
    \/ format = "number" /\ NoFrame /\ NumberInit /\ NoBits /\ NoString /\ NoMessage
    \/ format = "bits" /\ NoFrame /\ NoNumber /\ BitInit /\ NoString /\ NoMessage
    \/ format = "string" /\ NoFrame /\ NoNumber /\ NoBits /\ StringInit /\ NoMessage
    \/ format = "message" /\ NoFrame /\ NoNumber /\ NoBits /\ NoString /\ MessageInit

FrameStep ==
    format = "frame" /\ FrameNext
      /\ UNCHANGED <<format, numberVars, readerVars, stringVars, messageVars>>
NumberStep ==
    format = "number" /\ NumberNext
      /\ UNCHANGED <<format, frameVars, readerVars, stringVars, messageVars>>
BitStep ==
    format = "bits" /\ BitNext
      /\ UNCHANGED <<format, frameVars, numberVars, stringVars, messageVars>>
StringStep ==
    format = "string" /\ StringNext
      /\ UNCHANGED <<format, frameVars, numberVars, readerVars, messageVars>>
MessageStep ==
    format = "message" /\ MessageNext
      /\ UNCHANGED <<format, frameVars, numberVars, readerVars, stringVars>>

WireNext == FrameStep \/ NumberStep \/ BitStep \/ StringStep \/ MessageStep

WireSpec == WireInit /\ [][WireNext]_wireVars
=============================================================================
