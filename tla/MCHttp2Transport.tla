--------------------------- MODULE MCHttp2Transport ---------------------------
(* Small instances of Http2Transport for TLC: the frames clients send. *)
EXTENDS Http2Transport

Frame(type, sid, ack, len, val, bad) ==
    [type |-> type, sid |-> sid, streamId |-> sid, ack |-> ack, len |-> len, length |-> len,
     val |-> val, bad |-> bad]

Request(s) == Frame("headers", s, FALSE, 1, 0, FALSE)
BadRequest == Frame("headers", 3, FALSE, 1, 0, TRUE)
Data == Frame("data", 1, FALSE, 1, 0, FALSE)
Ping == Frame("ping", 0, FALSE, 1, 0, FALSE)
Pong == Frame("ping", 0, TRUE, 1, 0, FALSE)
BadPing == Frame("ping", 1, FALSE, 1, 0, TRUE)
Reset(s) == Frame("rst", s, FALSE, 1, 0, FALSE)
BadReset == Frame("rst", 0, FALSE, 1, 0, TRUE)
Setting(v) == Frame("settings", 0, FALSE, 1, v, FALSE)
SettingsAck == Frame("settings", 0, TRUE, 0, 0, FALSE)
BadSettings == Frame("settings", 0, FALSE, 1, 0, TRUE)
Update(s, inc) == Frame("window", s, FALSE, 1, inc, FALSE)
BadUpdate == Frame("window", 0, FALSE, 1, 0, TRUE)
\* Requests whose header is misread: its length swallows what follows, or its
\* stream is another one.
LongRequest == [Request(1) EXCEPT !.length = 4]
OtherRequest == [Request(3) EXCEPT !.streamId = 7]
Priority == Frame("other", 3, FALSE, 1, 0, FALSE)

AllFrames ==
    {Request(1), Request(3), BadRequest, Data, Ping, Pong, BadPing, Reset(1), BadReset,
     Setting(3), Setting(12), SettingsAck, BadSettings, Update(0, 0), Update(0, 4),
     Update(1, 4), Update(3, 4), BadUpdate, Priority,
     LongRequest, OtherRequest}
PingFrames == {Request(1), Ping, SettingsAck}
PlainFrames == {Request(1), SettingsAck}
WindowFrames == {Setting(3), Setting(12), Update(0, 1), Update(0, 4)}
=============================================================================
