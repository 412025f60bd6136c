--------------------------- MODULE MCHttp1Transport ---------------------------
(* Small instances of Http1Transport for TLC: the requests clients send. *)
EXTENDS Http1Transport

Plain == <<"req", "nl", "hdr", "nl", "nl">>
Bare == <<"req", "nl", "nl">>
Unrouted == <<"unrouted", "nl", "nl">>
Closing == <<"req", "nl", "close", "nl", "nl">>
FoldedClose == <<"req", "nl", "close", "nl", "fold", "nl", "nl">>
Upgrading == <<"req", "nl", "upg", "nl", "nl">>
UpgradingFolded == <<"req", "nl", "upg", "nl", "fold", "nl", "nl">>
UpgradingBadly == <<"req", "nl", "badset", "nl", "upg", "nl", "nl">>
Expecting == <<"req", "nl", "exp", "nl", "len", "nl", "nl", "b", "b">>
Refused == <<"req", "nl", "exp", "nl", "fold", "nl", "nl">>
WithBody == <<"req", "nl", "len", "nl", "nl", "b", "b">>
BadLength == <<"req", "nl", "badlen", "nl", "nl">>
Chunked == <<"req", "nl", "te", "nl", "nl", "b">>
NoColon == <<"req", "nl", "nocolon", "nl", "nl">>
EarlyFold == <<"req", "nl", "fold", "nl", "nl">>
Malformed == <<"bad", "nl", "nl">>
StrayNewline == <<"nl", "nl">>

AllMessages ==
    {Plain, Unrouted, Closing, FoldedClose, Upgrading, UpgradingFolded, UpgradingBadly,
     Expecting, Refused, WithBody, BadLength, Chunked, NoColon, EarlyFold, Malformed, StrayNewline}
BodyMessages == {Bare, WithBody}
UpgradeMessages == {Bare, Upgrading}
=============================================================================
