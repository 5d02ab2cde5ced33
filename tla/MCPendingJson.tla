---------------------------- MODULE MCPendingJson ----------------------------
(***************************************************************************)
(* A small instance of PendingJson for TLC: messages of up to three        *)
(* characters, one of each kind at the places where it matters, and buffer *)
(* sizes from less than a header to two long items.                        *)
(***************************************************************************)
EXTENDS PendingJson

MCFieldSize == [level |-> 6, source |-> 6, message |-> 4]
MCFieldMax == [level |-> 5, source |-> 5, message |-> 3]

Request(level, source, message) ==
  [level |-> level, source |-> source, message |-> message]

Plain == <<"plain">>

MCRequests == {
  Request(Plain, Plain, <<"plain", "plain", "plain">>),
  Request(Plain, <<"quote">>, <<"newline", "backslash">>),
  Request(Plain, Plain, <<"wide", "wide">>),
  Request(Plain, Plain, <<"wide">>),
  Request(Plain, Plain, <<"nul", "plain">>),
  Request(<<"nul">>, Plain, <<"control", "nul">>),
  Request(Plain, Plain, <<"plain", "plain", "plain", "plain">>) }

MCBufferSizes == {20, 26, 27, 41, 42, 121, 122, 205, 400}
MCPreviewLimits == {1, 2}

=============================================================================
