----------------------------- MODULE PendingJson -----------------------------
(***************************************************************************)
(* The text of a log on its way in and out: a POST /logs is validated by   *)
(* the LogRequest of app.py and again by log_entry_init; GET /logs answers *)
(* what buffer_engine_pending_json writes into a bounded buffer, if Python *)
(* can decode it.                                                          *)
(*                                                                         *)
(* A character is one of a few kinds: "wide" takes two bytes in UTF-8,     *)
(* "newline" stands for the three that have an escape of their own, "nul"  *)
(* ends a C string, "control" is any other control character.  The answer  *)
(* is the sequence of the symbols written; a fixed part of the JSON text   *)
(* is one symbol, which counts with its real length.                       *)
(***************************************************************************)
EXTENDS Naturals, SequencesExt

CONSTANTS
  FieldSize,            \* LOG_LEVEL_MAX_LEN, ...: bytes of the arrays
  FieldMax,             \* max_length of LogRequest, in characters
  Requests,             \* the payloads a run posts: Fields -> text
  BufferSizes,          \* the sizes of the answer buffer a run tries
  PreviewLimits,        \* the values of pending_preview_limit a run tries
  Capacity,             \* the buffer's capacity
  MaxPosts              \* bound: how many logs are accepted

Fields == {"level", "source", "message"}
Chars == {"plain", "quote", "backslash", "newline", "control", "wide", "nul"}

(* engine_add_log puts "INFO" and "api" for a level and a source that are  *)
(* empty.                                                                  *)
DefaultLength == [level |-> 4, source |-> 3, message |-> 0]

(* The arrays are one byte larger than the longest field of a LogRequest.  *)
ASSUME JsonAssumption ==
  /\ FieldSize \in [Fields -> Nat] /\ FieldMax \in [Fields -> Nat]
  /\ \A f \in Fields : FieldMax[f] < FieldSize[f] /\ DefaultLength[f] < FieldSize[f]
  /\ \A r \in Requests : DOMAIN r = Fields /\ \A f \in Fields : r[f] \in Seq(Chars)
  /\ BufferSizes \subseteq Nat \ {0}
  /\ PreviewLimits \subseteq Nat \ {0}
  /\ Capacity \in Nat /\ MaxPosts \in Nat

VARIABLES
  pending,              \* the entries in the buffer: [id, text]
  nextId,               \* engine->next_log_id
  refused,              \* the valid request the engine has just refused, if any
  bufferSize, maxItems, \* the arguments of pending_json
  at,                   \* where GET /logs is
  todo,                 \* the pieces to append before the next decision
  offset,               \* how much of the buffer is used
  written,              \* the symbols in it
  emitted,              \* the items begun
  status                \* the HTTP status of the answer

encoderVars == <<todo, offset, written, emitted>>
jsonVars == <<pending, nextId, refused, bufferSize, maxItems, at, encoderVars, status>>

JsonTypeOK ==
  /\ \A i \in 1..Len(pending) :
       /\ pending[i].id \in 1..MaxPosts
       /\ \A f \in Fields : Len(pending[i].text[f]) \in 1..FieldSize[f] - 1
  /\ nextId \in 1..MaxPosts + 1
  /\ refused \subseteq Requests
  /\ bufferSize \in BufferSizes /\ maxItems \in PreviewLimits
  /\ at \in {"idle", "items", "footer", "whole", "tooSmall", "answered"}
  /\ offset \in Nat /\ emitted \in 0..Capacity
  /\ status \in {0, 200, 500}

Init ==
  /\ pending = <<>> /\ nextId = 1 /\ refused = {}
  /\ bufferSize \in BufferSizes /\ maxItems \in PreviewLimits
  /\ at = "idle" /\ todo = <<>> /\ offset = 0 /\ written = <<>> /\ emitted = 0
  /\ status = 0

-----------------------------------------------------------------------------
(* POST /logs                                                              *)

(* What C sees of an encoded string: the bytes up to the first NUL. *)
CString(text) ==
  LET nuls == {i \in 1..Len(text) : text[i] = "nul"}
      seen == IF nuls = {} THEN text
              ELSE SubSeq(text, 1, (CHOOSE i \in nuls : \A j \in nuls : i <= j) - 1)
  IN  FlattenSeq([i \in 1..Len(seen) |->
        IF seen[i] = "wide" THEN <<"lead", "trail">> ELSE <<seen[i]>>])

(* LogRequest *)
ValidRequest(r) == \A f \in Fields : Len(r[f]) \in 1..FieldMax[f]

(* Mutants of CopyText: the terminating NUL is counted twice, or not. *)
CopyTextShort(f, bytes) == Len(bytes) + 1 < FieldSize[f]
CopyTextFull(f, bytes) == Len(bytes) <= FieldSize[f]

(* copy_text: the bytes and their NUL fit. *)
CopyText(f, bytes) == Len(bytes) < FieldSize[f]

Resolved(r) ==
  [f \in Fields |-> IF CString(r[f]) = <<>> THEN [i \in 1..DefaultLength[f] |-> "plain"]
                    ELSE CString(r[f])]

Post(r) ==
  /\ at \in {"idle", "answered"}
  /\ nextId <= MaxPosts
  /\ ValidRequest(r)
  /\ LET text == Resolved(r)
     IN  IF /\ text["message"] # <<>>
            /\ Len(pending) < Capacity
            /\ \A f \in Fields : CopyText(f, text[f])
         THEN /\ pending' = Append(pending, [id |-> nextId, text |-> text])
              /\ nextId' = nextId + 1
              /\ refused' = {}
         ELSE /\ refused' = {r}
              /\ UNCHANGED <<pending, nextId>>
  /\ at' = "idle"
  /\ UNCHANGED <<bufferSize, maxItems, encoderVars, status>>

(* The queue processor takes the oldest entry. *)
Take ==
  /\ at \in {"idle", "answered"}
  /\ pending # <<>>
  /\ pending' = Tail(pending)
  /\ at' = "idle"
  /\ refused' = {}
  /\ UNCHANGED <<nextId, bufferSize, maxItems, encoderVars, status>>

-----------------------------------------------------------------------------
(* The pieces of the answer, as append_raw gets them. *)

Digits(n) == LET d[m \in 0..n] == IF m < 10 THEN 1 ELSE 1 + d[m \div 10] IN d[n]

Fixed(name, size) == [symbols |-> <<name>>, size |-> size]
Quote == [symbols |-> <<"quote">>, size |-> 1]

Header == Fixed("header", 25 + Digits(Len(pending)))
Footer(n) == Fixed("footer", 14 + Digits(n))
Comma == Fixed("comma", 1)

(* Mutant of Escape: a backslash is written as it is. *)
EscapeQuotesOnly(byte) ==
  CASE byte = "quote"   -> <<"backslash", "quote">>
    [] byte = "newline" -> <<"backslash", "n">>
    [] OTHER            -> <<byte>>

(* The switch of append_escaped; every other byte is copied. *)
Escape(byte) ==
  CASE byte \in {"quote", "backslash"} -> <<"backslash", byte>>
    [] byte = "newline"                -> <<"backslash", "n">>
    [] OTHER                           -> <<byte>>

Escaped(bytes) ==
  <<Quote>> \o [i \in 1..Len(bytes) |->
                 [symbols |-> Escape(bytes[i]), size |-> Len(Escape(bytes[i]))]]
            \o <<Quote>>

(* One item; a time in milliseconds has 13 digits. *)
ItemPieces(entry) ==
  <<Fixed("id", 15 + Digits(entry.id))>> \o Escaped(entry.text["level"])
    \o <<Fixed("source", 10)>> \o Escaped(entry.text["source"])
    \o <<Fixed("message", 11)>> \o Escaped(entry.text["message"])
    \o <<Fixed("suffix", 32)>>

(* Mutant of Fits: no room is kept for the NUL of snprintf. *)
FitsWithoutNul(piece) == piece.size <= bufferSize - offset

(* append_raw returns 1: the piece and its NUL fit. *)
Fits(piece) == offset < bufferSize /\ piece.size < bufferSize - offset

-----------------------------------------------------------------------------
(* GET /logs, with the mutex held until the answer is complete.            *)

Begin ==
  /\ at \in {"idle", "answered"}
  /\ todo' = <<Header>> /\ offset' = 0 /\ written' = <<>> /\ emitted' = 0
  /\ at' = "items"
  /\ refused' = {} /\ status' = 0
  /\ UNCHANGED <<pending, nextId, bufferSize, maxItems>>

(* append_raw returns 1 *)
AppendPiece ==
  /\ todo # <<>>
  /\ Fits(Head(todo))
  /\ offset' = offset + Head(todo).size
  /\ written' = written \o Head(todo).symbols
  /\ todo' = Tail(todo)
  /\ UNCHANGED <<pending, nextId, refused, bufferSize, maxItems, at, emitted, status>>

(* It returns 0: the error text takes the place of the answer. *)
Overflow ==
  /\ todo # <<>>
  /\ ~Fits(Head(todo))
  /\ at' = "tooSmall"
  /\ todo' = <<>> /\ written' = <<"error">>
  /\ UNCHANGED <<pending, nextId, refused, bufferSize, maxItems, offset, emitted, status>>

(* Mutant of MoreItems: max_items is not looked at. *)
AnyItems == emitted < Len(pending)

(* node != NULL && emitted < max_items *)
MoreItems == emitted < Len(pending) /\ emitted < maxItems

NextItem ==
  /\ at = "items" /\ todo = <<>>
  /\ MoreItems
  /\ todo' = (IF emitted > 0 THEN <<Comma>> ELSE <<>>) \o ItemPieces(pending[emitted + 1])
  /\ emitted' = emitted + 1
  /\ UNCHANGED <<pending, nextId, refused, bufferSize, maxItems, at, offset, written, status>>

EndItems ==
  /\ at = "items" /\ todo = <<>>
  /\ ~MoreItems
  /\ todo' = <<Footer(emitted)>>
  /\ at' = "footer"
  /\ UNCHANGED <<pending, nextId, refused, bufferSize, maxItems, offset, written, emitted, status>>

EndFooter ==
  /\ at = "footer" /\ todo = <<>>
  /\ at' = "whole"
  /\ UNCHANGED <<pending, nextId, refused, bufferSize, maxItems, encoderVars, status>>

(* Mutant of Decodes: the reader takes any character in a string. *)
DecodesAnything == at = "whole"

(* json.loads accepts the text and finds no "error" in it; a control       *)
(* character inside a string is refused, and _decode_json says so.         *)
Decodes == at = "whole" /\ ~Contains(written, "control")

(* _decode_json and get_logs *)
Answer ==
  /\ at \in {"whole", "tooSmall"}
  /\ status' = IF Decodes THEN 200 ELSE 500
  /\ at' = "answered"
  /\ UNCHANGED <<pending, nextId, refused, bufferSize, maxItems, encoderVars>>

Next ==
  \/ \E r \in Requests : Post(r)
  \/ Take
  \/ Begin \/ AppendPiece \/ Overflow \/ NextItem \/ EndItems \/ EndFooter
  \/ Answer

Spec == Init /\ [][Next]_jsonVars

-----------------------------------------------------------------------------
(* What pieces are together: their symbols, and their length. *)
Text(pieces) == FlattenSeq([i \in 1..Len(pieces) |-> pieces[i].symbols])

Size(pieces) ==
  LET upTo[i \in 0..Len(pieces)] == IF i = 0 THEN 0 ELSE upTo[i - 1] + pieces[i].size
  IN  upTo[Len(pieces)]

(* What the answer should be, said in one piece: the oldest logs, at most  *)
(* max_items of them.                                                      *)
Shown == SubSeq(pending, 1, IF Len(pending) < maxItems THEN Len(pending) ELSE maxItems)

Item(i) == (IF i > 1 THEN <<Comma>> ELSE <<>>) \o ItemPieces(Shown[i])

Document ==
  <<Header>> \o FlattenSeq([i \in 1..Len(Shown) |-> Item(i)]) \o <<Footer(Len(Shown))>>

(* A JSON reader, one symbol further: the strings it has found, and the    *)
(* one it is in.                                                           *)
Read(r, s) ==
  CASE ~r.open /\ s = "quote" -> [r EXCEPT !.open = TRUE, !.field = <<>>]
    [] ~r.open /\ s # "quote" -> r
    [] r.open /\ r.escape ->
         [r EXCEPT !.escape = FALSE, !.field = Append(@, IF s = "n" THEN "newline" ELSE s)]
    [] r.open /\ ~r.escape /\ s = "backslash" -> [r EXCEPT !.escape = TRUE]
    [] r.open /\ ~r.escape /\ s = "quote" ->
         [r EXCEPT !.open = FALSE, !.found = Append(@, r.field)]
    [] r.open /\ ~r.escape /\ s \notin {"backslash", "quote"} ->
         [r EXCEPT !.field = Append(@, s)]

ReadStrings(symbols) ==
  LET after[i \in 0..Len(symbols)] ==
        IF i = 0 THEN [open |-> FALSE, escape |-> FALSE, field |-> <<>>, found |-> <<>>]
        ELSE Read(after[i - 1], symbols[i])
  IN  after[Len(symbols)]

(* pending_json never fills the last byte of its buffer, which snprintf    *)
(* needs for the NUL, wherever among the pieces the space runs out.        *)
StaysInBuffer == offset < bufferSize

(* The answer is the whole document when that and its NUL fit, and else    *)
(* the error text: never a part, and never an error without need.          *)
WholeOrError ==
  /\ at = "whole" => written = Text(Document) /\ offset = Size(Document)
  /\ at = "tooSmall" => Size(Document) >= bufferSize

(* A reader of a whole answer gets back every field of the logs shown,     *)
(* whatever quotes, backslashes and newlines they contain.                 *)
ReadsBack ==
  at = "whole" =>
    LET r == ReadStrings(written)
    IN  /\ ~r.open
        /\ r.found = FlattenSeq([i \in 1..Len(Shown) |->
             <<Shown[i].text["level"], Shown[i].text["source"], Shown[i].text["message"]>>])

(* GET /logs fails exactly when the logs to show do not fit the buffer or  *)
(* one of them holds a control character without an escape; it fails so    *)
(* until that log is processed.                                            *)
FailsOnlyFor ==
  at = "answered" =>
    (status = 500 <=>
       \/ Size(Document) >= bufferSize
       \/ \E i \in 1..Len(Shown), f \in Fields : Contains(Shown[i].text[f], "control"))

(* A request that LogRequest lets through is refused by the engine only if *)
(* the buffer is full, its message starts with a NUL, or it has characters *)
(* of more than one byte: the two limits on length agree otherwise.        *)
RefusedOnlyFor ==
  \A r \in refused :
    \/ Len(pending) = Capacity
    \/ r["message"][1] = "nul"
    \/ \E f \in Fields : Contains(r[f], "wide")

=============================================================================
