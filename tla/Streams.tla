------------------------------ MODULE Streams ------------------------------
(***************************************************************************)
(* Messages over byte streams, from src/src/dns: tls_utils.*,              *)
(* tcp_session.*, http_response.*, and the framers of dot_client.cpp and   *)
(* doh_client.cpp; the serving side is the TCP session of dns_proxy.cpp.   *)
(*                                                                         *)
(* A stream arrives in whatever pieces the network makes of it, and every  *)
(* layer keeps what it cannot use yet: the handshake the bytes behind its  *)
(* last token, Recv those behind a record, the framers those of an         *)
(* unfinished message. What comes out must not depend on the pieces.       *)
(*                                                                         *)
(* A conversation is what one peer says. Over TLS its bytes are cells      *)
(* <<record, place in the record>>; a record is one cell longer than what  *)
(* it protects. Prefix digits count to Base; the bytes of an HTTP response *)
(* are its CRs "C" and LFs "L", and one byte for each word between.        *)
(***************************************************************************)
EXTENDS Naturals, Sequences, SequencesExt

CONSTANTS
  Conversations, \* records: kind, records (TLS) or bytes, and what is meant
  Base,          \* 256
  BufferCells,   \* kTlsBufferBytes
  ReadBytes,     \* the servers' read buffer
  MaxHead, MaxBody, MaxLine, \* kMaxHeaderBytes, kMaxBodyBytes, 128
  LengthOf, SizeOf \* what a content-length or a chunk size says

MaxMessage == Base * Base - 1 \* kMaxFramedMessage
NoBytes == <<>>

VARIABLES
  conv,    \* the conversation
  wire,    \* what the peer has said and the program has not received
  at,      \* where the program is
  buf,     \* the receive buffer of the handshake or of one Recv
  short,   \* the last call on buf ended SEC_E_INCOMPLETE_MESSAGE
  pending, \* m_pending of the context
  plain,   \* what Recv returned
  reader,  \* a TcpSessionReader
  parser,  \* an HttpResponseParser
  taken,   \* the messages taken
  out,     \* the framed answer owed to a client and how much of it is sent
  heard,   \* what the client has received
  why      \* how the exchange ended

tls == <<buf, short, pending, plain>>
framers == <<reader, parser, taken>>
serving == <<out, heard>>
vars == <<conv, wire, at, tls, framers, serving, why>>

EmptyReader == [in |-> NoBytes, pos |-> 0, ready |-> 0]
EmptyParser == [buffer |-> NoBytes, body |-> NoBytes, offset |-> 0, scan |-> 0, remaining |-> 0,
                phase |-> "headers"]

Cells(records) ==
  FlattenSeq([i \in 1..Len(records) |-> [k \in 1..(Len(records[i].bytes) + 1) |-> <<i, k>>]])

Init ==
  /\ conv \in Conversations
  /\ wire = IF conv.kind = "tcp" THEN conv.bytes ELSE Cells(conv.records)
  /\ at = IF conv.kind = "tcp" THEN "serve" ELSE "shake"
  /\ buf = NoBytes /\ short = FALSE /\ pending = NoBytes /\ plain = NoBytes
  /\ reader = EmptyReader /\ parser = EmptyParser /\ taken = NoBytes
  /\ out = [bytes |-> NoBytes, sent |-> 0] /\ heard = NoBytes /\ why = "open"

End(reason) == at' = "done" /\ why' = reason
Goto(place) == at' = place /\ UNCHANGED why
Least(S) == CHOOSE x \in S : \A y \in S : x <= y
From(s, n) == SubSeq(s, n + 1, Len(s))
-----------------------------------------------------------------------------
(***************************************************************************)
(* TLS (tls_utils.cpp)                                                     *)
(***************************************************************************)

\* Schannel: the first record of the buffer, whether it is all there, and
\* what is behind it.
Whole(b) == Len(b) > Len(conv.records[b[1][1]].bytes)
InOrder(b) == \A k \in 1..(Len(conv.records[b[1][1]].bytes) + 1) : b[k] = <<b[1][1], k>>
RecordOf(b) == conv.records[b[1][1]]
Surplus(b) == From(b, Len(RecordOf(b).bytes) + 1)

\* The network is waited for when nothing is buffered or the record is not
\* all there.
NeedsMore == buf = NoBytes \/ short

Receive ==
  /\ at \in {"shake", "recv"} /\ NeedsMore
  /\ \/ \E n \in 1..Len(wire) :
          /\ Len(buf) + n <= BufferCells
          /\ buf' = buf \o SubSeq(wire, 1, n) /\ wire' = From(wire, n)
          /\ short' = FALSE /\ UNCHANGED <<at, why>>
     \/ Len(buf) = BufferCells /\ End("failed") /\ UNCHANGED <<wire, buf, short>>
     \/ wire = NoBytes /\ End("closed") /\ UNCHANGED <<wire, buf, short>>
  /\ UNCHANGED <<conv, pending, plain, framers, serving>>

\* A deadline passes or the token fires, wherever the program waits.
GivenUp ==
  /\ at \in {"shake", "recv"} /\ NeedsMore /\ End("givenup")
  /\ UNCHANGED <<conv, wire, tls, framers, serving>>

Incomplete ==
  /\ at \in {"shake", "recv"} /\ ~NeedsMore /\ ~Whole(buf) /\ short' = TRUE
  /\ UNCHANGED <<conv, wire, at, buf, pending, plain, framers, serving, why>>

\* The surplus of the handshake is the start of the first record.
SetPending(b) == b

\* Whether the chain the peer showed holds a certificate the stamp pins.
CertificateMatchesPins == conv.pinned

\* A token is consumed; after the last the pins decide.
Shake ==
  /\ at = "shake" /\ ~NeedsMore /\ Whole(buf)
  /\ CASE RecordOf(buf).is = "hello" ->
            buf' = Surplus(buf) /\ UNCHANGED <<pending, at, why>>
       [] RecordOf(buf).is = "finished" /\ CertificateMatchesPins ->
            pending' = SetPending(Surplus(buf)) /\ buf' = NoBytes /\ Goto("send")
       [] OTHER -> End("failed") /\ UNCHANGED <<buf, pending>>
  /\ UNCHANGED <<conv, wire, short, plain, framers, serving>>

\* Send, and the start of the first Recv.
Send ==
  /\ at = "send"
  /\ \/ Goto("recv") /\ buf' = pending /\ pending' = NoBytes
     \/ End("givenup") /\ UNCHANGED <<buf, pending>>
  /\ UNCHANGED <<conv, wire, short, plain, framers, serving>>

\* Recv, once a record is all there. A record that protects nothing is not
\* returned; the bytes behind it are gone on with.
Decrypt ==
  /\ at = "recv" /\ ~NeedsMore /\ Whole(buf)
  /\ CASE RecordOf(buf).is = "data" /\ InOrder(buf) /\ RecordOf(buf).bytes # NoBytes ->
            /\ plain' = RecordOf(buf).bytes /\ pending' = Surplus(buf)
            /\ buf' = NoBytes /\ Goto("feed")
       [] RecordOf(buf).is = "data" /\ InOrder(buf) /\ RecordOf(buf).bytes = NoBytes ->
            buf' = Surplus(buf) /\ UNCHANGED <<plain, pending, at, why>>
       [] RecordOf(buf).is = "close" -> End("closed") /\ UNCHANGED <<buf, plain, pending>>
       [] OTHER -> End("failed") /\ UNCHANGED <<buf, plain, pending>>
  /\ UNCHANGED <<conv, wire, short, framers, serving>>
-----------------------------------------------------------------------------
(***************************************************************************)
(* Length-prefixed messages (tcp_session.cpp)                              *)
(***************************************************************************)

Encode(message) ==
  IF message = NoBytes \/ Len(message) > MaxMessage THEN NoBytes
  ELSE <<Len(message) \div Base, Len(message) % Base>> \o message

Parse(r) ==
  LET unread == From(r.in, r.pos)
      declared == unread[1] * Base + unread[2]
  IN  [r EXCEPT !.ready =
         IF Len(unread) < 2 \/ Len(unread) < declared + 2 THEN 0 ELSE declared]

\* A zero length is the one framing error a prefix can express.
Broken(r) ==
  LET unread == From(r.in, r.pos)
  IN  Len(unread) >= 2 /\ unread[1] = 0 /\ unread[2] = 0

Overflows(r, bytes) == Len(r.in) - r.pos + Len(bytes) > MaxMessage + 2

Compact(r) == [r EXCEPT !.in = From(r.in, r.pos), !.pos = 0]

\* A read that does not fit takes everything with it, a claimed message too.
Appended(r, bytes) ==
  IF Overflows(r, bytes) THEN EmptyReader
  ELSE Parse([Compact(r) EXCEPT !.in = @ \o bytes])

Message(r) == SubSeq(r.in, r.pos + 3, r.pos + 2 + r.ready)
Taken(r) == Parse([r EXCEPT !.pos = @ + 2 + r.ready])

\* DotSink: the exchange is over with its first message, or with the stream.
FeedDot ==
  /\ at = "feed" /\ conv.kind = "dot"
  /\ LET r == Appended(reader, plain) IN
     IF r.ready > 0
     THEN reader' = Taken(r) /\ taken' = Append(taken, Message(r)) /\ End("answered")
          /\ UNCHANGED <<buf, pending>>
     ELSE reader' = r /\ buf' = pending /\ pending' = NoBytes /\ Goto("recv") /\ UNCHANGED taken
  /\ plain' = NoBytes
  /\ UNCHANGED <<conv, wire, short, parser, serving>>
-----------------------------------------------------------------------------
(***************************************************************************)
(* HTTP responses (http_response.cpp)                                      *)
(***************************************************************************)

\* Mutant: a search that found nothing goes on with the bytes to come.
ScanFromEnd(buffer, n) == Len(buffer)
ScanFrom(buffer, n) == IF Len(buffer) > n THEN Len(buffer) - n ELSE 0

Found(marker, buffer, from) ==
  {i \in from..(Len(buffer) - Len(marker)) :
     SubSeq(buffer, i + 1, i + Len(marker)) = marker}
CRLF == <<"C", "L">>

FeedDoh ==
  /\ at = "feed" /\ conv.kind = "doh" /\ at' = "parse" /\ UNCHANGED why
  /\ parser' = [parser EXCEPT !.buffer = @ \o plain] /\ plain' = NoBytes
  /\ UNCHANGED <<conv, wire, buf, short, pending, reader, taken, serving>>

Parsing(phase) == at = "parse" /\ parser.phase = phase
Unread == Len(parser.buffer) - parser.offset
ParserStep(next) ==
  /\ parser' = next /\ UNCHANGED <<conv, wire, at, tls, reader, taken, serving, why>>

\* The parser has nothing more to go on: the next record is decrypted.
Starved(next) ==
  /\ parser' = next /\ buf' = pending /\ pending' = NoBytes /\ Goto("recv")
  /\ UNCHANGED <<conv, wire, short, plain, reader, taken, serving>>

Refused ==
  /\ parser' = [parser EXCEPT !.phase = "failed", !.body = NoBytes] /\ End("malformed")
  /\ UNCHANGED <<conv, wire, tls, reader, taken, serving>>

Words(head) == SelectSeq(head, LAMBDA b : b \notin {"C", "L"})
Lengths(head) == {b \in Range(head) : b \in DOMAIN LengthOf}
Encodings(head) == {b \in Range(head) : b \in {"chunked", "gzip"}}

\* 200, lines with names, and one way to tell where the body ends.
Acceptable(head) ==
  /\ head[1] = "200" /\ Len(Words(head)) > 1 /\ "noname" \notin Range(head)
  /\ \/ Encodings(head) = {"chunked"} /\ Lengths(head) = {}
        /\ Len(SelectSeq(head, LAMBDA b : b = "chunked")) = 1
     \/ /\ Encodings(head) = {} /\ Lengths(head) # {}
        /\ \A a, b \in Lengths(head) : LengthOf[a] = LengthOf[b] /\ LengthOf[a] <= MaxBody

ParseHeaders ==
  /\ Parsing("headers")
  /\ LET ends == Found(CRLF \o CRLF, parser.buffer, parser.scan)
         head == SubSeq(parser.buffer, 1, Least(ends))
         length == LengthOf[CHOOSE l \in Lengths(head) : TRUE]
     IN  IF ends = {}
         THEN IF Len(parser.buffer) > MaxHead THEN Refused
              ELSE Starved([parser EXCEPT !.scan = ScanFrom(parser.buffer, 3)])
         ELSE IF Least(ends) + 4 > MaxHead \/ ~Acceptable(head) THEN Refused
         ELSE IF Encodings(head) # {}
         THEN ParserStep([parser EXCEPT !.offset = Least(ends) + 4, !.scan = Least(ends) + 4,
                                        !.phase = "size"])
         ELSE ParserStep([parser EXCEPT !.offset = Least(ends) + 4, !.remaining = length,
                                        !.phase = IF length = 0 THEN "done" ELSE "fixed"])

ParseData ==
  /\ at = "parse" /\ parser.phase \in {"fixed", "chunk"}
  /\ LET take == IF Unread < parser.remaining THEN Unread ELSE parser.remaining
         next == [parser EXCEPT !.body = @ \o SubSeq(parser.buffer, parser.offset + 1,
                                                     parser.offset + take),
                                !.offset = @ + take, !.remaining = @ - take]
     IN  IF take > MaxBody - Len(parser.body) THEN Refused
         ELSE IF next.remaining > 0 THEN Starved(next)
         ELSE ParserStep([next EXCEPT !.phase = IF @ = "fixed" THEN "done" ELSE "crlf"])

ParseChunkSize ==
  /\ Parsing("size")
  /\ LET ends == Found(CRLF, parser.buffer, parser.scan)
         word == SubSeq(parser.buffer, parser.offset + 1, Least(ends))
     IN  IF ends = {}
         THEN IF Unread > MaxLine THEN Refused
              ELSE Starved([parser EXCEPT !.scan =
                              IF parser.offset > ScanFrom(parser.buffer, 1)
                              THEN parser.offset ELSE ScanFrom(parser.buffer, 1)])
         ELSE IF Len(word) # 1 \/ word[1] \notin DOMAIN SizeOf THEN Refused
         ELSE IF SizeOf[word[1]] > MaxBody - Len(parser.body) THEN Refused
         ELSE ParserStep([parser EXCEPT !.offset = Least(ends) + 2, !.scan = Least(ends) + 2,
                            !.remaining = SizeOf[word[1]],
                            !.phase = IF SizeOf[word[1]] = 0 THEN "trailers" ELSE "chunk"])

ParseChunkEnd ==
  /\ Parsing("crlf")
  /\ IF Unread < 2 THEN Starved(parser)
     ELSE IF SubSeq(parser.buffer, parser.offset + 1, parser.offset + 2) # CRLF THEN Refused
     ELSE ParserStep([parser EXCEPT !.offset = @ + 2, !.scan = parser.offset + 2,
                                    !.phase = "size"])

ParseTrailers ==
  /\ Parsing("trailers")
  /\ LET ends == Found(CRLF, parser.buffer, parser.scan)
         line == SubSeq(parser.buffer, parser.offset + 1, Least(ends))
     IN  IF ends = {}
         THEN IF Unread > MaxHead THEN Refused
              ELSE Starved([parser EXCEPT !.scan =
                              IF parser.offset > ScanFrom(parser.buffer, 1)
                              THEN parser.offset ELSE ScanFrom(parser.buffer, 1)])
         ELSE IF line = NoBytes
         THEN ParserStep([parser EXCEPT !.offset = @ + 2, !.phase = "done"])
         ELSE IF "noname" \in Range(line) THEN Refused
         ELSE ParserStep([parser EXCEPT !.offset = Least(ends) + 2, !.scan = Least(ends) + 2])

ParseDone ==
  /\ Parsing("done") /\ taken' = Append(taken, parser.body) /\ End("answered")
  /\ UNCHANGED <<conv, wire, tls, reader, parser, serving>>
-----------------------------------------------------------------------------
(***************************************************************************)
(* Serving a client (TcpClientConnection, dns_proxy.cpp)                   *)
(***************************************************************************)

\* The query in flight is answered with its own bytes, which stand for any
\* answer; the queries behind it wait in the reader.
Answer(message) == message

ReadFromClient ==
  /\ at \in {"serve", "busy"} /\ out.bytes = NoBytes
  /\ \E n \in 1..ReadBytes :
       /\ n <= Len(wire) /\ wire' = From(wire, n)
       /\ LET r == Appended(reader, SubSeq(wire, 1, n)) IN
          IF Broken(r) \/ Overflows(reader, SubSeq(wire, 1, n))
          THEN End("broken") /\ UNCHANGED <<reader, taken>>
          ELSE IF r.ready > 0 /\ at = "serve"
          THEN reader' = Taken(r) /\ taken' = Append(taken, Message(r)) /\ Goto("busy")
          ELSE reader' = r /\ UNCHANGED <<taken, at, why>>
  /\ UNCHANGED <<conv, tls, parser, serving>>

\* An answer replaces what was owed and is written from its start.
QueueResponse(message) == [bytes |-> Encode(message), sent |-> 0]

Answered ==
  /\ at = "busy" /\ out.bytes = NoBytes
  /\ out' = QueueResponse(Answer(Last(taken)))
  /\ IF Len(Answer(Last(taken))) > MaxMessage THEN End("broken") ELSE Goto("serve")
  /\ UNCHANGED <<conv, wire, tls, framers, heard>>

\* A write takes what the socket has room for; done, the next query is served.
WritePending ==
  /\ at = "serve" /\ out.bytes # NoBytes
  /\ \E n \in 1..(Len(out.bytes) - out.sent) :
       /\ heard' = heard \o SubSeq(out.bytes, out.sent + 1, out.sent + n)
       /\ IF out.sent + n < Len(out.bytes)
          THEN out' = [out EXCEPT !.sent = @ + n] /\ UNCHANGED <<reader, taken, at, why>>
          ELSE /\ out' = [bytes |-> NoBytes, sent |-> Len(out.bytes)]
               /\ IF reader.ready > 0
                  THEN reader' = Taken(reader) /\ taken' = Append(taken, Message(reader))
                       /\ Goto("busy")
                  ELSE UNCHANGED <<reader, taken, at, why>>
  /\ UNCHANGED <<conv, wire, tls, parser>>

Hangup ==
  /\ at \in {"serve", "busy"} /\ wire = NoBytes /\ out.bytes = NoBytes
  /\ End(IF at = "busy" THEN "givenup" ELSE "closed")
  /\ UNCHANGED <<conv, wire, tls, framers, serving>>

Next ==
  \/ Receive \/ GivenUp \/ Incomplete \/ Shake \/ Send \/ Decrypt
  \/ FeedDot \/ FeedDoh
  \/ ParseHeaders \/ ParseData \/ ParseChunkSize \/ ParseChunkEnd \/ ParseTrailers \/ ParseDone
  \/ ReadFromClient \/ Answered \/ WritePending \/ Hangup

Spec == Init /\ [][Next]_vars
-----------------------------------------------------------------------------
(***************************************************************************)
(* Properties                                                              *)
(***************************************************************************)

\* Every variable has its type, and no buffer outgrows its bound however much
\* the peer sends.
TypeOK ==
  /\ conv \in Conversations
  /\ at \in {"shake", "send", "recv", "feed", "parse", "serve", "busy", "done"}
  /\ why \in {"open", "givenup", "failed", "closed", "answered", "malformed", "broken"}
  /\ short \in BOOLEAN /\ Len(buf) <= BufferCells /\ Len(pending) < BufferCells
  /\ Len(reader.in) <= MaxMessage + 2 /\ reader.pos <= Len(reader.in)
  /\ reader.pos + reader.ready <= Len(reader.in)
  /\ parser.offset <= Len(parser.buffer) /\ Len(parser.body) <= MaxBody
  /\ out.sent \in Nat /\ Len(out.bytes) <= MaxMessage + 2

\* Whatever pieces the stream came in, what is taken from it is the messages
\* the peer meant, and all of them unless the exchange was given up or the
\* client ran ahead of the reader's bound (tls_utils.cpp:173-263, 329-463,
\* tcp_session.cpp:51-136, http_response.cpp:124-293).
PiecesDoNotMatter ==
  /\ IsPrefix(taken, conv.meant)
  /\ why \in {"answered", "closed", "failed", "malformed"} => taken = conv.meant

\* A client hears whole answers in the order of its queries, however its socket
\* cuts the writes (socket_utils.h:137-152, tcp_session.h:138-165).
AnswersArriveWhole ==
  IsPrefix(heard, FlattenSeq([i \in 1..Len(taken) |-> Encode(Answer(taken[i]))]))

(***************************************************************************)
(* Said of the program, and refuted by what it does: README, section 6.    *)
(***************************************************************************)
\* "appending more bytes after a message was claimed cannot invalidate it"
\* (tcp_session.cpp:99-100).
ClaimedMessageSurvives ==
  [][reader.ready > 0 /\ why' = "broken" => FALSE]_vars
=============================================================================
