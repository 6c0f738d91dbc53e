----------------------------- MODULE MCNetwork -----------------------------
(***************************************************************************)
(* Small instances of the components that talk to the network for          *)
(* themselves: Transfer (the download of an update), Upstream (a query's   *)
(* tasks and their sockets), Streams (what arrives on a stream) and        *)
(* Answers (what a datagram says).  They share nothing, so a behaviour     *)
(* need only be one of them at work, named by `part'; the others stay as   *)
(* they begin.                                                             *)
(***************************************************************************)
EXTENDS Transfer, Sequences, TLC

CONSTANT None

VARIABLES
  part,
  os, pc, phase, held, outcome, fetching, slot, canc, registered, doomed, usable, cooling,
  round, published, events,
  conv, wire, at, buf, short, rest, plain, reader, parser, taken, out, heard, why,
  exchange, stage, reply, sent

transferVars == vars
upstreamVars == <<os, pc, phase, held, outcome, fetching, slot, canc, registered, doomed, usable,
                  cooling, round, published, events>>
streamVars == <<conv, wire, at, buf, short, rest, plain, reader, parser, taken, out, heard, why>>
answerVars == <<exchange, stage, reply, sent>>
networkVars == <<part, transferVars, upstreamVars, streamVars, answerVars>>

(***************************************************************************)
(* Upstream: a query with a plain task and two that need one certificate,  *)
(* and another with a DoT task, on two socket values.                      *)
(***************************************************************************)
MCQueries == {"p", "q"}
MCTasks == {"a", "b", "c", "d"}
MCQueryOf == "a" :> "p" @@ "b" :> "p" @@ "c" :> "p" @@ "d" :> "q"
MCTransport == "a" :> "plain" @@ "b" :> "dnscrypt" @@ "c" :> "dnscrypt" @@ "d" :> "tls"
MCHandles == {"h1", "h2"}
MCSlots == {"s1", "s2"}
MCEnvironments ==
  {{"a", "d"}, {"b", "c"}, {"b", "c", "throw", "lapse"}, {"a", "b", "nosocket"}}

U == INSTANCE UpstreamProofs WITH
  pending <- round,
  Queries <- MCQueries, Tasks <- MCTasks,
  QueryOf <- MCQueryOf, Transport <- MCTransport,
  Handles <- MCHandles, Slots <- MCSlots, Nobody <- "nobody",
  Environments <- MCEnvironments

ASSUME UpstreamInstance == U!UpstreamAssumption

(***************************************************************************)
(* Streams: every way a message meets a boundary.                          *)
(***************************************************************************)
Data(bytes) == [is |-> "data", bytes |-> bytes]
Bare(kind, n) == [is |-> kind, bytes |-> [i \in 1..n |-> "x"]]
HandshakeRecords == <<Bare("hello", 2), Bare("hello", 0), Bare("finished", 1)>>
Over(kind, pinned, records, meant) ==
  [kind |-> kind, pinned |-> pinned, records |-> HandshakeRecords \o records, meant |-> meant]

EOL == <<"C", "L">>
Line(w) == <<w>> \o EOL
Fixed == Line("200") \o Line("len2") \o EOL
Chunked == Line("200") \o Line("named") \o Line("chunked") \o EOL
Doh(records, meant) == Over("doh", TRUE, records, meant)

DotConversations ==
  {Over("dot", TRUE, <<Data(<<0>>), Data(<<>>), Data(<<2, 1>>), Data(<<2>>), Bare("close", 0)>>,
        <<<<1, 2>>>>),
   Over("dot", TRUE, <<Data(<<0, 1, 2, 0, 2>>)>>, <<<<2>>>>),
   Over("dot", TRUE, <<Data(<<0, 2, 1>>), Bare("close", 0), Data(<<2>>)>>, <<>>),
   Over("dot", TRUE, <<Data(<<0, 2, 1>>), Bare("bad", 1), Data(<<2>>)>>, <<>>),
   Over("dot", TRUE, <<Data(<<0, 2>> \o [i \in 1..13 |-> 1])>>, <<>>),
   Over("dot", FALSE, <<Data(<<0, 1, 2>>)>>, <<>>)}

DohConversations ==
  {Doh(<<Data(Fixed \o <<"C">>), Data(<<"L">>)>>, <<EOL>>),
   Doh(<<Data(Line("200") \o <<"len2", "C">>), Data(<<"L", "C">>), Data(<<"L", "x">>),
         Data(<<"y", "z">>)>>, <<<<"x", "y">>>>),
   Doh(<<Data(Line("200") \o Line("len2") \o Line("len02")), Data(EOL), Data(EOL)>>, <<EOL>>),
   Doh(<<Data(Chunked), Data(Line("s2") \o EOL \o EOL), Data(<<"s1", "C">>), Data(<<"L", "x">>),
         Data(<<"C">>), Data(<<"L">> \o Line("s0") \o <<"named">>), Data(EOL \o EOL)>>,
       <<<<"C", "L", "x">>>>),
   Doh(<<Data(Line("200") \o Line("len0") \o EOL)>>, <<<<>>>>),
   Doh(<<Data(Line("404") \o Line("len2") \o EOL), Data(EOL)>>, <<>>),
   Doh(<<Data(Line("200") \o Line("named") \o EOL), Data(EOL), Bare("close", 0)>>, <<>>),
   Doh(<<Data(Line("200") \o Line("len2") \o Line("len0") \o EOL), Data(EOL)>>, <<>>),
   Doh(<<Data(Line("200") \o Line("len2") \o Line("chunked") \o EOL), Data(EOL)>>, <<>>),
   Doh(<<Data(Line("200") \o Line("gzip") \o EOL), Data(EOL)>>, <<>>),
   Doh(<<Data(Line("200") \o Line("len9") \o EOL), Data(EOL)>>, <<>>),
   Doh(<<Data(Line("200") \o Line("noname") \o EOL), Data(EOL)>>, <<>>),
   Doh(<<Data(Fixed \o <<"x">>), Bare("close", 0)>>, <<>>),
   Doh(<<Data(Chunked), Data(Line("s2") \o EOL), Data(Line("s2"))>>, <<>>),
   Doh(<<Data(Chunked), Data(Line("s9") \o EOL)>>, <<>>),
   Doh(<<Data(Chunked), Data(Line("s2") \o EOL \o EOL), Data(Line("s2"))>>, <<>>),
   Doh(<<Data(Chunked), Data(Line("s0") \o Line("noname"))>>, <<>>),
   Doh(<<Data(Chunked), Data(<<"s1", "x", "y">>), Data(<<"x", "y", "z">>)>>, <<>>),
   Doh([i \in 1..5 |-> Data(Line("200"))], <<>>)}

Tcp(bytes, meant) == [kind |-> "tcp", bytes |-> bytes, meant |-> meant]
TcpConversations ==
  {Tcp(<<0, 1, 2, 0, 2, 0, 1, 0>>, <<<<2>>, <<0, 1>>>>),
   Tcp(<<0, 1, 2, 0, 0, 0, 1, 2>>, <<<<2>>>>),
   Tcp(<<2, 2, 1, 1, 1, 1, 1, 1, 1, 1>>, <<<<1, 1, 1, 1, 1, 1, 1, 1>>>>),
   Tcp(<<0, 1, 1, 0, 2, 1, 1, 0, 2, 2, 2, 0, 1, 0, 0, 1, 1>>,
       <<<<1>>, <<1, 1>>, <<2, 2>>, <<0>>, <<1>>>>)}

MCConversations == DotConversations \cup DohConversations \cup TcpConversations

MCLengthOf == "len0" :> 0 @@ "len2" :> 2 @@ "len02" :> 2 @@ "len9" :> 9
MCSizeOf == "s0" :> 0 @@ "s1" :> 1 @@ "s2" :> 2 @@ "s9" :> 9

S == INSTANCE Streams WITH
  pending <- rest,
  Conversations <- MCConversations,
  LengthOf <- MCLengthOf, SizeOf <- MCSizeOf,
  Base <- 3, BufferCells <- 15, ReadBytes <- 4, MaxHead <- 14, MaxBody <- 4, MaxLine <- 3

(***************************************************************************)
(* Answers, on the exchanges of AnswersCases: a datagram of at least 50    *)
(* and at most 80 octets, so that replies of up to three records meet both *)
(* bounds, and names of up to 46 characters.                               *)
(***************************************************************************)
LOCAL Case == INSTANCE AnswersCases
LOCAL MCRepliesTo(e) == Case!MCRepliesTo(e)

A == INSTANCE Answers WITH
  Exchanges <- Case!MCExchanges, RepliesTo <- MCRepliesTo,
  kMinUdpPayload <- 50, kMaxUdpPayload <- 80, kMaxNameChars <- 46

-----------------------------------------------------------------------------
Waiting == Tcp(<<0, 1, 2, 0, 0, 0, 1, 2>>, <<<<2>>>>)
Asked == CHOOSE e \in Case!MCExchanges : e.server = "proxy" /\ e.asked.opts = <<>>
NetworkInit ==
  /\ Init /\ U!Init /\ S!Init /\ A!Init
  /\ part \in {"transfer", "upstream", "streams", "answers"}
  /\ part # "upstream" => events = {"b", "c"}
  /\ part # "streams" => conv = Waiting
  /\ part # "answers" => exchange = Asked

Of(p) == part = p /\ UNCHANGED part
NetworkNext ==
  \/ Of("transfer") /\ Next /\ UNCHANGED <<upstreamVars, streamVars, answerVars>>
  \/ Of("upstream") /\ U!Next /\ UNCHANGED <<transferVars, streamVars, answerVars>>
  \/ Of("streams") /\ S!Next /\ UNCHANGED <<transferVars, upstreamVars, answerVars>>
  \/ Of("answers") /\ A!Next /\ UNCHANGED <<transferVars, upstreamVars, streamVars>>

NetworkSpec == NetworkInit /\ [][NetworkNext]_networkVars

\* The fairness Transfer and Upstream state; what is checked of the others is
\* safety.
FairNetworkSpec ==
  /\ NetworkSpec
  /\ WF_transferVars(Of("transfer") /\ RunNext)
  /\ WF_transferVars(Of("transfer") /\ StopNext)
  /\ WF_transferVars(Of("transfer") /\ WinHttpNext)
  /\ \A q \in MCQueries : /\ WF_upstreamVars(Of("upstream") /\ U!Cancel(q))
                          /\ WF_upstreamVars(Of("upstream") /\ U!CancelStep(q))
  /\ \A t \in MCTasks :
       /\ WF_upstreamVars(Of("upstream") /\ U!Step(t))
       /\ WF_upstreamVars(Of("upstream") /\ fetching[t] /\ U!Expire(t))

-----------------------------------------------------------------------------
\* A socket is closed once, by its owner and before its value is anybody
\* else's, none outlives its query, and every variable has its type (Upstream:
\* socket_utils.h:150-190, cancel.cpp:25-69).
SocketsClosedOnce == part = "upstream" => U!TypeOK /\ U!ClosesItsOwn /\ U!NothingLeaks

\* A provider has one fetch at a time, and its slot a fetch that will answer it
\* (Upstream: dnscrypt_cert_cache.h:139-186).
OneFetchBehindTheSlot == part = "upstream" => U!OneFetchBehindTheSlot

\* What is taken from a stream does not depend on the pieces it came in, nor
\* what a client hears on those its answers leave in, and no buffer outgrows
\* its bound (Streams: tls_utils.cpp, tcp_session.cpp, http_response.cpp,
\* socket_utils.h:137-152).
PiecesDoNotMatter ==
  part = "streams" => S!TypeOK /\ S!PiecesDoNotMatter /\ S!AnswersArriveWhole

\* A reply is relayed whole or cut between two records, whatever the client has
\* room for, and what the policy table sends here is answered here (Answers:
\* message.cpp, rules.cpp, answer.cpp).
AnswersAreWhole == part = "answers" => A!RelayedWhole /\ A!RoutedIsAnswered

\* Whatever the other side does or fails to do, a cancelled query is rid of its
\* tasks and a download ends (cancel.h:21-35, http.cpp:190-277 and 486-498).
EverybodyFinishes ==
  /\ part = "upstream" => U!CancelledEnds
  /\ part = "transfer" => DownloadEnds
=============================================================================
