------------------------------- MODULE Answers -------------------------------
(***************************************************************************)
(* What a client is sent over UDP: the rule file and what it covers        *)
(* (dns/rules.cpp), the answers made from it (dns/answer.cpp), and the     *)
(* replies of others, relayed and cut to the client's size by either       *)
(* server (dns/resolver.cpp, dns/dns_proxy.cpp).  When a query is answered *)
(* and by whom is the subject of LocalResolver and DnsProxy; here it is    *)
(* what the answer says, octet by octet.                                   *)
(*                                                                         *)
(* External: what clients ask and upstreams reply (the encodings of the    *)
(* first section), and which names the policy table sends here.            *)
(***************************************************************************)
EXTENDS Messages

CONSTANTS
  Exchanges,    \* [server, file, asked]: the server ("resolver" or "proxy"),
                \* its rule file, a sequence of [action, tokens], and what a
                \* client asks, [labels, qtype, qclass, flags, opts]
  RepliesTo(_), \* what upstreams may reply in one: [sections, truncated]
  None

VARIABLES
  exchange, \* what is asked of whom
  stage,
  reply,    \* what the upstream replied, as it means it
  sent      \* what the client is sent: octets

vars == <<exchange, stage, reply, sent>>
server == exchange.server
file == exchange.file
asked == exchange.asked

(***************************************************************************)
(* What arrives.  The name of a record is "whole", a "pointer" to the      *)
(* question's, or "partly" one: a label of its own and then the pointer.   *)
(***************************************************************************)
Name(labels) ==
  FlattenSeq([i \in 1..Len(labels) |-> <<Len(labels[i])>> \o labels[i]]) \o <<0>>
Record(labels, r) ==
  (CASE r.name = "whole" -> Name(labels)
     [] r.name = "pointer" -> <<192, HeaderLength>>
     [] r.name = "partly" -> <<1, 97, 192, HeaderLength>>)
    \o Put16(16) \o Put16(kClassIn) \o Put32(r.ttl) \o Put16(r.size) \o [i \in 1..r.size |-> 120]
Header(flags, an, ns, ar) ==
  Put16(7) \o Put16(flags) \o Put16(1) \o Put16(an) \o Put16(ns) \o Put16(ar)
Question(q) == Name(q.labels) \o Put16(q.qtype) \o Put16(q.qclass)
OptRecord(payload) == <<0>> \o Put16(kTypeOpt) \o Put16(payload) \o Put32(0) \o Put16(0)

Query(q) ==
  Header(q.flags, 0, 0, Len(q.opts)) \o Question(q)
    \o FlattenSeq([i \in 1..Len(q.opts) |-> OptRecord(q.opts[i])])
Reply(q, r) ==
  LET records == FlattenSeq(r.sections) IN
  Header(IF r.truncated THEN 33664 ELSE 33152,
         Len(r.sections[1]), Len(r.sections[2]), Len(r.sections[3]))
    \o Question(q) \o FlattenSeq([i \in 1..Len(records) |-> Record(q.labels, records[i])])

(***************************************************************************)
(* Rules.  A line has an action ("nx", "v4" or "v6"; anything else is      *)
(* blank, a comment or an error) and tokens, each a sequence of codes.     *)
(***************************************************************************)
Bang == 33
NormalizeDomain(d) ==
  LET solid == {i \in 1..Len(d) : d[i] # Dot}
      first == CHOOSE i \in solid : \A j \in solid : i <= j
      last == CHOOSE i \in solid : \A j \in solid : i >= j
  IN  IF solid = {} THEN <<>>
      ELSE [i \in 1..last - first + 1 |-> AsciiLower(d[first + i - 1])]

Domain(token) ==
  [kind |-> IF Head(token) = Dot THEN "Suffix" ELSE "Exact", domain |-> NormalizeDomain(token)]
ParseRuleLine(line) ==
  IF line.action \notin {"nx", "v4", "v6"} \/ \E i \in 1..Len(line.tokens) : Head(line.tokens[i]) = Bang
  THEN <<>>
  ELSE SelectSeq([i \in 1..Len(line.tokens) |-> Domain(line.tokens[i])], LAMBDA d : d.domain # <<>>)

Rules(line) ==
  LET domains == ParseRuleLine(line) IN
  [i \in 1..Len(domains) |->
     [action |-> IF line.action = "nx" THEN "Block" ELSE "Redirect",
      kind |-> domains[i].kind, domain |-> domains[i].domain,
      hasV4 |-> line.action # "v6", hasV6 |-> line.action # "v4"]]
LoadRuleFile(lines) == FlattenSeq([i \in 1..Len(lines) |-> Rules(lines[i])])

SuffixMatch(name, suffix) ==
  /\ suffix # <<>> /\ name # <<>>
  /\ \/ name = suffix
     \/ /\ Len(name) > Len(suffix) + 1
        /\ name[Len(name) - Len(suffix)] = Dot
        /\ IsSuffix(suffix, name)
ExactMatch(name, domain) == name # <<>> /\ name = domain
DomainCovers(rule, name) ==
  IF rule.kind = "Suffix" THEN SuffixMatch(name, rule.domain) ELSE ExactMatch(name, rule.domain)

Match(rules, name) ==
  LET hits == {i \in 1..Len(rules) : DomainCovers(rules[i], name)} IN
  IF hits = {} THEN None ELSE rules[CHOOSE i \in hits : \A j \in hits : i <= j]
Namespaces(rules) ==
  {(IF rules[i].kind = "Suffix" THEN <<Dot>> ELSE <<>>) \o rules[i].domain : i \in 1..Len(rules)}

(***************************************************************************)
(* Answers of our own.                                                     *)
(***************************************************************************)
DecideAction(qtype) ==
  CASE qtype \in {kTypeA, kTypeAaaa} -> "Answer"
    [] qtype \in {kTypeHttps, kTypeSvcb} -> "NoData"
    [] OTHER -> "Forward"

Address(qtype) == IF qtype = kTypeA THEN [i \in 1..4 |-> 127] ELSE [i \in 1..16 |-> 1]
Carries(rule, qtype) == (qtype = kTypeA => rule.hasV4) /\ (qtype = kTypeAaaa => rule.hasV6)

BuildResponse(query, q, rule, action) ==
  LET block == rule.action = "Block"
      answer == ~block /\ action = "Answer" /\ Carries(rule, q.qtype)
      header == BuildResponseHeader(query, q.questionEnd,
                                    IF block THEN kRcodeNxDomain ELSE kRcodeNoError)
      address == Address(q.qtype)
  IN  IF action = "Forward" THEN <<>>
      ELSE IF answer
      THEN Over(header, 7, <<1>>) \o Put16(49164) \o Put16(q.qtype) \o Put16(kClassIn)
             \o Put32(60) \o Put16(Len(address)) \o address
      ELSE header

Standard(q) == q.flags < 32768 /\ (q.flags \div 2048) % 16 = 0 /\ q.qclass = kClassIn
TryAnswer(rules, query, q) ==
  LET rule == Match(rules, q.name) IN
  IF ~Standard(q) \/ rule = None THEN <<>>
  ELSE BuildResponse(query, q, rule,
                     IF rule.action = "Block" THEN "NoData" ELSE DecideAction(q.qtype))

-----------------------------------------------------------------------------
Init ==
  /\ exchange \in Exchanges
  /\ stage = "asked" /\ reply = None /\ sent = <<>>

\* A query arrives at the local server: it is dropped, answered or forwarded.
HandleUdpQuery ==
  LET q == ParseQuery(Query(asked)) IN
  /\ server = "resolver" /\ stage = "asked"
  /\ \/ q = NoQuestion /\ stage' = "dropped" /\ sent' = <<>>
     \/ /\ q # NoQuestion
        /\ sent' = TryAnswer(LoadRuleFile(file), Query(asked), q)
        /\ stage' = IF sent' = <<>> THEN "forwarded" ELSE "answered"
  /\ UNCHANGED <<exchange, reply>>

\* A query arrives at the forwarder, which knows of no rules.
HandleQuery ==
  /\ server = "proxy" /\ stage = "asked"
  /\ stage' = IF ParseQuery(Query(asked)) = NoQuestion THEN "dropped" ELSE "forwarded"
  /\ UNCHANGED <<exchange, reply, sent>>

\* The reply, in at most the size the client has room for, or a failure.
Fitted(query, response, budget) ==
  LET cut == ApplyUdpBudget(query, response, budget) IN
  IF cut.budget = "CannotFit"
  THEN BuildStatusResponse(query, ParseQuery(query).questionEnd, kRcodeServFail)
  ELSE cut.response

HandleUpstreamReply ==
  /\ server = "resolver" /\ stage = "forwarded" /\ stage' = "relayed"
  /\ reply' \in RepliesTo(exchange)
  /\ sent' = Fitted(Query(asked), Reply(asked, reply'), QueryUdpPayloadSize(Query(asked)))
  /\ UNCHANGED exchange

\* The forwarder takes no reply that was truncated on its way.
Deliver ==
  /\ server = "proxy" /\ stage = "forwarded" /\ stage' = "relayed"
  /\ reply' \in {r \in RepliesTo(exchange) : ~r.truncated}
  /\ sent' = Fitted(Query(asked), Reply(asked, reply'), NegotiateUdpPayload(Query(asked)))
  /\ UNCHANGED exchange

Next == HandleUdpQuery \/ HandleQuery \/ HandleUpstreamReply \/ Deliver
Spec == Init /\ [][Next]_vars

-----------------------------------------------------------------------------
\* What a client is sent of a reply: all of it where it fits, and otherwise the
\* longest of its beginnings that does, cut between two records, with the counts
\* of what is left and TC set (message.h:186-204).
Beginning(r, n) ==
  LET an == Smaller(n, Len(r.sections[1]))
      ns == Smaller(n - an, Len(r.sections[2]))
  IN  [sections |-> <<SubSeq(r.sections[1], 1, an), SubSeq(r.sections[2], 1, ns),
                      SubSeq(r.sections[3], 1, n - an - ns)>>, truncated |-> TRUE]
RoomOf(q) ==
  LET room == IF q.opts = <<>> THEN kMinUdpPayload ELSE Larger(q.opts[1], kMinUdpPayload) IN
  IF server = "proxy" THEN Smaller(room, kMaxUdpPayload) ELSE room
Failure(q) == Header(33154, 0, 0, 0) \o Question(q)
Meant(q, r) ==
  LET n == Len(FlattenSeq(r.sections))
      fit == {k \in 0..n : Len(Reply(q, Beginning(r, k))) <= RoomOf(q)}
  IN  IF Len(Reply(q, r)) <= RoomOf(q) THEN Reply(q, r)
      ELSE IF fit = {} THEN Failure(q)
      ELSE Reply(q, Beginning(r, CHOOSE k \in fit : \A j \in fit : j <= k))
Partly(r) == \E s \in 1..3 : \E i \in 1..Len(r.sections[s]) : r.sections[s][i].name = "partly"

\* That much, of a reply whose names are written out or are a pointer.
RelayedWhole ==
  stage = "relayed" /\ ~Partly(reply) => sent = Meant(asked, reply)

\* The labels of a dotted name.
LabelsOf(name) ==
  FoldLeft(LAMBDA labels, c :
             IF c = Dot THEN Append(labels, <<>>)
             ELSE Front(labels) \o <<Append(Last(labels), c)>>, <<<<>>>>, name)
\* The names a namespace covers: a subtree with its apex, or one name.
Covers(namespace, labels) ==
  IF Head(namespace) = Dot THEN IsSuffix(LabelsOf(Tail(namespace)), labels)
  ELSE labels = LabelsOf(namespace)

\* The rules and the table installed from them agree on every name: what the
\* table sends here is answered here when it asks for an address or for a way
\* round one, with one record that is whole or with none, and a name that is
\* not sent here is left alone (rules.h:31-37, answer.h:44-52).
RoutedIsAnswered ==
  LET labels == [i \in 1..Len(asked.labels) |->
                   [j \in 1..Len(asked.labels[i]) |-> AsciiLower(asked.labels[i][j])]]
      routed == \E n \in Namespaces(LoadRuleFile(file)) : Covers(n, labels)
      end == HeaderLength + Len(Question(asked))
  IN  /\ stage = "answered" => /\ routed
                               /\ SubSeq(sent, 1, 2) = SubSeq(Query(asked), 1, 2)
                               /\ SubSeq(sent, 13, end) = Question(asked)
                               /\ WalkRecords(sent) = IF Len(sent) = end THEN <<>> ELSE <<Len(sent)>>
      /\ server = "resolver" /\ stage \in {"forwarded", "relayed"} /\ routed =>
           ~Standard(asked) \/ DecideAction(asked.qtype) = "Forward"

(***************************************************************************)
(* Said of the program, and refuted by what it does: README, section 6.    *)
(***************************************************************************)
\* "Records are never split" and "The counts in the header are rewritten to
\* match what survived", whatever way the names are compressed
\* (message.h:170-172, 190-194).
RecordsNeverSplit ==
  stage = "relayed" =>
    \/ sent \in {Reply(asked, reply), Failure(asked)}
    \/ \E k \in 0..Len(FlattenSeq(reply.sections)) : sent = Reply(asked, Beginning(reply, k))

\* "The largest UDP response we are willing to send regardless of what the
\* client asked for" (message.h:91-92).
NeverOverTheMost == stage = "relayed" => Len(sent) <= kMaxUdpPayload
=============================================================================
